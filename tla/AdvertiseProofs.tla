--------------------------- MODULE AdvertiseProofs --------------------------
(***************************************************************************)
(* What Advertise promises for any number of threads, attempts and starts: *)
(* nothing is done twice, outside the races that the code leaves open.     *)
(***************************************************************************)
EXTENDS Advertise, FiniteSetTheorems, TLAPS

-----------------------------------------------------------------------------
(* The inductive invariant.                                                *)

\* One thread at a time holds the lock of advertise, with an attempt that has just begun;
\* an attempt that went on is the one that _advertise_response holds.
AttemptInv ==
  /\ \A t \in Threads : thread[t].at \in {"contacting", "hooking"} => thread[t].attempt \in Attempts
  /\ \A t, u \in Contacting : t = u
  /\ \A t \in Contacting : response = 0
  /\ \A i \in Attempts : attempt[i] = "begun" => \E t \in Contacting : thread[t].attempt = i
  /\ \A i \in Attempts : attempt[i] \in {"pending", "answered", "refused", "ok"} => response = i

\* An Advertiser that is not started twice at a time has one loop, whose timer it knows;
\* that of an attempt has none before it is started.
LoopInv ==
  \A a \in Advertisers :
    /\ a # User \/ ~restarted =>
         /\ \A g, h \in Live(a) : g = h
         /\ \A g \in Starts : loop[a][g] = "timer" => next_ad[a] = g /\ running[a]
    /\ a # User /\ ~running[a] => Live(a) = {}

\* The thread t is about to make a server.
Makes(t) == thread[t].at = "binding" \/ (thread[t].at = "contacting" /\ thread[t].listens)

\* Without the race, one thread at a time is about to make a server, and it is the first.
ServerInv ==
  ~raced =>
    /\ \A t, u \in Threads : Makes(t) /\ Makes(u) => t = u
    /\ \A t \in Threads : Makes(t) => servers = 0
    /\ servers <= 1

Inv == TypeOK /\ AttemptInv /\ LoopInv /\ ServerInv

\* A set whose elements are all the same has one at most.
LEMMA AtMostOne ==
  ASSUME NEW S, \A x, y \in S : x = y
  PROVE  Cardinality(S) <= 1
<1>1. CASE S = {}
  BY <1>1, FS_EmptySet
<1>2. CASE S # {}
  <2>1. PICK x \in S : TRUE
    BY <1>2
  <2>2. S = {x}
    BY <2>1
  <2> QED
    BY <2>2, FS_Singleton
<1> QED
  BY <1>1, <1>2

LEMMA InvInit == Init => Inv
<1> SUFFICES ASSUME Init PROVE Inv
  OBVIOUS
<1>1. TypeOK
  <2>1. Idle \in [at : {"idle", "binding", "contacting", "hooking"},
                  attempt : 0 .. MaxAttempts, listens : BOOLEAN]
    BY AdvertiseAssumption DEF Idle, At
  <2>2. \A a \in Advertisers : next_ad[a] # Nobody => loop[a][next_ad[a]] = "timer"
    BY DEF Init
  <2>3. thread \in [Threads -> [at : {"idle", "binding", "contacting", "hooking"},
                                attempt : 0 .. MaxAttempts, listens : BOOLEAN]]
    BY <2>1 DEF Init
  <2>4. 0 \in 0 .. MaxAttempts
    BY AdvertiseAssumption
  <2>5. /\ running \in [Advertisers -> BOOLEAN]
        /\ loop \in [Advertisers -> [Starts -> {"none", "timer", "ad", "spawned"}]]
        /\ next_ad \in [Advertisers -> {Nobody} \cup Starts]
        /\ {raced, restarted, routers} \subseteq BOOLEAN
    BY DEF Init
  <2>6. attempt \in [Attempts -> {"none", "begun", "pending", "answered", "refused", "ok",
                                 "failed"}]
    BY DEF Init
  <2> QED
    BY <2>2, <2>3, <2>4, <2>5, <2>6 DEF Init, TypeOK
<1>2. AttemptInv
  BY DEF Init, AttemptInv, Idle, At, Contacting
<1>3. LoopInv
  BY DEF Init, LoopInv, Live
<1>4. ServerInv
  BY DEF Init, ServerInv, Makes, Idle, At
<1> QED
  BY <1>1, <1>2, <1>3, <1>4 DEF Inv

-----------------------------------------------------------------------------
(* The Advertiser.                                                         *)

LoopStates == {"none", "timer", "ad", "spawned"}

\* The Advertisers' part of the type invariant.
AdvertiserType ==
  /\ running \in [Advertisers -> BOOLEAN]
  /\ loop \in [Advertisers -> [Starts -> LoopStates]]
  /\ next_ad \in [Advertisers -> {Nobody} \cup Starts]
  /\ \A a \in Advertisers : next_ad[a] # Nobody => loop[a][next_ad[a]] = "timer"
  /\ restarted \in BOOLEAN

\* A loop of an Advertiser changes, and no other.
LEMMA LoopUpdate ==
  ASSUME NEW f \in [Advertisers -> [Starts -> LoopStates]],
         NEW a \in Advertisers, NEW g \in Starts, NEW st \in LoopStates
  PROVE  LET e == [f EXCEPT ![a][g] = st] IN
         /\ e \in [Advertisers -> [Starts -> LoopStates]]
         /\ e[a][g] = st
         /\ \A b \in Advertisers, h \in Starts : b # a \/ h # g => e[b][h] = f[b][h]
  OBVIOUS

\* start, stop and the steps of a loop keep what is known of the loops.
LEMMA LoopStep ==
  ASSUME AdvertiserType, LoopInv
  PROVE  /\ \A a \in Advertisers, g \in Starts :
              /\ Start(a, g)
              /\ IF a = User THEN restarted' = (restarted \/ Live(User) # {})
                 ELSE UNCHANGED restarted
              => AdvertiserType' /\ LoopInv'
         /\ StopUser => AdvertiserType' /\ LoopInv'
         /\ \A a \in Advertisers, g \in Starts : Fire(a, g) => AdvertiserType' /\ LoopInv'
         /\ \A a \in Advertisers, g \in Starts, ok \in BOOLEAN :
              AdEnds(a, g, ok) => AdvertiserType' /\ LoopInv'
         /\ \A a \in Advertisers, g \in Starts : ScheduleAd(a, g) => AdvertiserType' /\ LoopInv'
         /\ UNCHANGED advertiser => AdvertiserType' /\ LoopInv'
<1>0. /\ "none" \in LoopStates /\ "timer" \in LoopStates /\ "ad" \in LoopStates
      /\ "spawned" \in LoopStates /\ Nobody \notin Starts /\ User \in Advertisers
      /\ \A g \in Starts : g # Nobody
      /\ loop \in [Advertisers -> [Starts -> LoopStates]]
  BY AdvertiseAssumption DEF LoopStates, Nobody, Starts, User, Advertisers, AdvertiserType
<1>1. ASSUME NEW a \in Advertisers, NEW g \in Starts, Start(a, g),
             IF a = User THEN restarted' = (restarted \/ Live(User) # {})
             ELSE UNCHANGED restarted
      PROVE  AdvertiserType' /\ LoopInv'
  <2>1. /\ ~running[a] /\ running' = [running EXCEPT ![a] = TRUE]
        /\ loop' = [loop EXCEPT ![a][g] = "timer"] /\ next_ad' = [next_ad EXCEPT ![a] = g]
    BY <1>1 DEF Start
  <2>2. /\ loop' \in [Advertisers -> [Starts -> LoopStates]] /\ loop'[a][g] = "timer"
        /\ \A b \in Advertisers, h \in Starts : b # a \/ h # g => loop'[b][h] = loop[b][h]
    BY <1>0, <2>1, LoopUpdate
  <2>3. /\ running' \in [Advertisers -> BOOLEAN] /\ running'[a] = TRUE
        /\ next_ad' \in [Advertisers -> {Nobody} \cup Starts] /\ next_ad'[a] = g
        /\ \A b \in Advertisers : b # a => next_ad'[b] = next_ad[b] /\ running'[b] = running[b]
        /\ restarted' \in BOOLEAN
    BY <1>1, <2>1 DEF AdvertiserType
  <2>4. AdvertiserType'
    BY <2>2, <2>3 DEF AdvertiserType
  <2>5. a # User \/ ~restarted' => \A h \in Starts : loop[a][h] = "none"
    BY <1>0, <1>1, <2>1 DEF LoopInv, Live
  <2>6. LoopInv'
    <3> SUFFICES ASSUME NEW b \in Advertisers
                 PROVE  /\ b # User \/ ~restarted' =>
                             /\ \A h, k \in Live(b)' : h = k
                             /\ \A h \in Starts : loop'[b][h] = "timer" => next_ad'[b] = h /\ running'[b]
                        /\ b # User /\ ~running'[b] => Live(b)' = {}
      BY DEF LoopInv
    <3>1. CASE b = a
      <4>1. a # User \/ ~restarted' => Live(a)' = {g}
        BY <2>2, <2>5 DEF Live
      <4>2. \A h \in Starts : loop'[a][h] = "timer" => h \in Live(a)'
        BY DEF Live
      <4>3. running'[a]
        BY <2>3
      <4> QED
        BY <2>3, <3>1, <4>1, <4>2, <4>3
    <3>2. CASE b # a
      <4>1. Live(b)' = Live(b)
        BY <2>2, <3>2 DEF Live
      <4>2. ~restarted' => ~restarted
        BY <1>1 DEF AdvertiserType
      <4> QED
        BY <2>2, <2>3, <3>2, <4>1, <4>2 DEF LoopInv
    <3> QED
      BY <3>1, <3>2
  <2> QED
    BY <2>4, <2>6
<1>2. ASSUME StopUser PROVE AdvertiserType' /\ LoopInv'
  <2>1. CASE next_ad[User] = Nobody
    <3>1. /\ running' = [running EXCEPT ![User] = FALSE] /\ loop' = loop
          /\ next_ad' = [next_ad EXCEPT ![User] = Nobody] /\ restarted' = restarted
      BY <1>2, <2>1 DEF StopUser, StopTimer
    <3>2. AdvertiserType'
      BY <1>0, <3>1 DEF AdvertiserType
    <3>3. LoopInv'
      BY <1>0, <2>1, <3>1 DEF LoopInv, Live, AdvertiserType
    <3> QED
      BY <3>2, <3>3
  <2>2. CASE next_ad[User] # Nobody
    <3> DEFINE g == next_ad[User]
    <3>1. /\ running' = [running EXCEPT ![User] = FALSE] /\ loop' = [loop EXCEPT ![User][g] = "none"]
          /\ next_ad' = [next_ad EXCEPT ![User] = Nobody] /\ restarted' = restarted
          /\ g \in Starts
      BY <1>0, <1>2, <2>2 DEF StopUser, StopTimer, AdvertiserType
    <3> HIDE DEF g
    <3>2. /\ loop' \in [Advertisers -> [Starts -> LoopStates]] /\ loop'[User][g] = "none"
          /\ \A b \in Advertisers, h \in Starts : b # User \/ h # g => loop'[b][h] = loop[b][h]
      BY <1>0, <3>1, LoopUpdate
    <3>3. /\ running' \in [Advertisers -> BOOLEAN]
          /\ next_ad' \in [Advertisers -> {Nobody} \cup Starts] /\ next_ad'[User] = Nobody
          /\ \A b \in Advertisers : b # User => next_ad'[b] = next_ad[b] /\ running'[b] = running[b]
      BY <1>0, <3>1 DEF AdvertiserType
    <3>4. AdvertiserType'
      BY <3>1, <3>2, <3>3 DEF AdvertiserType
    <3>5. LoopInv'
      BY <3>1, <3>2, <3>3 DEF LoopInv, Live, g
    <3> QED
      BY <3>4, <3>5
  <2> QED
    BY <2>1, <2>2
<1>3. ASSUME NEW a \in Advertisers, NEW g \in Starts, Fire(a, g) PROVE AdvertiserType' /\ LoopInv'
  <2>1. /\ loop[a][g] = "timer" /\ loop' = [loop EXCEPT ![a][g] = "ad"]
        /\ next_ad' = [next_ad EXCEPT ![a] = Nobody] /\ UNCHANGED <<running, restarted>>
    BY <1>3 DEF Fire, AfterFire
  <2>2. /\ loop' \in [Advertisers -> [Starts -> LoopStates]] /\ loop'[a][g] = "ad"
        /\ \A b \in Advertisers, h \in Starts : b # a \/ h # g => loop'[b][h] = loop[b][h]
    BY <1>0, <2>1, LoopUpdate
  <2>3. /\ next_ad' \in [Advertisers -> {Nobody} \cup Starts] /\ next_ad'[a] = Nobody
        /\ \A b \in Advertisers : b # a => next_ad'[b] = next_ad[b]
    BY <2>1 DEF AdvertiserType
  <2>4. AdvertiserType'
    BY <2>1, <2>2, <2>3 DEF AdvertiserType
  <2>5. LoopInv'
    BY <2>1, <2>2, <2>3 DEF LoopInv, Live
  <2> QED
    BY <2>4, <2>5
<1>4. ASSUME NEW a \in Advertisers, NEW g \in Starts, NEW ok \in BOOLEAN, AdEnds(a, g, ok)
      PROVE  AdvertiserType' /\ LoopInv'
  <2>1. /\ loop[a][g] = "ad" /\ loop' = [loop EXCEPT ![a][g] = "spawned"]
        /\ UNCHANGED <<running, next_ad, restarted>>
    BY <1>4 DEF AdEnds, Rescheduled
  <2>2. /\ loop' \in [Advertisers -> [Starts -> LoopStates]] /\ loop'[a][g] = "spawned"
        /\ \A b \in Advertisers, h \in Starts : b # a \/ h # g => loop'[b][h] = loop[b][h]
    BY <1>0, <2>1, LoopUpdate
  <2>4. AdvertiserType'
    BY <2>1, <2>2 DEF AdvertiserType
  <2>5. LoopInv'
    BY <2>1, <2>2 DEF LoopInv, Live
  <2> QED
    BY <2>4, <2>5
<1>5. ASSUME NEW a \in Advertisers, NEW g \in Starts, ScheduleAd(a, g)
      PROVE  AdvertiserType' /\ LoopInv'
  <2>0. loop[a][g] = "spawned" /\ UNCHANGED <<running, restarted>>
    BY <1>5 DEF ScheduleAd
  <2>1. CASE running[a]
    <3>1. loop' = [loop EXCEPT ![a][g] = "timer"] /\ next_ad' = [next_ad EXCEPT ![a] = g]
      BY <1>5, <2>1 DEF ScheduleAd, Continues
    <3>2. /\ loop' \in [Advertisers -> [Starts -> LoopStates]] /\ loop'[a][g] = "timer"
          /\ \A b \in Advertisers, h \in Starts : b # a \/ h # g => loop'[b][h] = loop[b][h]
      BY <1>0, <3>1, LoopUpdate
    <3>3. /\ next_ad' \in [Advertisers -> {Nobody} \cup Starts] /\ next_ad'[a] = g
          /\ \A b \in Advertisers : b # a => next_ad'[b] = next_ad[b]
      BY <3>1 DEF AdvertiserType
    <3>4. AdvertiserType'
      BY <2>0, <3>2, <3>3 DEF AdvertiserType
    <3>5. LoopInv'
      BY <2>0, <2>1, <3>2, <3>3, SMTT(30) DEF LoopInv, Live
    <3> QED
      BY <3>4, <3>5
  <2>2. CASE ~running[a]
    <3>1. loop' = [loop EXCEPT ![a][g] = "none"] /\ next_ad' = next_ad
      BY <1>5, <2>2 DEF ScheduleAd, Continues
    <3>2. /\ loop' \in [Advertisers -> [Starts -> LoopStates]] /\ loop'[a][g] = "none"
          /\ \A b \in Advertisers, h \in Starts : b # a \/ h # g => loop'[b][h] = loop[b][h]
      BY <1>0, <3>1, LoopUpdate
    <3>3. AdvertiserType'
      BY <2>0, <3>1, <3>2 DEF AdvertiserType
    <3>4. LoopInv'
      BY <2>0, <3>1, <3>2 DEF LoopInv, Live
    <3> QED
      BY <3>3, <3>4
  <2> QED
    BY <2>1, <2>2
<1>6. ASSUME UNCHANGED advertiser PROVE AdvertiserType' /\ LoopInv'
  BY <1>6 DEF advertiser, AdvertiserType, LoopInv, Live
<1> QED
  BY <1>1, <1>2, <1>3, <1>4, <1>5, <1>6

-----------------------------------------------------------------------------
(* The channel.                                                            *)

ThreadStates ==
  [at : {"idle", "binding", "contacting", "hooking"},
   attempt : 0 .. MaxAttempts, listens : BOOLEAN]

AttemptStates == {"none", "begun", "pending", "answered", "refused", "ok", "failed"}

\* The channel's part of the type invariant.
ChannelType ==
  /\ state \in {"ready", "closed"} /\ servers \in 0 .. 2
  /\ thread \in [Threads -> ThreadStates]
  /\ response \in 0 .. MaxAttempts
  /\ attempt \in [Attempts -> AttemptStates]
  /\ raced \in BOOLEAN /\ routers \in BOOLEAN

ChannelInv == ChannelType /\ AttemptInv /\ ServerInv

\* What a thread does next.
LEMMA ThreadUpdate ==
  ASSUME ChannelType, NEW t \in Threads,
         NEW step \in {"idle", "binding", "contacting", "hooking"},
         NEW i \in 0 .. MaxAttempts, NEW listens \in BOOLEAN,
         thread' = [thread EXCEPT ![t] = At(step, i, listens)]
  PROVE  /\ thread' \in [Threads -> ThreadStates]
         /\ thread'[t].at = step /\ thread'[t].attempt = i /\ thread'[t].listens = listens
         /\ \A u \in Threads : u # t => thread'[u] = thread[u]
<1>1. At(step, i, listens) \in ThreadStates
  BY DEF At, ThreadStates
<1>2. thread' \in [Threads -> ThreadStates] /\ thread'[t] = At(step, i, listens)
      /\ \A u \in Threads : u # t => thread'[u] = thread[u]
  BY <1>1 DEF ChannelType
<1> QED
  BY <1>2 DEF At

\* listen: its lock keeps other calls of listen away.
LEMMA ListenStep ==
  ASSUME ChannelInv, NEW t \in Threads, Listen(t) \/ Bind(t)
  PROVE  ChannelInv'
<1>0. ChannelType /\ 0 \in 0 .. MaxAttempts /\ MaxAttempts \in Nat
  BY AdvertiseAssumption DEF ChannelInv
<1>1. CASE Listen(t)
  <2>1. /\ thread[t] = Idle /\ Listening = {} /\ servers = 0
        /\ thread' = [thread EXCEPT ![t] = At("binding", 0, TRUE)]
        /\ raced' = (raced \/ Late(Contacting))
        /\ UNCHANGED <<state, routers, servers, response, attempt>>
    BY <1>0, <1>1 DEF Listen, ListenLock, is_listening, ChannelType
  <2>2. /\ thread' \in [Threads -> ThreadStates] /\ thread'[t].at = "binding"
        /\ \A u \in Threads : u # t => thread'[u] = thread[u]
    BY <1>0, <2>1, ThreadUpdate
  <2>3. thread[t].at = "idle"
    BY <2>1 DEF Idle, At
  <2>4. ChannelType'
    BY <1>0, <2>1, <2>2 DEF ChannelType
  <2>5. Contacting' = Contacting /\ \A u \in Contacting : u # t
    BY <2>2, <2>3 DEF Contacting
  <2>6. AttemptInv'
    BY <2>1, <2>2, <2>5, ZenonT(30) DEF ChannelInv, AttemptInv, Contacting
  <2>7. ServerInv'
    <3> SUFFICES ASSUME ~raced' PROVE /\ \A u \in Threads : Makes(u)' => u = t
                                      /\ servers' = 0
      BY DEF ServerInv
    <3>1. ~Late(Contacting)
      BY <2>1
    <3>2. \A u \in Threads : u # t => ~Makes(u)
      BY <2>1, <3>1 DEF Makes, Listening, Contacting, Late
    <3> QED
      BY <2>1, <2>2, <3>2 DEF Makes
  <2> QED
    BY <2>4, <2>6, <2>7 DEF ChannelInv
<1>2. CASE Bind(t)
  <2>1. /\ thread[t].at = "binding"
        /\ servers' \in {servers, OneMore}
        /\ thread' = [thread EXCEPT ![t] = At("idle", 0, FALSE)]
        /\ UNCHANGED <<state, routers, response, attempt, raced>>
    BY <1>2 DEF Bind, Idle
  <2>2. /\ thread' \in [Threads -> ThreadStates] /\ thread'[t].at = "idle"
        /\ \A u \in Threads : u # t => thread'[u] = thread[u]
    BY <1>0, <2>1, ThreadUpdate
  <2>3. servers' \in 0 .. 2 /\ (servers = 0 => servers' \in {0, 1})
    BY <1>0, <2>1 DEF ChannelType, OneMore
  <2>4. ChannelType'
    BY <1>0, <2>1, <2>2, <2>3 DEF ChannelType
  <2>5. Contacting' = Contacting /\ \A u \in Contacting : u # t
    BY <2>1, <2>2 DEF Contacting
  <2>6. AttemptInv'
    BY <2>1, <2>2, <2>5 DEF ChannelInv, AttemptInv, Contacting
  <2>7. ServerInv'
    <3> SUFFICES ASSUME ~raced' PROVE /\ \A u \in Threads : ~Makes(u)'
                                      /\ servers' <= 1
      BY DEF ServerInv
    <3>1. Makes(t) /\ ~raced
      BY <2>1 DEF Makes
    <3>2. servers = 0 /\ \A u \in Threads : Makes(u) => u = t
      BY <3>1 DEF ChannelInv, ServerInv
    <3> QED
      BY <2>2, <2>3, <3>2 DEF Makes
  <2> QED
    BY <2>4, <2>6, <2>7 DEF ChannelInv
<1> QED
  BY <1>1, <1>2

\* advertise, as far as it holds its lock.
LEMMA AdvertiseStep ==
  ASSUME ChannelInv, NEW t \in Threads, Advertise(t)
  PROVE  ChannelInv'
<1>0. ChannelType /\ MaxAttempts \in Nat /\ Attempts \subseteq 0 .. MaxAttempts
  BY AdvertiseAssumption DEF ChannelInv, Attempts
<1>1. /\ thread[t] = Idle /\ Contacting = {} /\ response = 0
      /\ raced' = (raced \/ (~is_listening /\ Listening # {}))
      /\ UNCHANGED <<state, routers, servers, response>>
  BY DEF Advertise, AdvertiseLock, Reuses
<1>2. PICK i \in Attempts :
        /\ attempt[i] = "none"
        /\ thread' = [thread EXCEPT ![t] = At("contacting", i, ~is_listening)]
        /\ attempt' = [attempt EXCEPT ![i] = "begun"]
  BY DEF Advertise
<1>3. /\ thread' \in [Threads -> ThreadStates] /\ thread'[t].at = "contacting"
      /\ thread'[t].attempt = i /\ thread'[t].listens = ~is_listening
      /\ \A u \in Threads : u # t => thread'[u] = thread[u]
  <2>1. i \in 0 .. MaxAttempts
    BY <1>0
  <2>2. (~is_listening) \in BOOLEAN
    OBVIOUS
  <2> QED
    BY <1>0, <1>2, <2>1, <2>2, ThreadUpdate
<1>4. /\ attempt' \in [Attempts -> AttemptStates] /\ attempt'[i] = "begun"
      /\ \A j \in Attempts : j # i => attempt'[j] = attempt[j]
  BY <1>0, <1>2 DEF ChannelType, AttemptStates
<1>5. ChannelType'
  BY <1>0, <1>1, <1>3, <1>4 DEF ChannelType
<1>6. Contacting' = {t}
  BY <1>1, <1>3 DEF Contacting
<1>7. AttemptInv'
  <2>1. \A u \in Threads : thread'[u].at \in {"contacting", "hooking"} => thread'[u].attempt \in Attempts
    BY <1>3 DEF ChannelInv, AttemptInv
  <2>2. \A j \in Attempts : attempt'[j] = "begun" => \E u \in Contacting' : thread'[u].attempt = j
    BY <1>1, <1>3, <1>4, <1>6 DEF ChannelInv, AttemptInv
  <2>3. \A j \in Attempts : attempt'[j] \in {"pending", "answered", "refused", "ok"} => response' = j
    BY <1>1, <1>4 DEF ChannelInv, AttemptInv
  <2> QED
    BY <1>1, <1>6, <2>1, <2>2, <2>3 DEF AttemptInv
<1>8. ServerInv'
  <2> SUFFICES ASSUME ~raced'
               PROVE  /\ \A u, v \in Threads : Makes(u)' /\ Makes(v)' => u = v
                      /\ \A u \in Threads : Makes(u)' => servers' = 0
                      /\ servers' <= 1
    BY DEF ServerInv
  <2>1. /\ ~raced /\ (is_listening \/ Listening = {}) /\ servers <= 1
        /\ \A u, v \in Threads : Makes(u) /\ Makes(v) => u = v
        /\ \A u \in Threads : Makes(u) => servers = 0
    BY <1>1 DEF ChannelInv, ServerInv
  <2>2. \A u \in Threads : u # t => (Makes(u)' <=> Makes(u))
    BY <1>3 DEF Makes
  <2>3. CASE is_listening
    <3>1. servers # 0
      BY <1>0, <2>3 DEF is_listening, ChannelType
    <3>2. ~thread'[t].listens
      BY <1>3, <2>3
    <3>3. ~Makes(t)'
      BY <1>3, <3>2 DEF Makes
    <3> QED
      BY <1>1, <2>1, <2>2, <3>1, <3>3
  <2>4. CASE ~is_listening
    <3>1. servers = 0
      BY <1>0, <2>4 DEF is_listening, ChannelType
    <3>2. \A u \in Threads : ~Makes(u)
      BY <1>1, <2>1, <2>4 DEF Makes, Listening, Contacting
    <3> QED
      BY <1>1, <2>2, <3>1, <3>2
  <2> QED
    BY <2>3, <2>4
<1> QED
  BY <1>5, <1>7, <1>8 DEF ChannelInv

\* _advertise reaches its end, whether it starts an Advertiser or fails there and then.
LEMMA ContactStep ==
  ASSUME ChannelInv, NEW t \in Threads, Contact(t) \/ ContactFails(t)
  PROVE  ChannelInv'
<1> DEFINE i == thread[t].attempt
<1>0. ChannelType /\ MaxAttempts \in Nat /\ Attempts \subseteq 0 .. MaxAttempts /\ 0 \notin Attempts
  BY AdvertiseAssumption DEF ChannelInv, Attempts
<1>1. PICK outcome \in {"pending", "failed"} : attempt' = [attempt EXCEPT ![i] = outcome]
  BY DEF Contact, ContactFails
<1>2. /\ thread[t].at = "contacting" /\ response' = i
      /\ thread' = [thread EXCEPT ![t] = At("hooking", i, FALSE)]
      /\ routers' \in {routers, TRUE} /\ UNCHANGED <<state, raced>>
  <2>1. thread' = [thread EXCEPT ![t] = At("hooking", @.attempt, FALSE)]
    BY DEF Contact, ContactFails
  <2>2. [thread EXCEPT ![t] = At("hooking", @.attempt, FALSE)]
          = [thread EXCEPT ![t] = At("hooking", i, FALSE)]
    BY <1>0 DEF ChannelType
  <2> QED
    BY <2>1, <2>2 DEF Contact, ContactFails
<1>3. /\ t \in Contacting /\ i \in Attempts /\ response = 0
      /\ \A u \in Contacting : u = t
  BY <1>2 DEF ChannelInv, AttemptInv, Contacting
<1>4. servers' \in {servers, OneMore} /\ (servers' # servers => thread[t].listens)
  BY <1>0 DEF Contact, ContactFails, ChannelType
<1> HIDE DEF i
<1>5. /\ thread' \in [Threads -> ThreadStates] /\ thread'[t].at = "hooking"
      /\ thread'[t].attempt = i
      /\ \A u \in Threads : u # t => thread'[u] = thread[u]
  <2>1. i \in 0 .. MaxAttempts
    BY <1>0, <1>3
  <2> QED
    BY <1>0, <1>2, <2>1, ThreadUpdate
<1>6. /\ attempt' \in [Attempts -> AttemptStates] /\ attempt'[i] = outcome
      /\ \A j \in Attempts : j # i => attempt'[j] = attempt[j]
  BY <1>0, <1>1, <1>3 DEF ChannelType, AttemptStates
<1>7. ChannelType'
  <2>1. servers' \in 0 .. 2
    BY <1>0, <1>4 DEF ChannelType, OneMore
  <2>2. response' \in 0 .. MaxAttempts
    BY <1>0, <1>2, <1>3
  <2> QED
    BY <1>0, <1>2, <1>5, <1>6, <2>1, <2>2 DEF ChannelType
<1>8. Contacting' = {}
  BY <1>3, <1>5 DEF Contacting
<1>9. AttemptInv'
  <2>1. \A u \in Threads : thread'[u].at \in {"contacting", "hooking"} => thread'[u].attempt \in Attempts
    BY <1>3, <1>5 DEF ChannelInv, AttemptInv
  <2>2. \A j \in Attempts : attempt[j] = "begun" => j = i
    BY <1>3 DEF ChannelInv, AttemptInv, i
  <2>3. \A j \in Attempts : attempt[j] \notin {"pending", "answered", "refused", "ok"}
    BY <1>0, <1>3 DEF ChannelInv, AttemptInv
  <2>4. \A j \in Attempts : attempt'[j] # "begun"
    BY <1>6, <2>2
  <2>5. \A j \in Attempts : attempt'[j] \in {"pending", "answered", "refused", "ok"} => response' = j
    BY <1>2, <1>6, <2>3
  <2> QED
    BY <1>8, <2>1, <2>4, <2>5 DEF AttemptInv
<1>10. ServerInv'
  <2> SUFFICES ASSUME ~raced'
               PROVE  /\ \A u, v \in Threads : Makes(u)' /\ Makes(v)' => u = v
                      /\ \A u \in Threads : Makes(u)' => servers' = 0
                      /\ servers' <= 1
    BY DEF ServerInv
  <2>1. /\ servers <= 1
        /\ \A u, v \in Threads : Makes(u) /\ Makes(v) => u = v
        /\ \A u \in Threads : Makes(u) => servers = 0
    BY <1>2 DEF ChannelInv, ServerInv
  <2>2. ~Makes(t)' /\ \A u \in Threads : u # t => (Makes(u)' <=> Makes(u))
    BY <1>5 DEF Makes
  <2>3. CASE servers' = servers
    BY <2>1, <2>2, <2>3
  <2>4. CASE servers' # servers
    <3>1. Makes(t) /\ servers' = OneMore
      BY <1>2, <1>4, <2>4 DEF Makes
    <3>2. servers = 0 /\ servers' = 1 /\ \A u \in Threads : Makes(u) => u = t
      BY <2>1, <3>1 DEF OneMore
    <3> QED
      BY <2>2, <3>2
  <2> QED
    BY <2>3, <2>4
<1> QED
  BY <1>7, <1>9, <1>10 DEF ChannelInv

\* The callback is added.
LEMMA HookStep ==
  ASSUME ChannelInv, NEW t \in Threads, Hook(t)
  PROVE  ChannelInv'
<1> DEFINE i == thread[t].attempt
<1>0. ChannelType /\ MaxAttempts \in Nat /\ 0 \in 0 .. MaxAttempts
  BY AdvertiseAssumption DEF ChannelInv
<1>1. /\ thread[t].at = "hooking" /\ response' = OnHook(i)
      /\ thread' = [thread EXCEPT ![t] = At("idle", 0, FALSE)]
      /\ UNCHANGED <<state, routers, servers, attempt, raced>>
  BY DEF Hook, Idle
<1>2. /\ thread' \in [Threads -> ThreadStates] /\ thread'[t].at = "idle"
      /\ \A u \in Threads : u # t => thread'[u] = thread[u]
  BY <1>0, <1>1, ThreadUpdate
<1>3. response' = response \/ (response' = 0 /\ attempt[i] = "failed" /\ response = i)
  BY <1>1 DEF OnHook, Clears
<1>4. ChannelType'
  BY <1>0, <1>1, <1>2, <1>3 DEF ChannelType
<1>5. Contacting' = Contacting /\ \A u \in Contacting : u # t
  BY <1>1, <1>2 DEF Contacting
<1>6. AttemptInv'
  <2>1. \A u \in Threads : thread'[u].at \in {"contacting", "hooking"} => thread'[u].attempt \in Attempts
    BY <1>2 DEF ChannelInv, AttemptInv
  <2>2. \A j \in Attempts : attempt'[j] = "begun" => \E u \in Contacting' : thread'[u].attempt = j
    BY <1>1, <1>2, <1>5 DEF ChannelInv, AttemptInv, Contacting
  <2>3. \A j \in Attempts : attempt'[j] \in {"pending", "answered", "refused", "ok"} => response' = j
    BY <1>1, <1>3 DEF ChannelInv, AttemptInv
  <2>4. \A u \in Contacting : response' = 0
    BY <1>3 DEF ChannelInv, AttemptInv
  <2> QED
    BY <1>5, <2>1, <2>2, <2>3, <2>4 DEF ChannelInv, AttemptInv
<1>7. ServerInv'
  <2>1. \A u \in Threads : Makes(u)' => Makes(u)
    BY <1>2 DEF Makes
  <2> QED
    BY <1>1, <2>1 DEF ChannelInv, ServerInv
<1> QED
  BY <1>4, <1>6, <1>7 DEF ChannelInv

\* What leaves the threads alone: an answer to an ad, the end of an attempt, close.
LEMMA QuietStep ==
  ASSUME ChannelInv
  PROVE  /\ \A a \in Advertisers, g \in Starts, ok \in BOOLEAN : AdEnds(a, g, ok) => ChannelInv'
         /\ \A i \in Attempts, status \in {"ok", "failed"} : AttemptEnds(i, status) => ChannelInv'
         /\ Close => ChannelInv'
         /\ UNCHANGED channel => ChannelInv'
<1>0. ChannelType /\ MaxAttempts \in Nat /\ 0 \in 0 .. MaxAttempts
  BY AdvertiseAssumption DEF ChannelInv
<1>1. ASSUME UNCHANGED <<servers, thread, raced>>, ChannelType',
             \A j \in Attempts : attempt'[j] = "begun" => attempt[j] = "begun",
             \A j \in Attempts : attempt'[j] \in {"pending", "answered", "refused", "ok"} =>
                                   response' = j,
             response = 0 => response' = 0
      PROVE  ChannelInv'
  <2>1. Contacting' = Contacting
    BY <1>1 DEF Contacting
  <2>2. AttemptInv'
    BY <1>1, <2>1 DEF ChannelInv, AttemptInv
  <2>3. ServerInv'
    BY <1>1 DEF ChannelInv, ServerInv, Makes
  <2> QED
    BY <1>1, <2>2, <2>3 DEF ChannelInv
<1>2. ASSUME NEW a \in Advertisers, NEW g \in Starts, NEW ok \in BOOLEAN, AdEnds(a, g, ok)
      PROVE  ChannelInv'
  <2>1. /\ UNCHANGED <<state, routers, servers, thread, response, raced>>
        /\ \/ attempt' = attempt
           \/ /\ a \in Attempts /\ attempt[a] = "pending"
              /\ \E s \in {"answered", "refused"} : attempt' = [attempt EXCEPT ![a] = s]
    BY <1>2 DEF AdEnds, Advertisers
  <2>2. attempt' \in [Attempts -> AttemptStates]
    BY <1>0, <2>1 DEF ChannelType, AttemptStates
  <2>3. \A j \in Attempts :
          \/ attempt'[j] = attempt[j]
          \/ attempt[j] = "pending" /\ attempt'[j] \in {"answered", "refused"}
    BY <1>0, <2>1 DEF ChannelType
  <2>4. ChannelType'
    BY <1>0, <2>1, <2>2 DEF ChannelType
  <2> QED
    BY <1>1, <2>1, <2>3, <2>4 DEF ChannelInv, AttemptInv
<1>3. ASSUME NEW i \in Attempts, NEW status \in {"ok", "failed"}, AttemptEnds(i, status)
      PROVE  ChannelInv'
  <2>1. /\ attempt[i] \in {"answered", "refused"}
        /\ attempt' = [attempt EXCEPT ![i] = status]
        /\ response' = IF Hooked(i) /\ status = "failed" /\ response = i THEN 0 ELSE response
        /\ UNCHANGED <<state, routers, servers, thread, raced>>
    BY <1>3 DEF AttemptEnds, Clears
  <2>2. attempt' \in [Attempts -> AttemptStates] /\ response' \in 0 .. MaxAttempts
    BY <1>0, <2>1 DEF ChannelType, AttemptStates
  <2>3. attempt'[i] = status /\ \A j \in Attempts : j # i => attempt'[j] = attempt[j]
    BY <1>0, <2>1 DEF ChannelType
  <2>4. ChannelType'
    BY <1>0, <2>1, <2>2 DEF ChannelType
  <2>5. response = i /\ \A j \in Attempts : attempt[j] \in {"pending", "answered", "refused", "ok"} => j = i
    BY <2>1 DEF ChannelInv, AttemptInv
  <2>6. \A j \in Attempts : attempt'[j] \in {"pending", "answered", "refused", "ok"} => response' = j
    BY <2>1, <2>3, <2>5
  <2> QED
    BY <1>1, <2>1, <2>3, <2>4, <2>5, <2>6 DEF ChannelInv, AttemptInv
<1>4. ASSUME Close PROVE ChannelInv'
  <2>1. ChannelType'
    BY <1>0, <1>4 DEF Close, ChannelType
  <2> QED
    BY <1>1, <1>4, <2>1 DEF Close, ChannelInv, AttemptInv
<1>5. ASSUME UNCHANGED channel PROVE ChannelInv'
  <2>1. ChannelType'
    BY <1>0, <1>5 DEF channel, ChannelType
  <2> QED
    BY <1>1, <1>5, <2>1 DEF channel, ChannelInv, AttemptInv
<1> QED
  BY <1>2, <1>3, <1>4, <1>5

-----------------------------------------------------------------------------
(* The theorem.                                                            *)

\* The two halves of the invariant.
LEMMA InvSplits == Inv <=> AdvertiserType /\ LoopInv /\ ChannelInv
  BY DEF Inv, TypeOK, AdvertiserType, ChannelInv, ChannelType, LoopStates, ThreadStates,
         AttemptStates

LEMMA InvStep == Inv /\ [Next]_vars => Inv'
<1> SUFFICES ASSUME Inv, [Next]_vars PROVE AdvertiserType' /\ LoopInv' /\ ChannelInv'
  BY DEF Inv, TypeOK, AdvertiserType, ChannelInv, ChannelType, LoopStates, ThreadStates,
         AttemptStates
<1>0. AdvertiserType /\ LoopInv /\ ChannelInv
  BY InvSplits
<1>1. ASSUME NEW g \in Starts, StartUser(g) PROVE AdvertiserType' /\ LoopInv' /\ ChannelInv'
  <2>1. User \in Advertisers
    BY DEF Advertisers
  <2>2. Start(User, g) /\ restarted' = (restarted \/ Live(User) # {}) /\ UNCHANGED channel
    BY <1>1 DEF StartUser
  <2> QED
    BY <1>0, <2>1, <2>2, LoopStep, QuietStep
<1>2. CASE StopUser
  <2>1. UNCHANGED channel
    BY <1>2 DEF StopUser
  <2> QED
    BY <1>0, <1>2, <2>1, LoopStep, QuietStep
<1>3. CASE Close
  <2>1. UNCHANGED advertiser
    BY <1>3 DEF Close
  <2> QED
    BY <1>0, <1>3, <2>1, LoopStep, QuietStep
<1>4. ASSUME NEW l \in Loops, Fire(l[1], l[2]) \/ ScheduleAd(l[1], l[2])
      PROVE  AdvertiserType' /\ LoopInv' /\ ChannelInv'
  <2>1. l[1] \in Advertisers /\ l[2] \in Starts
    BY AdvertiseAssumption DEF Loops, Advertisers, Starts
  <2>2. UNCHANGED channel
    BY <1>4 DEF Fire, ScheduleAd
  <2> QED
    BY <1>0, <1>4, <2>1, <2>2, LoopStep, QuietStep
<1>5. ASSUME NEW l \in Loops, NEW ok \in BOOLEAN, AdEnds(l[1], l[2], ok)
      PROVE  AdvertiserType' /\ LoopInv' /\ ChannelInv'
  <2>1. l[1] \in Advertisers /\ l[2] \in Starts
    BY AdvertiseAssumption DEF Loops, Advertisers, Starts
  <2> QED
    BY <1>0, <1>5, <2>1, LoopStep, QuietStep
<1>6. ASSUME NEW t \in Threads, Listen(t) \/ Bind(t) \/ Advertise(t) \/ ContactFails(t) \/ Hook(t)
      PROVE  AdvertiserType' /\ LoopInv' /\ ChannelInv'
  <2>1. UNCHANGED advertiser
    BY <1>6 DEF Listen, Bind, Advertise, ContactFails, Hook
  <2> QED
    BY <1>0, <1>6, <2>1, LoopStep, ListenStep, AdvertiseStep, ContactStep, HookStep
<1>7. ASSUME NEW t \in Threads, Contact(t) PROVE AdvertiserType' /\ LoopInv' /\ ChannelInv'
  <2> DEFINE i == thread[t].attempt
  <2>1. i \in Advertisers /\ i # User /\ 1 \in Starts
    BY <1>0, <1>7, AdvertiseAssumption
       DEF Contact, ChannelInv, AttemptInv, Attempts, Advertisers, User, Starts
  <2>2. Start(i, 1) /\ UNCHANGED restarted
    BY <1>7 DEF Contact
  <2> QED
    BY <1>0, <1>7, <2>1, <2>2, LoopStep, ContactStep
<1>8. ASSUME NEW i \in Attempts, NEW status \in {"ok", "failed"}, AttemptEnds(i, status)
      PROVE  AdvertiserType' /\ LoopInv' /\ ChannelInv'
  <2>1. UNCHANGED advertiser
    BY <1>8 DEF AttemptEnds
  <2> QED
    BY <1>0, <1>8, <2>1, LoopStep, QuietStep
<1>9. CASE UNCHANGED vars
  <2>1. UNCHANGED channel /\ UNCHANGED advertiser
    BY <1>9 DEF vars
  <2> QED
    BY <1>0, <2>1, LoopStep, QuietStep
<1> QED
  BY <1>1, <1>2, <1>3, <1>4, <1>5, <1>6, <1>7, <1>8, <1>9 DEF Next

\* For any number of threads, attempts and starts: an Advertiser has one loop, which stop
\* ends before the next ad, unless it is started again while an ad is under way; of the
\* calls of advertise, one at most is under way or has succeeded; and listen and advertise
\* together make one server, unless both pass their check before either makes it.
THEOREM NothingIsDoneTwice == Spec => []NothingTwice
<1>1. Inv => NothingTwice
  <2> SUFFICES ASSUME Inv PROVE NothingTwice
    OBVIOUS
  <2>1. OneLoop
    <3> SUFFICES ASSUME NEW a \in Advertisers, a # User \/ ~restarted
                 PROVE  /\ Cardinality(Live(a)) <= 1
                        /\ ~running[a] => \A g \in Starts : loop[a][g] # "timer"
      BY DEF OneLoop
    <3>1. /\ \A g, h \in Live(a) : g = h
          /\ \A g \in Starts : loop[a][g] = "timer" => running[a]
      BY DEF Inv, LoopInv
    <3>2. Cardinality(Live(a)) <= 1
      BY <3>1, AtMostOne
    <3> QED
      BY <3>1, <3>2
  <2>2. OneAttempt
    <3> DEFINE S == {i \in Attempts : attempt[i] \notin {"none", "failed"}}
    <3>1. ASSUME NEW i \in S, NEW j \in S PROVE i = j
      <4>0. 0 \notin Attempts
        BY AdvertiseAssumption DEF Attempts
      <4>1. \A k \in S : attempt[k] = "begun" \/ response = k
        BY DEF Inv, TypeOK, AttemptInv
      <4>2. \A k \in S : attempt[k] = "begun" =>
              \E t \in Contacting : thread[t].attempt = k /\ response = 0
        BY DEF Inv, AttemptInv
      <4>3. \A t, u \in Contacting : t = u
        BY DEF Inv, AttemptInv
      <4>4. i \in Attempts /\ j \in Attempts
        OBVIOUS
      <4> QED
        BY <4>0, <4>1, <4>2, <4>3, <4>4
    <3>2. Cardinality(S) <= 1
      BY <3>1, AtMostOne
    <3> QED
      BY <3>2 DEF OneAttempt
  <2>3. OneServer
    BY DEF Inv, ServerInv, OneServer
  <2> QED
    BY <2>1, <2>2, <2>3 DEF Inv, NothingTwice
<1>2. Init => Inv
  BY InvInit
<1>3. Inv /\ [Next]_vars => Inv'
  BY InvStep
<1> QED
  BY <1>1, <1>2, <1>3, PTL DEF Spec
=============================================================================
