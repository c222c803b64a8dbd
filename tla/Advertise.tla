------------------------------ MODULE Advertise -----------------------------
(***************************************************************************)
(* A channel that listens and advertises itself: the Advertiser's loop     *)
(* (tornado/hyperbahn.py), TChannel.listen, advertise and close of         *)
(* tornado/tchannel.py and of tchannel.py, where several threads may call  *)
(* them.                                                                   *)
(*                                                                         *)
(* An attempt is one call of _advertise, which makes an Advertiser of its  *)
(* own; nobody can stop that one.  User is an Advertiser that somebody     *)
(* made, starts and stops.  A start begins a loop: a timer, an ad request, *)
(* a callback that sets the next timer.  The loop has no name in the code; *)
(* _next_ad holds the timer of one loop at most.                           *)
(***************************************************************************)
EXTENDS Naturals, FiniteSets

CONSTANTS
  Threads,      \* threads that call listen or advertise
  MaxAttempts,  \* attempts to advertise
  MaxStarts     \* starts of the Advertiser of the user

ASSUME AdvertiseAssumption ==
  MaxAttempts \in Nat /\ MaxStarts \in Nat \ {0}

Attempts == 1 .. MaxAttempts
User == 0
Advertisers == {User} \cup Attempts
Starts == 1 .. MaxStarts
Loops == {<<User, g>> : g \in Starts} \cup {<<i, 1>> : i \in Attempts}
Nobody == 0

VARIABLES
  state,      \* State of the channel: "ready" or "closed"
  routers,    \* peers has routers to send ads to
  servers,    \* servers that were made, 2 standing for more
  thread,     \* what a thread is about to do
  response,   \* _advertise_response: an attempt, or 0
  attempt,    \* how far an attempt is
  running,    \* Advertiser.running
  loop,       \* the loops of each Advertiser
  next_ad,    \* _next_ad: the loop whose timer it is, or Nobody
  raced,      \* a listen and an advertise both found that nobody listens
  restarted   \* User was started while one of its loops was under way

channel == <<state, routers, servers, thread, response, attempt, raced>>
advertiser == <<running, loop, next_ad, restarted>>
vars == <<channel, advertiser>>

\* The states of threads, attempts and loops; an Advertiser has a timer to remove only
\* if it is set.
TypeOK ==
  /\ state \in {"ready", "closed"} /\ servers \in 0 .. 2
  /\ thread \in [Threads -> [at : {"idle", "binding", "contacting", "hooking"},
                             attempt : 0 .. MaxAttempts, listens : BOOLEAN]]
  /\ response \in 0 .. MaxAttempts
  /\ attempt \in [Attempts -> {"none", "begun", "pending", "answered", "refused", "ok",
                              "failed"}]
  /\ running \in [Advertisers -> BOOLEAN]
  /\ loop \in [Advertisers -> [Starts -> {"none", "timer", "ad", "spawned"}]]
  /\ next_ad \in [Advertisers -> {Nobody} \cup Starts]
  /\ \A a \in Advertisers : next_ad[a] # Nobody => loop[a][next_ad[a]] = "timer"
  /\ {raced, restarted, routers} \subseteq BOOLEAN

At(step, i, listens) == [at |-> step, attempt |-> i, listens |-> listens]
Idle == At("idle", 0, FALSE)

\* __init__: without known_peers the channel knows no router.
Init ==
  /\ state = "ready" /\ servers = 0 /\ response = 0 /\ routers = FALSE
  /\ thread = [t \in Threads |-> Idle]
  /\ attempt = [i \in Attempts |-> "none"]
  /\ running = [a \in Advertisers |-> FALSE]
  /\ loop = [a \in Advertisers |-> [g \in Starts |-> "none"]]
  /\ next_ad = [a \in Advertisers |-> Nobody]
  /\ raced = FALSE /\ restarted = FALSE

-----------------------------------------------------------------------------
(* The Advertiser.                                                         *)

Live(a) == {g \in Starts : loop[a][g] # "none"}

\* start, and _schedule_ad with a delay of 0.
Start(a, g) ==
  /\ ~running[a]
  /\ running' = [running EXCEPT ![a] = TRUE]
  /\ loop' = [loop EXCEPT ![a][g] = "timer"]
  /\ next_ad' = [next_ad EXCEPT ![a] = g]

StartUser(g) ==
  /\ loop[User][g] = "none"
  /\ Start(User, g)
  /\ restarted' = (restarted \/ Live(User) # {})
  /\ UNCHANGED channel

\* Mutant of StopTimer: the timer is forgotten, not removed.
StopTimerNot(a) == loop

\* The loops once the timer that _next_ad holds was removed.
StopTimer(a) ==
  IF next_ad[a] = Nobody THEN loop ELSE [loop EXCEPT ![a][next_ad[a]] = "none"]

\* stop
StopUser ==
  /\ running[User]
  /\ running' = [running EXCEPT ![User] = FALSE]
  /\ loop' = StopTimer(User)
  /\ next_ad' = [next_ad EXCEPT ![User] = Nobody]
  /\ UNCHANGED <<channel, restarted>>

AfterFire(a) == [next_ad EXCEPT ![a] = Nobody]

\* _ad: the request is sent.  Whichever loop this is, _next_ad is cleared.
Fire(a, g) ==
  /\ loop[a][g] = "timer"
  /\ loop' = [loop EXCEPT ![a][g] = "ad"]
  /\ next_ad' = AfterFire(a)
  /\ UNCHANGED <<channel, running, restarted>>

\* Mutant of Rescheduled: a failure ends the loop.
RescheduledIfOk(ok) == IF ok THEN "spawned" ELSE "none"

\* The finally clause: _schedule_ad is called again, whatever came of the request.
Rescheduled(ok) == "spawned"

\* The request ends: it has a timeout.  Without peers it fails.  The first one is the
\* answer that the attempt waits for.
AdEnds(a, g, ok) ==
  /\ loop[a][g] = "ad"
  /\ ok => routers
  /\ loop' = [loop EXCEPT ![a][g] = Rescheduled(ok)]
  /\ attempt' = IF a = User \/ attempt[a] # "pending" THEN attempt
                ELSE [attempt EXCEPT ![a] = IF ok THEN "answered" ELSE "refused"]
  /\ UNCHANGED <<state, routers, servers, thread, response, raced>>
  /\ UNCHANGED <<running, next_ad, restarted>>

Continues(a) == running[a]

\* _schedule_ad
ScheduleAd(a, g) ==
  /\ loop[a][g] = "spawned"
  /\ IF Continues(a)
     THEN /\ loop' = [loop EXCEPT ![a][g] = "timer"]
          /\ next_ad' = [next_ad EXCEPT ![a] = g]
     ELSE loop' = [loop EXCEPT ![a][g] = "none"] /\ UNCHANGED next_ad
  /\ UNCHANGED <<channel, running, restarted>>

-----------------------------------------------------------------------------
(* The channel.                                                            *)

is_listening == servers > 0

\* Threads between the check that nobody listens and the socket, in listen and in advertise.
Listening == {t \in Threads : thread[t].at = "binding"}
Contacting == {t \in Threads : thread[t].at = "contacting"}
Late(threads) == \E t \in threads : thread[t].listens

OneMore == IF servers = 2 THEN 2 ELSE servers + 1

\* _listen_lock is free.
ListenLock == Listening = {}

\* listen takes its lock and finds no server...
Listen(t) ==
  /\ thread[t] = Idle /\ ListenLock /\ ~is_listening
  /\ thread' = [thread EXCEPT ![t] = At("binding", 0, TRUE)]
  /\ raced' = (raced \/ Late(Contacting))
  /\ UNCHANGED <<state, routers, servers, response, attempt, advertiser>>

\* ...and makes one, still holding the lock.  It raises if the address is not to be had, as
\* when another process has it, or a server is there by now and it sees that.
Bind(t) ==
  /\ thread[t].at = "binding"
  /\ servers' \in {servers, OneMore}
  /\ thread' = [thread EXCEPT ![t] = Idle]
  /\ UNCHANGED <<state, routers, response, attempt, raced, advertiser>>

\* _advertise_lock is free.
AdvertiseLock == Contacting = {}

\* There is a future that was not cleared, and advertise gives that.
Reuses == response # 0

\* advertise takes its lock; _advertise looks whether somebody listens...
Advertise(t) ==
  /\ thread[t] = Idle /\ AdvertiseLock /\ ~Reuses
  /\ \E i \in Attempts :
       /\ attempt[i] = "none" /\ \A j \in 1 .. i - 1 : attempt[j] # "none"
       /\ thread' = [thread EXCEPT ![t] = At("contacting", i, ~is_listening)]
       /\ attempt' = [attempt EXCEPT ![i] = "begun"]
  /\ raced' = (raced \/ (~is_listening /\ Listening # {}))
  /\ UNCHANGED <<state, routers, servers, response, advertiser>>

\* ...and listens if nobody does, without the lock of listen, adds the routers and starts
\* an Advertiser.
Contact(t) ==
  /\ thread[t].at = "contacting"
  /\ servers' = IF thread[t].listens THEN OneMore ELSE servers
  /\ routers' = TRUE
  /\ attempt' = [attempt EXCEPT ![thread[t].attempt] = "pending"]
  /\ response' = thread[t].attempt
  /\ thread' = [thread EXCEPT ![t] = At("hooking", @.attempt, FALSE)]
  /\ Start(thread[t].attempt, 1)
  /\ UNCHANGED <<state, raced, restarted>>

\* The same without routers, which fails there and then, as it does if the address cannot
\* be had or a server is there by now.
ContactFails(t) ==
  /\ thread[t].at = "contacting"
  /\ servers' = servers \/ (thread[t].listens /\ servers' = OneMore)
  /\ attempt' = [attempt EXCEPT ![thread[t].attempt] = "failed"]
  /\ response' = thread[t].attempt
  /\ thread' = [thread EXCEPT ![t] = At("hooking", @.attempt, FALSE)]
  /\ UNCHANGED <<state, routers, raced, advertiser>>

\* _on_advertise: a future with an exception is cleared.
Clears(status) == status = "failed"

\* Mutant of OnHook: the callback comes too late for a future that is done.
OnHookPending(i) == response

\* add_done_callback runs _on_advertise at once if the future is done.
OnHook(i) == IF Clears(attempt[i]) /\ response = i THEN 0 ELSE response

\* The callback is added after the lock was released.
Hook(t) ==
  /\ thread[t].at = "hooking"
  /\ response' = OnHook(thread[t].attempt)
  /\ thread' = [thread EXCEPT ![t] = Idle]
  /\ UNCHANGED <<state, routers, servers, attempt, raced, advertiser>>

\* The future of the attempt has the callback.
Hooked(i) == \A t \in Threads : thread[t].attempt # i

\* _advertise goes on with the answer to the first ad, when all of it has come; its body
\* may not be JSON.
AttemptEnds(i, status) ==
  /\ attempt[i] = "answered" \/ (attempt[i] = "refused" /\ status = "failed")
  /\ attempt' = [attempt EXCEPT ![i] = status]
  /\ response' = IF Hooked(i) /\ Clears(status) /\ response = i THEN 0 ELSE response
  /\ UNCHANGED <<state, routers, servers, thread, raced, advertiser>>

\* close: the server is stopped and the peers are forgotten, but stay in the heap; the
\* Advertisers go on, and may reach them.
Close ==
  /\ state = "ready" /\ state' = "closed"
  /\ UNCHANGED <<routers, servers, thread, response, attempt, raced, advertiser>>

Next ==
  \/ \E g \in Starts : StartUser(g)
  \/ StopUser \/ Close
  \/ \E l \in Loops :
       Fire(l[1], l[2]) \/ ScheduleAd(l[1], l[2])
       \/ \E ok \in BOOLEAN : AdEnds(l[1], l[2], ok)
  \/ \E t \in Threads :
       Listen(t) \/ Bind(t) \/ Advertise(t) \/ Contact(t) \/ ContactFails(t) \/ Hook(t)
  \/ \E i \in Attempts, status \in {"ok", "failed"} : AttemptEnds(i, status)

\* Timers fire, requests end by their timeout at the latest, the event loop runs what is
\* ready, and threads go on.  A router that began to answer may never end its answer: the
\* timer of the request is gone by then.
Fairness ==
  /\ \A l \in Loops :
       WF_vars(\/ Fire(l[1], l[2]) \/ ScheduleAd(l[1], l[2])
               \/ \E ok \in BOOLEAN : AdEnds(l[1], l[2], ok))
  /\ \A t \in Threads :
       WF_vars(Bind(t) \/ Contact(t) \/ ContactFails(t) \/ Hook(t))
  /\ \A i \in Attempts : WF_vars(attempt[i] = "refused" /\ AttemptEnds(i, "failed"))

Spec == Init /\ [][Next]_vars /\ Fairness

-----------------------------------------------------------------------------
(* Properties.                                                             *)

\* An Advertiser has one loop, which stop ends before the next ad, unless it is started
\* again while an ad of the stopped loop is under way.
OneLoop ==
  \A a \in Advertisers : a # User \/ ~restarted =>
    /\ Cardinality(Live(a)) <= 1
    /\ ~running[a] => \A g \in Starts : loop[a][g] # "timer"

\* "If it succeeds, all consecutive calls are ignored": of the attempts of all threads, one
\* at most is under way or has succeeded.
OneAttempt == Cardinality({i \in Attempts : attempt[i] \notin {"none", "failed"}}) <= 1

\* All calls of listen and advertise make one server, unless a listen and an advertise
\* both find that nobody listens before either makes it: they hold different locks.
OneServer == ~raced => servers <= 1

\* While an Advertiser runs, it advertises again and again, whatever the ads come to.
AdsGoOn ==
  \A a \in Advertisers :
    running[a] ~> ~running[a] \/ \E g \in Starts : loop[a][g] = "ad"

\* A stopped Advertiser comes to rest, even one with two loops, unless it is started again.
StopStops == ~running[User] ~> running[User] \/ Live(User) = {}

\* Every attempt fails or is answered, and one that failed, before the answer or over what
\* it says, makes room for another: advertise "may be called multiple times if it fails".
\* An answer that never ends, which is no failure yet, keeps the room.
FailureMakesRoom ==
  response # 0 ~> response = 0 \/ attempt[response] \in {"answered", "ok"}

\* Nothing is done twice: one loop for an Advertiser, one attempt and one server for the
\* channel, outside the races that the code leaves open.
NothingTwice == TypeOK /\ OneLoop /\ OneAttempt /\ OneServer

\* Ads go on exactly as long as the Advertiser is not stopped.
AdsFollowStartAndStop == AdsGoOn /\ StopStops
=============================================================================
