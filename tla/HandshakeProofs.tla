--------------------------- MODULE HandshakeProofs --------------------------
(***************************************************************************)
(* What Handshake promises for any number of connections, callers and      *)
(* messages, whatever the remote side sends and whenever it closes.        *)
(***************************************************************************)
EXTENDS Handshake, SequenceTheorems, TLAPS

\* What deque.remove does to a deque without duplicates.
LEMMA RemoveFacts ==
  ASSUME NEW S, NEW s \in Seq(S), IsInjective(s), NEW e
  PROVE  /\ RemoveFirst(s, e) \in Seq(S)
         /\ IsInjective(RemoveFirst(s, e))
         /\ ToSet(RemoveFirst(s, e)) = ToSet(s) \ {e}
<1>1. CASE \E i \in 1 .. Len(s) : s[i] = e
  <2>1. PICK k \in 1 .. Len(s) : s[k] = e
    BY <1>1
  <2>2. {i \in 1 .. Len(s) : s[i] = e} = {k}
    BY <2>1 DEF IsInjective
  <2>3. SelectInSeq(s, LAMBDA v : v = e) = k
    <3>1. Min({k}) = k
      BY DEF Min
    <3> QED
      BY <2>2, <3>1 DEF SelectInSeq
  <2> DEFINE front == SubSeq(s, 1, k - 1)
             back == SubSeq(s, k + 1, Len(s))
             t == front \o back
  <2>4. RemoveFirst(s, e) = t
    BY <1>1, <2>3 DEF RemoveFirst, RemoveAt
  <2>5. /\ t \in Seq(S) /\ Len(t) = Len(s) - 1
        /\ \A i \in 1 .. Len(t) : t[i] = IF i < k THEN s[i] ELSE s[i + 1]
    <3>1. /\ front \in Seq(S) /\ Len(front) = k - 1
          /\ \A i \in 1 .. k - 1 : front[i] = s[i]
      OBVIOUS
    <3>2. /\ back \in Seq(S) /\ Len(back) = Len(s) - k
          /\ \A i \in 1 .. Len(s) - k : back[i] = s[k + i]
      OBVIOUS
    <3> HIDE DEF front, back
    <3>3. /\ t \in Seq(S) /\ Len(t) = Len(front) + Len(back)
          /\ \A i \in 1 .. Len(front) : t[i] = front[i]
          /\ \A i \in 1 .. Len(back) : t[Len(front) + i] = back[i]
      <4>1. /\ t \in Seq(S) /\ Len(t) = Len(front) + Len(back)
            /\ \A i \in 1 .. Len(front) + Len(back) :
                  t[i] = IF i <= Len(front) THEN front[i] ELSE back[i - Len(front)]
        BY <3>1, <3>2, ConcatProperties
      <4> HIDE DEF t
      <4>2. Len(front) \in Nat /\ Len(back) \in Nat
        BY <3>1, <3>2
      <4>3. ASSUME NEW i \in 1 .. Len(back) PROVE t[Len(front) + i] = back[i]
        <5>1. /\ Len(front) + i \in 1 .. Len(front) + Len(back)
              /\ ~(Len(front) + i <= Len(front)) /\ (Len(front) + i) - Len(front) = i
          BY <4>2
        <5> QED
          BY <4>1, <5>1
      <4> QED
        BY <4>1, <4>2, <4>3
    <3> HIDE DEF t
    <3>4. ASSUME NEW i \in 1 .. Len(t)
          PROVE  t[i] = IF i < k THEN s[i] ELSE s[i + 1]
      <4>1. CASE i < k
        BY <3>1, <3>3, <4>1
      <4>2. CASE i >= k
        <5>1. i - k + 1 \in 1 .. Len(back)
          BY <3>1, <3>2, <3>3, <4>2
        <5>2. t[i] = back[i - k + 1] /\ back[i - k + 1] = s[i + 1]
          BY <3>1, <3>2, <3>3, <5>1
        <5> QED
          BY <4>2, <5>2
      <4> QED
        BY <4>1, <4>2
    <3> QED
      BY <3>1, <3>2, <3>3, <3>4
  <2> HIDE DEF t
  <2>6. IsInjective(t)
    BY <2>5, SMTT(30) DEF IsInjective
  <2>7. ToSet(t) = ToSet(s) \ {e}
    <3>1. \A x \in ToSet(t) : x \in ToSet(s) /\ x # e
      BY <2>1, <2>5 DEF ToSet, IsInjective
    <3>2. ASSUME NEW i \in 1 .. Len(s), s[i] # e PROVE s[i] \in ToSet(t)
      <4>1. CASE i < k
        BY <2>5, <4>1 DEF ToSet
      <4>2. CASE i > k
        <5>1. i - 1 \in 1 .. Len(t) /\ t[i - 1] = s[i]
          BY <2>1, <2>5, <4>2
        <5> QED
          BY <5>1, <2>5 DEF ToSet
      <4> QED
        BY <4>1, <4>2, <3>2, <2>1
    <3>3. \A x \in ToSet(s) \ {e} : x \in ToSet(t)
      BY <3>2 DEF ToSet
    <3> QED
      BY <3>1, <3>3
  <2> QED
    BY <2>4, <2>5, <2>6, <2>7
<1>2. CASE ~\E i \in 1 .. Len(s) : s[i] = e
  BY <1>2 DEF RemoveFirst, ToSet
<1> QED
  BY <1>1, <1>2

\* What deque.append and appendleft do to a deque without duplicates.
LEMMA AddFacts ==
  ASSUME NEW S, NEW s \in Seq(S), IsInjective(s), NEW e \in S, e \notin ToSet(s)
  PROVE  /\ Append(s, e) \in Seq(S) /\ <<e>> \o s \in Seq(S)
         /\ IsInjective(Append(s, e)) /\ IsInjective(<<e>> \o s)
         /\ ToSet(Append(s, e)) = ToSet(s) \cup {e}
         /\ ToSet(<<e>> \o s) = ToSet(s) \cup {e}
<1>1. \A i \in 1 .. Len(s) : s[i] # e
  BY DEF ToSet
<1> DEFINE t == Append(s, e)
           u == <<e>> \o s
<1>2. /\ t \in Seq(S) /\ Len(t) = Len(s) + 1 /\ t[Len(s) + 1] = e
      /\ \A i \in 1 .. Len(s) : t[i] = s[i]
  OBVIOUS
<1>3. /\ u \in Seq(S) /\ Len(u) = Len(s) + 1 /\ u[1] = e
      /\ \A i \in 1 .. Len(s) : u[i + 1] = s[i]
  <2>1. <<e>> \in Seq(S) /\ Len(<<e>>) = 1 /\ <<e>>[1] = e
    OBVIOUS
  <2> QED
    BY <2>1, ConcatProperties
<1> HIDE DEF t, u
<1>4. IsInjective(t) /\ ToSet(t) = ToSet(s) \cup {e}
  BY <1>1, <1>2 DEF IsInjective, ToSet
<1>5. IsInjective(u)
  <2>1. \A i \in 2 .. Len(u) : i - 1 \in 1 .. Len(s) /\ u[i] = s[i - 1]
    BY <1>3
  <2>2. ASSUME NEW i \in DOMAIN u, NEW j \in DOMAIN u, u[i] = u[j], i < j PROVE FALSE
    <3>1. i \in 1 .. Len(u) /\ j \in 2 .. Len(u)
      BY <1>3, <2>2
    <3>2. CASE i = 1
      BY <1>1, <1>3, <2>1, <2>2, <3>1, <3>2
    <3>3. CASE i # 1
      BY <1>3, <2>1, <2>2, <3>1, <3>3, SMTT(30) DEF IsInjective
    <3> QED
      BY <3>2, <3>3
  <2>3. DOMAIN u = 1 .. Len(u)
    BY <1>3
  <2> QED
    BY <1>3, <2>2, <2>3 DEF IsInjective
<1>6. ToSet(u) = ToSet(s) \cup {e}
  <2>1. \A i \in 2 .. Len(u) : i - 1 \in 1 .. Len(s) /\ u[i] = s[i - 1]
    BY <1>3
  <2>2. DOMAIN u = 1 .. Len(u) /\ DOMAIN s = 1 .. Len(s)
    BY <1>3
  <2>3. \A x \in ToSet(u) : x \in ToSet(s) \cup {e}
    BY <1>3, <2>1, <2>2, SMTT(30) DEF ToSet
  <2>4. ASSUME NEW i \in 1 .. Len(s) PROVE s[i] \in ToSet(u)
    <3>1. i + 1 \in 1 .. Len(u) /\ u[i + 1] = s[i]
      BY <1>3
    <3> QED
      BY <2>2, <3>1 DEF ToSet
  <2>5. e \in ToSet(u)
    BY <1>3, <2>2 DEF ToSet
  <2> QED
    BY <2>2, <2>3, <2>4, <2>5 DEF ToSet
<1> QED
  BY <1>2, <1>3, <1>4, <1>5, <1>6 DEF t, u

-----------------------------------------------------------------------------
(* The inductive invariant.                                                *)

\* How far the remote side's messages were read.
LogInv ==
  \A c \in Conns :
    /\ read[c] <= Len(log[c]) /\ Len(log[c]) <= MaxItems
    /\ at[c] \notin {"shaken", "up"} => read[c] <= 1
    /\ at[c] \in {"shaken", "up"} => read[c] >= 1 /\ log[c] # <<>> /\ log[c][1] = "init"

\* What the future of the handshake holds comes from the first message.
AnswerInv ==
  \A c \in Conns :
    /\ answer[c].result # "none" =>
         read[c] >= 1 /\ log[c] # <<>> /\ answer[c].result = log[c][1]
    /\ answer[c].exc \in Blames =>
         log[c] # <<>> /\ log[c][1] # "init"
    /\ at[c] = "refused" => answer[c].exc # "none"

\* Where a connection may be in the deque, and where its calls may be.
PeerInv ==
  /\ notified \subseteq closed
  /\ \A c \in ToSet(connections) : at[c] = "up" /\ c \in close_cb
  /\ \A c \in serving : at[c] = "up"
  /\ \A c \in Conns :
       /\ at[c] = "new" <=> direction[c] = "none"
       /\ at[c] \notin {"shaken", "up"} => messages[c] = <<>>
       /\ served[c] # <<>> => at[c] = "up"

Inv ==
  /\ TypeOK /\ LogInv /\ AnswerInv /\ PeerInv
  /\ ClosedIsDropped /\ OneAtATime /\ UnexpectedIsRemote /\ CallsInOrder

LEMMA InvInit == Init => Inv
<1> SUFFICES ASSUME Init PROVE Inv
  OBVIOUS
<1>1. TypeOK
  <2>1. /\ answer \in [Conns -> [result : Items \cup {"none"}, exc : Raised \cup {"none"}]]
        /\ connections \in Seq(Conns) /\ IsInjective(connections)
    BY DEF Init, NoAnswer, Items, Raised, Blames, IsInjective
  <2>2. /\ log \in [Conns -> Seq(Items)] /\ read \in [Conns -> 0 .. MaxItems]
        /\ messages \in [Conns -> Seq(1 .. MaxItems)] /\ served \in [Conns -> Seq(1 .. MaxItems)]
    BY HandshakeAssumption DEF Init
  <2> QED
    BY <2>1, <2>2 DEF Init, TypeOK, Places
<1>2. LogInv /\ AnswerInv
  BY HandshakeAssumption DEF Init, LogInv, AnswerInv, NoAnswer, Blames
<1>3. PeerInv
  BY DEF Init, PeerInv, ToSet
<1>4. ClosedIsDropped /\ OneAtATime /\ UnexpectedIsRemote /\ CallsInOrder
  BY DEF Init, ClosedIsDropped, OneAtATime, UnexpectedIsRemote, CallsInOrder, Blames
<1> QED
  BY <1>1, <1>2, <1>3, <1>4 DEF Inv


Answers == [result : Items \cup {"none"}, exc : Raised \cup {"none"}]

\* The future of the handshake is given a result or an exception, or both.
LEMMA AnswerType ==
  ASSUME NEW f \in [Conns -> Answers], NEW c \in Conns
  PROVE  /\ \A e \in Raised \cup {"none"} : [f EXCEPT ![c].exc = e] \in [Conns -> Answers]
         /\ \A m \in Items \cup {"none"} : [f EXCEPT ![c].result = m] \in [Conns -> Answers]
         /\ [f EXCEPT ![c] = NoAnswer] \in [Conns -> Answers]
  BY DEF Answers, NoAnswer, Items, Raised, Blames

LEMMA TypeStep == Inv /\ [Next]_vars => TypeOK'
<1> SUFFICES ASSUME Inv, [Next]_vars PROVE TypeOK'
  OBVIOUS
<1> USE HandshakeAssumption
<1>0. TypeOK /\ answer \in [Conns -> Answers]
  BY DEF Inv, TypeOK, Answers
<1> USE DEF TypeOK
<1>1. ASSUME NEW k \in Callers, Connect(k) PROVE TypeOK'
  BY <1>0, <1>1 DEF Connect, Places
<1>2. ASSUME NEW c \in Conns, Connected(c) PROVE TypeOK'
  BY <1>0, <1>2 DEF Connected, Timers, Places
<1>3. ASSUME NEW c \in Conns, ConnectFails(c) PROVE TypeOK'
  <2>1. "StreamClosedError" \in Raised
    BY DEF Raised, Blames
  <2>2. answer' \in [Conns -> Answers]
    BY <1>0, <1>3, <2>1, AnswerType DEF ConnectFails
  <2> QED
    BY <1>0, <1>3, <2>2 DEF ConnectFails, Answers, Places
<1>4. ASSUME NEW c \in Conns, Accept(c) PROVE TypeOK'
  BY <1>0, <1>4 DEF Accept, Places
<1>5. ASSUME NEW c \in Conns, NEW item \in Items, RemoteSends(c, item) PROVE TypeOK'
  <2>1. log' = [log EXCEPT ![c] = Append(@, item)]
    BY <1>5 DEF RemoteSends
  <2>2. log' \in [Conns -> Seq(Items)]
    BY <1>0, <2>1
  <2> QED
    BY <1>0, <1>5, <2>2 DEF RemoteSends
<1>6. ASSUME NEW c \in Conns, RemoteCloses(c) PROVE TypeOK'
  BY <1>0, <1>6 DEF RemoteCloses
<1>7. ASSUME NEW c \in Conns, GetAnswered(c) PROVE TypeOK'
  <2>1. CASE log[c] = <<>>
    <3>1. "StreamClosedError" \in Raised
      BY DEF Raised, Blames
    <3>2. answer' = [answer EXCEPT ![c].exc = "StreamClosedError"] /\ UNCHANGED read
      BY <1>7, <2>1 DEF GetAnswered
    <3>3. answer' \in [Conns -> Answers]
      BY <1>0, <3>1, <3>2, AnswerType
    <3> QED
      BY <1>0, <1>7, <3>2, <3>3 DEF GetAnswered, Answers
  <2>2. CASE log[c] # <<>>
    <3>1. "ReadError" \in Raised /\ log[c][1] \in Items
      BY <1>0, <2>2 DEF Raised, Blames
    <3>2. answer' \in [Conns -> Answers]
      <4>1. CASE log[c][1] = "bad"
        <5>1. answer' = [answer EXCEPT ![c].exc = "ReadError"]
          BY <1>7, <2>2, <4>1 DEF GetAnswered
        <5> QED
          BY <1>0, <3>1, <5>1, AnswerType
      <4>2. CASE log[c][1] # "bad"
        <5>1. answer' = [answer EXCEPT ![c].result = log[c][1]]
          BY <1>7, <2>2, <4>2 DEF GetAnswered
        <5> QED
          BY <1>0, <3>1, <5>1, AnswerType
      <4> QED
        BY <4>1, <4>2
    <3>3. 1 \in 0 .. MaxItems
      BY <1>0, <2>2 DEF Inv, LogInv
    <3>4. read' \in [Conns -> 0 .. MaxItems]
      BY <1>0, <1>7, <2>2, <3>3 DEF GetAnswered
    <3> QED
      BY <1>0, <1>7, <3>2, <3>4 DEF GetAnswered, Answers
  <2> QED
    BY <2>1, <2>2
<1>8. ASSUME NEW c \in Conns, TimerFires(c) PROVE TypeOK'
  <2>1. "TimeoutError" \in Raised
    BY DEF Raised, Blames
  <2>2. answer' \in [Conns -> Answers]
    BY <1>0, <1>8, <2>1, AnswerType DEF TimerFires
  <2> QED
    BY <1>0, <1>8, <2>2 DEF TimerFires, Answers
<1>9. ASSUME NEW c \in Conns, Resume(c) PROVE TypeOK'
  <2>1. answer' \in [Conns -> Answers]
    <3>1. "UnexpectedError" \in Raised /\ answer[c].exc \in Raised \cup {"none"}
      BY <1>0 DEF Raised, Blames, Answers
    <3> DEFINE e == Failure(c)
    <3>2. e \in Raised \cup {"none"}
      BY <3>1 DEF Failure, Raised, Blames
    <3>3. answer' = answer \/ answer' = [answer EXCEPT ![c].exc = e]
      BY <1>0, <1>9 DEF Resume, Answers
    <3> HIDE DEF e
    <3>4. [answer EXCEPT ![c].exc = e] \in [Conns -> Answers]
      BY <1>0, <3>2, AnswerType
    <3> QED
      BY <1>0, <3>3, <3>4
  <2> QED
    BY <1>0, <1>9, <2>1, ZenonT(30) DEF Resume, Answers, Places
<1>10. ASSUME NEW c \in Conns, Refused(c) PROVE TypeOK'
  <2>1. answer' \in [Conns -> Answers]
    BY <1>0, <1>10, AnswerType DEF Refused
  <2>2. Report(answer[c].exc) \in Reported
    BY <1>0, <1>10 DEF Inv, AnswerInv, Refused, Report, Reported, Raised, Blames, Answers
  <2>3. given' \in [Callers -> {"idle", "waiting", "connection"} \cup Reported]
    BY <1>0, <1>10, <2>2 DEF Refused, Give
  <2> QED
    BY <1>0, <1>10, <2>1, <2>3 DEF Refused, Answers, Places
<1>11. ASSUME NEW c \in Conns, Up(c) PROVE TypeOK'
  <2>1. answer' \in [Conns -> Answers]
    BY <1>0, <1>11, AnswerType DEF Up
  <2>2. given' \in [Callers -> {"idle", "waiting", "connection"} \cup Reported]
    BY <1>0, <1>11 DEF Up, Give
  <2>3. c \notin ToSet(connections)
    BY <1>11 DEF Inv, PeerInv, Up
  <2>4. connections' \in Seq(Conns) /\ IsInjective(connections')
    BY <1>0, <1>11, <2>3, AddFacts DEF Up, Registered
  <2>5. connecting' \in Conns \cup {None}
    BY <1>0, <1>11 DEF Up, Concluded
  <2> QED
    BY <1>0, <1>11, <2>1, <2>2, <2>4, <2>5 DEF Up, Answers, Places
<1>12. ASSUME NEW c \in Conns, Loop(c) PROVE TypeOK'
  <2>1. read[c] + 1 \in 1 .. MaxItems
    BY <1>0, <1>12 DEF Loop, Inv, LogInv
  <2>2. messages' \in [Conns -> Seq(1 .. MaxItems)]
    BY <1>0, <1>12, <2>1 DEF Loop, Put
  <2>3. read' \in [Conns -> 0 .. MaxItems]
    BY <1>0, <1>12, <2>1 DEF Loop
  <2> QED
    BY <1>0, <1>12, <2>2, <2>3 DEF Loop
<1>13. ASSUME NEW c \in Conns, LoopEnds(c) PROVE TypeOK'
  BY <1>0, <1>13 DEF LoopEnds
<1>14. ASSUME NEW c \in Conns, Serve(c) PROVE TypeOK'
  <2>1. Head(messages[c]) \in 1 .. MaxItems /\ Tail(messages[c]) \in Seq(1 .. MaxItems)
    BY <1>0, <1>14 DEF Serve
  <2>2. messages' \in [Conns -> Seq(1 .. MaxItems)] /\ served' \in [Conns -> Seq(1 .. MaxItems)]
    BY <1>0, <1>14, <2>1 DEF Serve
  <2> QED
    BY <1>0, <1>14, <2>2 DEF Serve
<1>15. ASSUME NEW c \in Conns, OnClose(c) PROVE TypeOK'
  <2>1. connections' \in Seq(Conns) /\ IsInjective(connections')
    BY <1>0, <1>15, RemoveFacts DEF OnClose
  <2>2. messages' \in [Conns -> Seq(1 .. MaxItems)] /\ jammed' \subseteq Conns
    <3>1. messages' = messages \/ messages' = [messages EXCEPT ![c] = <<>>]
      BY <1>15 DEF OnClose
    <3>2. jammed' = jammed \/ jammed' = jammed \cup {c}
      BY <1>15 DEF OnClose
    <3>3. messages' \in [Conns -> Seq(1 .. MaxItems)]
      <4>1. messages \in [Conns -> Seq(1 .. MaxItems)] /\ <<>> \in Seq(1 .. MaxItems)
        BY <1>0
      <4> HIDE DEF TypeOK
      <4>2. [messages EXCEPT ![c] = <<>>] \in [Conns -> Seq(1 .. MaxItems)]
        BY <4>1
      <4> QED
        BY <3>1, <4>1, <4>2
    <3> QED
      BY <1>0, <3>2, <3>3
  <2>3. /\ notified' \subseteq Conns /\ closed' \subseteq Conns
        /\ UNCHANGED <<direction, at, answer, timer, log, read, down, close_cb, served,
                       connecting, given, serving, removed>>
    BY <1>0, <1>15 DEF OnClose
  <2> QED
    BY <1>0, <2>1, <2>2, <2>3
<1>16. CASE ClosePeer
  <2>1. ToSet(connections) \subseteq Conns
    BY <1>0 DEF ToSet
  <2> QED
    BY <1>0, <1>16, <2>1 DEF ClosePeer
<1>17. CASE UNCHANGED vars
  BY <1>0, <1>17 DEF vars
<1>18. CASE RemovePeer
  BY <1>0, <1>18 DEF RemovePeer
<1> QED
  BY <1>1, <1>2, <1>3, <1>4, <1>5, <1>6, <1>7, <1>8, <1>9, <1>10, <1>11, <1>12, <1>13,
     <1>14, <1>15, <1>16, <1>17, <1>18 DEF Next, Proceeds

-----------------------------------------------------------------------------
(* What was sent and read.                                                 *)

\* Nothing takes back what the remote side sent.
LEMMA LogGrows ==
  ASSUME TypeOK, [Next]_vars, NEW c \in Conns
  PROVE  /\ Len(log[c]) \in Nat /\ Len(log'[c]) \in Nat /\ Len(log[c]) <= Len(log'[c])
         /\ log[c] # <<>> => log'[c] # <<>> /\ log'[c][1] = log[c][1]
         /\ \A i \in 1 .. Len(log[c]) : log'[c][i] = log[c][i]
<1>1. log[c] \in Seq(Items)
  BY DEF TypeOK
<1>2. CASE \E d \in Conns, item \in Items : RemoteSends(d, item)
  <2>1. PICK item \in Items : log'[c] = log[c] \/ log'[c] = Append(log[c], item)
    BY <1>2 DEF RemoteSends, TypeOK
  <2> QED
    BY <1>1, <2>1
<1>3. CASE UNCHANGED log
  BY <1>1, <1>3
<1> QED
  BY <1>2, <1>3 DEF Next, vars, Connect, Connected, ConnectFails, Accept, RemoteCloses,
     GetAnswered, TimerFires, Resume, Refused, Up, Loop, LoopEnds, Serve, OnClose, ClosePeer,
     RemovePeer, Proceeds

LEMMA LogStep == Inv /\ [Next]_vars => LogInv'
<1> SUFFICES ASSUME Inv, [Next]_vars, NEW d \in Conns
             PROVE  /\ read'[d] <= Len(log'[d]) /\ Len(log'[d]) <= MaxItems
                    /\ at'[d] \notin {"shaken", "up"} => read'[d] <= 1
                    /\ at'[d] \in {"shaken", "up"} =>
                         read'[d] >= 1 /\ log'[d] # <<>> /\ log'[d][1] = "init"
  BY DEF LogInv
<1> DEFINE Goal == /\ read'[d] <= Len(log'[d]) /\ Len(log'[d]) <= MaxItems
                   /\ at'[d] \notin {"shaken", "up"} => read'[d] <= 1
                   /\ at'[d] \in {"shaken", "up"} =>
                        read'[d] >= 1 /\ log'[d] # <<>> /\ log'[d][1] = "init"
<1>0. /\ TypeOK /\ read[d] \in Nat /\ MaxItems \in Nat
      /\ read[d] <= Len(log[d]) /\ Len(log[d]) <= MaxItems
      /\ at[d] \notin {"shaken", "up"} => read[d] <= 1
      /\ at[d] \in {"shaken", "up"} => read[d] >= 1 /\ log[d] # <<>> /\ log[d][1] = "init"
  BY HandshakeAssumption DEF Inv, TypeOK, LogInv
<1>a. /\ Len(log[d]) \in Nat /\ Len(log'[d]) \in Nat /\ Len(log[d]) <= Len(log'[d])
      /\ log[d] # <<>> => log'[d] # <<>> /\ log'[d][1] = log[d][1]
  BY <1>0, LogGrows
<1>1. ASSUME NEW k \in Callers, Connect(k) PROVE Goal
  <2>1. at'[d] = at[d] \/ (at'[d] = "connecting" /\ direction[d] = "none")
    <3>1. DOMAIN at = Conns
      BY <1>0 DEF TypeOK
    <3>2. ASSUME NEW c \in Conns, Fresh(c), at' = [at EXCEPT ![c] = "connecting"]
          PROVE  at'[d] = at[d] \/ (at'[d] = "connecting" /\ direction[d] = "none")
      <4>1. at'[d] = IF d = c THEN "connecting" ELSE at[d]
        BY <3>1, <3>2
      <4> QED
        BY <3>2, <4>1 DEF Fresh
    <3> QED
      BY <1>1, <3>2 DEF Connect
  <2>2. direction[d] = "none" => at[d] = "new"
    BY DEF Inv, PeerInv
  <2> QED
    BY <1>0, <1>1, <2>1, <2>2 DEF Connect
<1>2. ASSUME NEW c \in Conns, Connected(c) PROVE Goal
  BY <1>0, <1>2 DEF Connected, TypeOK
<1>3. ASSUME NEW c \in Conns, ConnectFails(c) PROVE Goal
  BY <1>0, <1>3 DEF ConnectFails, TypeOK
<1>4. ASSUME NEW c \in Conns, Accept(c) PROVE Goal
  <2>1. at'[d] = at[d] \/ (at'[d] = "shaking" /\ at[d] = "new")
    <3>1. DOMAIN at = Conns /\ (direction[d] = "none" => at[d] = "new")
      BY <1>0 DEF TypeOK, Inv, PeerInv
    <3>2. at'[d] = IF d = c THEN "shaking" ELSE at[d]
      BY <1>4, <3>1 DEF Accept
    <3> QED
      BY <1>4, <3>1, <3>2 DEF Accept, Fresh
  <2> QED
    BY <1>0, <1>4, <2>1 DEF Accept
<1>5. ASSUME NEW c \in Conns, NEW item \in Items, RemoteSends(c, item) PROVE Goal
  <2>1. Len(log'[d]) <= MaxItems
    <3>1. log[d] \in Seq(Items)
      BY <1>0 DEF TypeOK
    <3>2. log'[d] = log[d] \/ (log'[d] = Append(log[d], item) /\ Len(log[d]) < MaxItems)
      <4>1. DOMAIN log = Conns
        BY <1>0 DEF TypeOK
      <4>2. log'[d] = IF d = c THEN Append(log[d], item) ELSE log[d]
        BY <1>5, <4>1 DEF RemoteSends
      <4> QED
        BY <1>5, <4>2 DEF RemoteSends
    <3> QED
      BY <1>0, <3>1, <3>2
  <2> QED
    BY <1>0, <1>a, <1>5, <2>1 DEF RemoteSends
<1>6. ASSUME NEW c \in Conns, RemoteCloses(c) PROVE Goal
  BY <1>0, <1>6 DEF RemoteCloses
<1>7. ASSUME NEW c \in Conns, GetAnswered(c) PROVE Goal
  <2>1. log[d] \in Seq(Items)
    BY <1>0 DEF TypeOK
  <2>2. read'[d] = read[d] \/ (read'[d] = 1 /\ log[d] # <<>> /\ at[d] = "shaking")
    <3>1. DOMAIN read = Conns
      BY <1>0 DEF TypeOK
    <3>2. read'[d] = IF d = c /\ log[c] # <<>> THEN 1 ELSE read[d]
      BY <1>7, <3>1 DEF GetAnswered
    <3> QED
      BY <1>7, <3>2 DEF GetAnswered
  <2> QED
    BY <1>0, <1>7, <2>1, <2>2 DEF GetAnswered
<1>8. ASSUME NEW c \in Conns, TimerFires(c) PROVE Goal
  BY <1>0, <1>8 DEF TimerFires
<1>9. ASSUME NEW c \in Conns, Resume(c) PROVE Goal
  <2>1. /\ UNCHANGED <<read, log>>
        /\ \/ at'[d] = at[d]
           \/ at[d] = "shaking" /\ at'[d] = "refused"
           \/ at[d] = "shaking" /\ at'[d] = "shaken" /\ answer[d].result = "init"
    BY <1>0, <1>9 DEF Resume, TypeOK, Shaken
  <2>2. answer[d].result = "init" => read[d] >= 1 /\ log[d] # <<>> /\ log[d][1] = "init"
    BY DEF Inv, AnswerInv
  <2> QED
    BY <1>0, <2>1, <2>2
<1>10. ASSUME NEW c \in Conns, Refused(c) PROVE Goal
  BY <1>0, <1>10 DEF Refused, TypeOK
<1>11. ASSUME NEW c \in Conns, Up(c) PROVE Goal
  BY <1>0, <1>11 DEF Up, TypeOK
<1>12. ASSUME NEW c \in Conns, Loop(c) PROVE Goal
  <2>1. /\ UNCHANGED <<at, log>>
        /\ \/ read'[d] = read[d]
           \/ read'[d] = read[d] + 1 /\ read[d] < Len(log[d]) /\ at[d] \in {"shaken", "up"}
    BY <1>0, <1>12 DEF Loop, TypeOK, Looping
  <2> QED
    BY <1>0, <1>a, <2>1
<1>13. ASSUME NEW c \in Conns, LoopEnds(c) PROVE Goal
  BY <1>0, <1>13 DEF LoopEnds
<1>14. ASSUME NEW c \in Conns, Serve(c) PROVE Goal
  BY <1>0, <1>14 DEF Serve
<1>15. ASSUME NEW c \in Conns, OnClose(c) PROVE Goal
  BY <1>0, <1>15 DEF OnClose
<1>16. CASE ClosePeer
  BY <1>0, <1>16 DEF ClosePeer
<1>17. CASE UNCHANGED vars
  BY <1>0, <1>17 DEF vars
<1>18. CASE RemovePeer
  BY <1>0, <1>18 DEF RemovePeer
<1> QED
  BY <1>1, <1>2, <1>3, <1>4, <1>5, <1>6, <1>7, <1>8, <1>9, <1>10, <1>11, <1>12, <1>13,
     <1>14, <1>15, <1>16, <1>17, <1>18 DEF Next, Proceeds

\* An update of one field of one record leaves the other fields and records alone.
LEMMA AnswerField ==
  ASSUME NEW f \in [Conns -> Answers], NEW c \in Conns, NEW d \in Conns
  PROVE  /\ \A e \in Raised \cup {"none"} :
              LET g == [f EXCEPT ![c].exc = e] IN
              /\ g[d].result = f[d].result
              /\ g[d].exc = IF d = c THEN e ELSE f[d].exc
         /\ \A m \in Items \cup {"none"} :
              LET g == [f EXCEPT ![c].result = m] IN
              /\ g[d].exc = f[d].exc
              /\ g[d].result = IF d = c THEN m ELSE f[d].result
         /\ LET g == [f EXCEPT ![c] = NoAnswer] IN
              /\ g[d].exc = IF d = c THEN "none" ELSE f[d].exc
              /\ g[d].result = IF d = c THEN "none" ELSE f[d].result
  BY DEF Answers, NoAnswer

LEMMA AnswerStep == Inv /\ [Next]_vars => AnswerInv'
<1> SUFFICES ASSUME Inv, [Next]_vars, NEW d \in Conns
             PROVE  /\ answer'[d].result # "none" =>
                         read'[d] >= 1 /\ log'[d] # <<>> /\ answer'[d].result = log'[d][1]
                    /\ answer'[d].exc \in Blames =>
                         log'[d] # <<>> /\ log'[d][1] # "init"
                    /\ at'[d] = "refused" => answer'[d].exc # "none"
  BY DEF AnswerInv
<1> DEFINE Goal == /\ answer'[d].result # "none" =>
                        read'[d] >= 1 /\ log'[d] # <<>> /\ answer'[d].result = log'[d][1]
                   /\ answer'[d].exc \in Blames =>
                        log'[d] # <<>> /\ log'[d][1] # "init"
                   /\ at'[d] = "refused" => answer'[d].exc # "none"
<1>0. /\ TypeOK /\ answer \in [Conns -> Answers] /\ read[d] \in Nat
      /\ answer[d].result # "none" =>
           read[d] >= 1 /\ log[d] # <<>> /\ answer[d].result = log[d][1]
      /\ answer[d].exc \in Blames =>
           log[d] # <<>> /\ log[d][1] # "init"
      /\ at[d] = "refused" => answer[d].exc # "none"
  BY DEF Inv, TypeOK, AnswerInv, Answers
<1>a. log[d] # <<>> => log'[d] # <<>> /\ log'[d][1] = log[d][1]
  BY <1>0, LogGrows
<1>1. ASSUME NEW k \in Callers, Connect(k) PROVE Goal
  BY <1>0, <1>1 DEF Connect, TypeOK
<1>2. ASSUME NEW c \in Conns, Connected(c) PROVE Goal
  BY <1>0, <1>2 DEF Connected, TypeOK
<1>3. ASSUME NEW c \in Conns, ConnectFails(c) PROVE Goal
  <2>1. "StreamClosedError" \in Raised
    BY DEF Raised, Blames
  <2>2. /\ answer'[d].result = answer[d].result
        /\ answer'[d].exc = IF d = c THEN "StreamClosedError" ELSE answer[d].exc
    BY <1>0, <1>3, <2>1, AnswerField DEF ConnectFails
  <2> QED
    BY <1>0, <1>3, <2>2 DEF ConnectFails, TypeOK, Blames
<1>4. ASSUME NEW c \in Conns, Accept(c) PROVE Goal
  BY <1>0, <1>4 DEF Accept, TypeOK
<1>5. ASSUME NEW c \in Conns, NEW item \in Items, RemoteSends(c, item) PROVE Goal
  BY <1>0, <1>a, <1>5 DEF RemoteSends
<1>6. ASSUME NEW c \in Conns, RemoteCloses(c) PROVE Goal
  BY <1>0, <1>6 DEF RemoteCloses
<1>7. ASSUME NEW c \in Conns, GetAnswered(c) PROVE Goal
  <2>0. UNCHANGED <<at, log>>
    BY <1>7 DEF GetAnswered
  <2>1. CASE log[c] = <<>>
    <3>1. "StreamClosedError" \in Raised
      BY DEF Raised, Blames
    <3>2. answer' = [answer EXCEPT ![c].exc = "StreamClosedError"] /\ UNCHANGED read
      BY <1>7, <2>1 DEF GetAnswered
    <3>3. /\ answer'[d].result = answer[d].result
          /\ answer'[d].exc = IF d = c THEN "StreamClosedError" ELSE answer[d].exc
      BY <1>0, <3>1, <3>2, AnswerField
    <3> QED
      BY <1>0, <2>0, <3>2, <3>3 DEF Blames
  <2>2. CASE log[c] # <<>>
    <3>1. "ReadError" \in Raised /\ log[c][1] \in Items
      BY <1>0, <2>2 DEF Raised, Blames, TypeOK
    <3>2. read'[d] = IF d = c THEN 1 ELSE read[d]
      BY <1>0, <1>7, <2>2 DEF GetAnswered, TypeOK
    <3>3. CASE log[c][1] = "bad"
      <4>1. answer' = [answer EXCEPT ![c].exc = "ReadError"]
        BY <1>7, <2>2, <3>3 DEF GetAnswered
      <4>2. /\ answer'[d].result = answer[d].result
            /\ answer'[d].exc = IF d = c THEN "ReadError" ELSE answer[d].exc
        BY <1>0, <3>1, <4>1, AnswerField
      <4> QED
        BY <1>0, <2>0, <2>2, <3>2, <3>3, <4>2
    <3>4. CASE log[c][1] # "bad"
      <4>1. answer' = [answer EXCEPT ![c].result = log[c][1]]
        BY <1>7, <2>2, <3>4 DEF GetAnswered
      <4>2. /\ answer'[d].exc = answer[d].exc
            /\ answer'[d].result = IF d = c THEN log[c][1] ELSE answer[d].result
        BY <1>0, <3>1, <4>1, AnswerField
      <4> QED
        BY <1>0, <2>0, <2>2, <3>2, <4>2
    <3> QED
      BY <3>3, <3>4
  <2> QED
    BY <2>1, <2>2
<1>8. ASSUME NEW c \in Conns, TimerFires(c) PROVE Goal
  <2>1. "TimeoutError" \in Raised
    BY DEF Raised, Blames
  <2>2. /\ answer'[d].result = answer[d].result
        /\ answer'[d].exc = IF d = c THEN "TimeoutError" ELSE answer[d].exc
    BY <1>0, <1>8, <2>1, AnswerField DEF TimerFires
  <2> QED
    BY <1>0, <1>8, <2>2 DEF TimerFires, TypeOK, Blames
<1>9. ASSUME NEW c \in Conns, Resume(c) PROVE Goal
  <2>0. UNCHANGED <<read, log>>
    BY <1>9 DEF Resume
  <2>1. CASE Shaken(c)
    BY <1>0, <1>9, <2>1 DEF Resume, TypeOK
  <2>2. CASE ~Shaken(c)
    <3>1. "UnexpectedError" \in Raised /\ answer[c].exc \in Raised \cup {"none"}
      BY <1>0 DEF Raised, Blames, Answers
    <3> DEFINE e == Failure(c)
    <3>2. e \in Raised \cup {"none"}
      BY <3>1 DEF Failure, Raised, Blames
    <3>3. answer' = [answer EXCEPT ![c].exc = e]
      BY <1>0, <1>9, <2>2 DEF Resume, Answers
    <3>4. at'[d] = IF d = c THEN "refused" ELSE at[d]
      BY <1>0, <1>9, <2>2 DEF Resume, TypeOK
    <3>5. e # "none"
      <4>1. answer[c].result # "none" \/ answer[c].exc # "none"
        BY <1>0, <1>9 DEF Resume, Done, NoAnswer, Answers
      <4> QED
        BY <4>1 DEF Failure
    <3>6. e \in Blames => log[c] # <<>> /\ log[c][1] # "init"
      <4>1. /\ answer[c].result # "none" => log[c] # <<>> /\ answer[c].result = log[c][1]
            /\ answer[c].exc \in Blames =>
                 log[c] # <<>> /\ log[c][1] # "init"
        BY DEF Inv, AnswerInv
      <4> QED
        BY <2>2, <4>1 DEF Shaken, Failure, Blames
    <3> HIDE DEF e
    <3>7. /\ answer'[d].result = answer[d].result
          /\ answer'[d].exc = IF d = c THEN e ELSE answer[d].exc
      BY <1>0, <3>2, <3>3, AnswerField
    <3> QED
      BY <1>0, <2>0, <3>4, <3>5, <3>6, <3>7
  <2> QED
    BY <2>1, <2>2
<1>10. ASSUME NEW c \in Conns, Refused(c) PROVE Goal
  <2>1. /\ answer'[d].exc = IF d = c THEN "none" ELSE answer[d].exc
        /\ answer'[d].result = IF d = c THEN "none" ELSE answer[d].result
    BY <1>0, <1>10, AnswerField DEF Refused
  <2> QED
    BY <1>0, <1>10, <2>1 DEF Refused, TypeOK, Blames
<1>11. ASSUME NEW c \in Conns, Up(c) PROVE Goal
  <2>1. /\ answer'[d].exc = IF d = c THEN "none" ELSE answer[d].exc
        /\ answer'[d].result = IF d = c THEN "none" ELSE answer[d].result
    BY <1>0, <1>11, AnswerField DEF Up
  <2> QED
    BY <1>0, <1>11, <2>1 DEF Up, TypeOK, Blames
<1>12. ASSUME NEW c \in Conns, Loop(c) PROVE Goal
  <2>1. read'[d] \in {read[d], read[d] + 1}
    BY <1>0, <1>12 DEF Loop, TypeOK
  <2> QED
    BY <1>0, <1>12, <2>1 DEF Loop
<1>13. ASSUME NEW c \in Conns, LoopEnds(c) PROVE Goal
  BY <1>0, <1>13 DEF LoopEnds
<1>14. ASSUME NEW c \in Conns, Serve(c) PROVE Goal
  BY <1>0, <1>14 DEF Serve
<1>15. ASSUME NEW c \in Conns, OnClose(c) PROVE Goal
  BY <1>0, <1>15 DEF OnClose
<1>16. CASE ClosePeer
  BY <1>0, <1>16 DEF ClosePeer
<1>17. CASE UNCHANGED vars
  BY <1>0, <1>17 DEF vars
<1>18. CASE RemovePeer
  BY <1>0, <1>18 DEF RemovePeer
<1> QED
  BY <1>1, <1>2, <1>3, <1>4, <1>5, <1>6, <1>7, <1>8, <1>9, <1>10, <1>11, <1>12, <1>13,
     <1>14, <1>15, <1>16, <1>17, <1>18 DEF Next, Proceeds

-----------------------------------------------------------------------------
(* The peer's deque, its one attempt and what the callers are told.        *)

\* The part of PeerInv about the deque and the flags, with what it is for.
DequeInv ==
  /\ notified \subseteq closed
  /\ \A c \in ToSet(connections) : at[c] = "up" /\ c \in close_cb
  /\ \A c \in serving : at[c] = "up"
  /\ ClosedIsDropped

LEMMA DequeStep == Inv /\ [Next]_vars => DequeInv'
<1> SUFFICES ASSUME Inv, [Next]_vars PROVE DequeInv'
  OBVIOUS
<1> DEFINE Deque == ToSet(connections)
<1>0. /\ DOMAIN at = Conns /\ Deque \subseteq Conns
      /\ connections \in Seq(Conns) /\ IsInjective(connections)
      /\ notified \subseteq closed
      /\ \A c \in Deque : at[c] = "up" /\ c \in close_cb
      /\ serving \subseteq Conns /\ \A c \in serving : at[c] = "up"
      /\ \A c \in notified \ jammed : c \notin Deque
      /\ \A c \in Conns : at[c] = "new" <=> direction[c] = "none"
  BY DEF Inv, TypeOK, PeerInv, ClosedIsDropped, ToSet
<1> USE DEF DequeInv, ClosedIsDropped
<1>1. ASSUME NEW k \in Callers, Connect(k) PROVE DequeInv'
  <2>1. \A d \in Conns : at[d] = "up" => at'[d] = "up"
    BY <1>0, <1>1 DEF Connect, Fresh
  <2> QED
    BY <1>0, <1>1, <2>1 DEF Connect
<1>2. ASSUME NEW c \in Conns, Connected(c) PROVE DequeInv'
  BY <1>0, <1>2 DEF Connected
<1>3. ASSUME NEW c \in Conns, ConnectFails(c) PROVE DequeInv'
  BY <1>0, <1>3 DEF ConnectFails
<1>4. ASSUME NEW c \in Conns, Accept(c) PROVE DequeInv'
  <2>1. \A d \in Conns : at[d] = "up" => at'[d] = "up"
    BY <1>0, <1>4 DEF Accept, Fresh
  <2> QED
    BY <1>0, <1>4, <2>1 DEF Accept
<1>5. ASSUME NEW c \in Conns, NEW item \in Items, RemoteSends(c, item) PROVE DequeInv'
  BY <1>0, <1>5 DEF RemoteSends
<1>6. ASSUME NEW c \in Conns, RemoteCloses(c) PROVE DequeInv'
  BY <1>0, <1>6 DEF RemoteCloses
<1>7. ASSUME NEW c \in Conns, GetAnswered(c) PROVE DequeInv'
  BY <1>0, <1>7 DEF GetAnswered
<1>8. ASSUME NEW c \in Conns, TimerFires(c) PROVE DequeInv'
  BY <1>0, <1>8 DEF TimerFires
<1>9. ASSUME NEW c \in Conns, Resume(c) PROVE DequeInv'
  <2>1. \A d \in Conns : at[d] = "up" => at'[d] = "up"
    BY <1>0, <1>9 DEF Resume
  <2> QED
    BY <1>0, <1>9, <2>1 DEF Resume
<1>10. ASSUME NEW c \in Conns, Refused(c) PROVE DequeInv'
  BY <1>0, <1>10 DEF Refused
<1>11. ASSUME NEW c \in Conns, Up(c) PROVE DequeInv'
  <2>1. c \notin Deque
    BY <1>0, <1>11 DEF Up
  <2>2. Deque' = Deque \/ (c \notin closed /\ Deque' = Deque \cup {c})
    <3>1. \/ connections' = connections
          \/ /\ c \notin closed
             /\ connections' \in {Append(connections, c), <<c>> \o connections}
      BY <1>11 DEF Up, Registered
    <3>2. /\ ToSet(Append(connections, c)) = Deque \cup {c}
          /\ ToSet(<<c>> \o connections) = Deque \cup {c}
      BY <1>0, <2>1, AddFacts
    <3> QED
      BY <3>1, <3>2
  <2>3. /\ \A d \in Conns : at'[d] = IF d = c THEN "up" ELSE at[d]
        /\ close_cb' = close_cb \cup {c} /\ serving' \subseteq serving \cup {c}
        /\ UNCHANGED <<notified, closed, jammed>>
    BY <1>0, <1>11 DEF Up
  <2> QED
    BY <1>0, <2>2, <2>3
<1>12. ASSUME NEW c \in Conns, Loop(c) PROVE DequeInv'
  BY <1>0, <1>12 DEF Loop
<1>13. ASSUME NEW c \in Conns, LoopEnds(c) PROVE DequeInv'
  BY <1>0, <1>13 DEF LoopEnds
<1>14. ASSUME NEW c \in Conns, Serve(c) PROVE DequeInv'
  BY <1>0, <1>14 DEF Serve
<1>15. ASSUME NEW c \in Conns, OnClose(c) PROVE DequeInv'
  <2>1. \/ Deque' = Deque /\ jammed' = jammed \cup {c}
        \/ Deque' = (IF c \in close_cb THEN Deque \ {c} ELSE Deque) /\ UNCHANGED jammed
    BY <1>0, <1>15, RemoveFacts DEF OnClose
  <2>2. /\ UNCHANGED <<at, close_cb, serving>>
        /\ notified' = notified \cup {c} /\ closed' = closed \cup {c}
    BY <1>15 DEF OnClose
  <2> QED
    BY <1>0, <2>1, <2>2
<1>16. CASE ClosePeer
  BY <1>0, <1>16 DEF ClosePeer
<1>17. CASE UNCHANGED vars
  BY <1>0, <1>17 DEF vars
<1>18. CASE RemovePeer
  BY <1>0, <1>18 DEF RemovePeer
<1> QED
  BY <1>1, <1>2, <1>3, <1>4, <1>5, <1>6, <1>7, <1>8, <1>9, <1>10, <1>11, <1>12, <1>13,
     <1>14, <1>15, <1>16, <1>17, <1>18 DEF Next, Proceeds

\* Where the coroutines are, the attempt of the peer, and the errors told.
AttemptInv ==
  /\ \A c \in Conns : at[c] = "new" <=> direction[c] = "none"
  /\ OneAtATime /\ UnexpectedIsRemote

LEMMA AttemptStep == Inv /\ [Next]_vars => AttemptInv'
<1> SUFFICES ASSUME Inv, [Next]_vars PROVE AttemptInv'
  OBVIOUS
<1> DEFINE Open(places, c) == {d \in {c} \ {None} : places[d] # "up"}
           Trying == {c \in Conns : direction[c] = "out" /\ at[c] \notin {"up", "failed"}}
           Strange == \E c \in Conns : log[c] # <<>> /\ log[c][1] # "init"
           Blamed == \A k \in Callers : given[k] \in Blames => Strange
<1>0. /\ DOMAIN at = Conns /\ DOMAIN direction = Conns /\ DOMAIN given = Callers
      /\ \A c \in Conns : at[c] = "new" <=> direction[c] = "none"
      /\ Trying = Open(at, connecting) /\ Blamed
      /\ connecting # None /\ at[connecting] = "up" => removed
      /\ connecting \in Conns \cup {None} /\ None \notin Conns
  <2>1. connecting # None /\ at[connecting] = "up" => removed
    BY DEF Inv, OneAtATime
  <2>2. Trying = Open(at, connecting) /\ Blamed
    BY DEF Inv, OneAtATime, UnexpectedIsRemote
  <2> QED
    <3>1. /\ DOMAIN at = Conns /\ DOMAIN direction = Conns /\ DOMAIN given = Callers
          /\ \A c \in Conns : at[c] = "new" <=> direction[c] = "none"
          /\ connecting \in Conns \cup {None}
      BY DEF Inv, TypeOK, PeerInv
    <3>2. None \notin Conns
      BY HandshakeAssumption DEF Conns, None
    <3> QED
      BY <2>1, <2>2, <3>1, <3>2
<1>a. Strange => Strange'
  BY LogGrows DEF Inv
<1>b. ASSUME /\ \A c \in Conns : at'[c] = "new" <=> direction'[c] = "none"
             /\ Trying' = Open(at', connecting') /\ Blamed'
             /\ connecting' # None /\ at'[connecting'] = "up" => removed'
      PROVE  AttemptInv'
  BY <1>b DEF AttemptInv, OneAtATime, UnexpectedIsRemote
<1>c. ASSUME UNCHANGED <<direction, connecting, given>>, removed => removed',
             \A c \in Conns : /\ at'[c] = "new" <=> at[c] = "new"
                              /\ at'[c] = "up" <=> at[c] = "up"
                              /\ at'[c] = "failed" <=> at[c] = "failed"
      PROVE  AttemptInv'
  <2>1. Trying' = Trying
    BY <1>c
  <2> QED
    BY <1>0, <1>a, <1>b, <1>c, <2>1
<1>1. ASSUME NEW k \in Callers, Connect(k) PROVE AttemptInv'
  <2>1. CASE UNCHANGED <<direction, at, connecting>>
    <3>1. Trying' = Trying /\ UNCHANGED removed
      BY <1>1, <2>1 DEF Connect
    <3>2. Blamed'
      <4>1. \A j \in Callers : given'[j] = given[j] \/ given'[j] \in {"waiting", "connection"}
        BY <1>0, <1>1 DEF Connect
      <4> QED
        BY <1>0, <1>a, <4>1 DEF Blames
    <3> QED
      BY <1>0, <1>b, <2>1, <3>1, <3>2
  <2>2. CASE ~Shares /\ connections = <<>>
    <3>1. PICK c \in Conns : /\ Fresh(c)
                             /\ direction' = [direction EXCEPT ![c] = "out"]
                             /\ at' = [at EXCEPT ![c] = "connecting"]
                             /\ connecting' = c /\ given' = [given EXCEPT ![k] = "waiting"]
      BY <1>1, <2>2 DEF Connect
    <3>2. Trying = {}
      BY <1>0, <2>2 DEF Shares
    <3>3. Trying' = {c}
      BY <1>0, <3>1, <3>2
    <3>4. Blamed'
      BY <1>0, <1>a, <3>1 DEF Blames
    <3> QED
      BY <1>0, <1>b, <3>1, <3>3, <3>4 DEF Fresh
  <2> QED
    BY <1>1, <2>1, <2>2 DEF Connect
<1>2. ASSUME NEW c \in Conns, Connected(c) PROVE AttemptInv'
  BY <1>0, <1>c, <1>2 DEF Connected
<1>3. ASSUME NEW c \in Conns, ConnectFails(c) PROVE AttemptInv'
  BY <1>0, <1>c, <1>3 DEF ConnectFails
<1>4. ASSUME NEW c \in Conns, Accept(c) PROVE AttemptInv'
  <2>1. /\ \A d \in Conns : d # c => at'[d] = at[d] /\ direction'[d] = direction[d]
        /\ at'[c] = "shaking" /\ direction'[c] = "in" /\ direction[c] = "none"
        /\ UNCHANGED <<connecting, given, removed>> /\ at[c] = "new"
    BY <1>0, <1>4 DEF Accept, Fresh
  <2>2. Trying' = Trying
    BY <2>1
  <2> QED
    BY <1>0, <1>a, <1>b, <2>1, <2>2
<1>5. ASSUME NEW c \in Conns, NEW item \in Items, RemoteSends(c, item) PROVE AttemptInv'
  BY <1>0, <1>c, <1>5 DEF RemoteSends
<1>6. ASSUME NEW c \in Conns, RemoteCloses(c) PROVE AttemptInv'
  BY <1>0, <1>c, <1>6 DEF RemoteCloses
<1>7. ASSUME NEW c \in Conns, GetAnswered(c) PROVE AttemptInv'
  BY <1>0, <1>c, <1>7 DEF GetAnswered
<1>8. ASSUME NEW c \in Conns, TimerFires(c) PROVE AttemptInv'
  BY <1>0, <1>c, <1>8 DEF TimerFires
<1>9. ASSUME NEW c \in Conns, Resume(c) PROVE AttemptInv'
  BY <1>0, <1>c, <1>9 DEF Resume
<1>10. ASSUME NEW c \in Conns, Refused(c) PROVE AttemptInv'
  <2>1. /\ \A d \in Conns : at'[d] = IF d = c THEN "failed" ELSE at[d]
        /\ at[c] = "refused" /\ UNCHANGED <<direction, log, removed>>
    BY <1>0, <1>10 DEF Refused
  <2>2. CASE direction[c] = "out"
    <3>1. Trying = {c} /\ connecting = c
      BY <1>0, <2>1, <2>2
    <3>2. Trying' = {} /\ connecting' = None
      BY <1>10, <2>1, <2>2, <3>1 DEF Refused
    <3>3. Report(answer[c].exc) \in Blames => Strange
      BY DEF Inv, AnswerInv, Report, Blames
    <3>4. Blamed'
      BY <1>0, <1>a, <1>10, <2>2, <3>3 DEF Refused, Give
    <3> QED
      BY <1>0, <1>b, <2>1, <3>2, <3>4
  <2>3. CASE direction[c] # "out"
    <3>1. Trying' = Trying
      BY <2>1, <2>3
    <3>2. UNCHANGED <<connecting, given>>
      BY <1>10, <2>3 DEF Refused
    <3> QED
      BY <1>0, <1>a, <1>b, <2>1, <3>1, <3>2
  <2> QED
    BY <2>2, <2>3
<1>11. ASSUME NEW c \in Conns, Up(c) PROVE AttemptInv'
  <2>1. /\ \A d \in Conns : at'[d] = IF d = c THEN "up" ELSE at[d]
        /\ at[c] = "shaken" /\ UNCHANGED <<direction, log, removed>>
    BY <1>0, <1>11 DEF Up
  <2>2. CASE direction[c] = "out"
    <3>1. Trying = {c} /\ connecting = c
      BY <1>0, <2>1, <2>2
    <3>2. Trying' = {} /\ UNCHANGED removed
      BY <1>11, <2>1, <2>2, <3>1 DEF Up
    <3>4. connecting' = None \/ (removed /\ connecting' = c /\ at'[c] = "up")
      BY <1>0, <1>11, <2>1, <2>2, <3>1 DEF Up, Concluded
    <3>3. Blamed'
      BY <1>0, <1>a, <1>11, <2>2 DEF Up, Give, Blames
    <3>5. Open(at', connecting') = {}
      BY <3>4
    <3> QED
      BY <1>0, <1>b, <2>1, <3>2, <3>3, <3>4, <3>5
  <2>3. CASE direction[c] # "out"
    <3>1. Trying' = Trying
      BY <2>1, <2>3
    <3>2. UNCHANGED <<connecting, given>>
      BY <1>11, <2>3 DEF Up
    <3> QED
      BY <1>0, <1>a, <1>b, <2>1, <3>1, <3>2
  <2> QED
    BY <2>2, <2>3
<1>12. ASSUME NEW c \in Conns, Loop(c) PROVE AttemptInv'
  BY <1>0, <1>c, <1>12 DEF Loop
<1>13. ASSUME NEW c \in Conns, LoopEnds(c) PROVE AttemptInv'
  BY <1>0, <1>c, <1>13 DEF LoopEnds
<1>14. ASSUME NEW c \in Conns, Serve(c) PROVE AttemptInv'
  BY <1>0, <1>c, <1>14 DEF Serve
<1>15. ASSUME NEW c \in Conns, OnClose(c) PROVE AttemptInv'
  BY <1>0, <1>c, <1>15 DEF OnClose
<1>16. CASE ClosePeer
  BY <1>0, <1>c, <1>16 DEF ClosePeer
<1>17. CASE UNCHANGED vars
  BY <1>0, <1>c, <1>17 DEF vars
<1>18. CASE RemovePeer
  BY <1>0, <1>c, <1>18 DEF RemovePeer
<1> QED
  BY <1>1, <1>2, <1>3, <1>4, <1>5, <1>6, <1>7, <1>8, <1>9, <1>10, <1>11, <1>12, <1>13,
     <1>14, <1>15, <1>16, <1>17, <1>18 DEF Next, Proceeds

-----------------------------------------------------------------------------
(* The calls.                                                              *)

\* A call that is queued comes after all others; one that is served moves from the head
\* of one queue to the end of the other.
LEMMA QueueFacts ==
  ASSUME NEW S, NEW s \in Seq(S), NEW m \in Seq(S)
  PROVE  /\ s \o m \in Seq(S)
         /\ \A e \in S : s \o Append(m, e) = Append(s \o m, e)
         /\ m # <<>> => Append(s, Head(m)) \o Tail(m) = s \o m
<1>1. s \o m \in Seq(S)
  OBVIOUS
<1>2. ASSUME NEW e \in S PROVE s \o Append(m, e) = Append(s \o m, e)
  OBVIOUS
<1>3. ASSUME m # <<>> PROVE Append(s, Head(m)) \o Tail(m) = s \o m
  BY <1>3
<1> QED
  BY <1>1, <1>2, <1>3

\* What follows the last element of an increasing sequence of numbers is new to it.
LEMMA AppendIncreasing ==
  ASSUME NEW s \in Seq(Nat), NEW e \in Nat,
         \A i, j \in DOMAIN s : i < j => s[i] < s[j],
         \A x \in ToSet(s) : x < e
  PROVE  /\ \A i, j \in DOMAIN Append(s, e) : i < j => Append(s, e)[i] < Append(s, e)[j]
         /\ ToSet(Append(s, e)) = ToSet(s) \cup {e}
<1> DEFINE t == Append(s, e)
<1>1. /\ DOMAIN s = 1 .. Len(s) /\ DOMAIN t = 1 .. Len(s) + 1 /\ Len(s) \in Nat
      /\ t[Len(s) + 1] = e /\ \A i \in 1 .. Len(s) : t[i] = s[i] /\ s[i] \in ToSet(s)
  BY DEF ToSet
<1> HIDE DEF t
<1>2. ASSUME NEW i \in DOMAIN t, NEW j \in DOMAIN t, i < j PROVE t[i] < t[j]
  <2>1. i \in 1 .. Len(s)
    BY <1>1, <1>2
  <2>2. CASE j \in 1 .. Len(s)
    BY <1>1, <1>2, <2>1, <2>2
  <2>3. CASE j = Len(s) + 1
    BY <1>1, <2>1, <2>3
  <2> QED
    BY <1>1, <2>2, <2>3
<1>3. ToSet(t) = ToSet(s) \cup {e}
  <2>1. /\ ToSet(s) = {s[i] : i \in 1 .. Len(s)}
        /\ ToSet(t) = {t[i] : i \in 1 .. Len(s) + 1}
    BY <1>1 DEF ToSet
  <2>2. 1 .. Len(s) + 1 = (1 .. Len(s)) \cup {Len(s) + 1}
    BY <1>1
  <2>3. ToSet(t) = {t[i] : i \in 1 .. Len(s)} \cup {t[Len(s) + 1]}
    BY <2>1, <2>2
  <2>4. {t[i] : i \in 1 .. Len(s)} = {s[i] : i \in 1 .. Len(s)}
    BY <1>1
  <2> QED
    BY <1>1, <2>1, <2>3, <2>4
<1> QED
  BY <1>2, <1>3 DEF t

Calls(c) == served[c] \o messages[c]

\* The calls of connection c are those it read.
InOrder(c) ==
  /\ ToSet(Calls(c)) = {i \in 1 .. read[c] : log[c][i] = "call"}
  /\ \A i, j \in DOMAIN Calls(c) : i < j => Calls(c)[i] < Calls(c)[j]

CallInv(c) ==
  /\ at[c] \notin {"shaken", "up"} => messages[c] = <<>>
  /\ served[c] # <<>> => at[c] = "up"
  /\ at[c] \in {"shaken", "up"} /\ c \notin notified => InOrder(c)

LEMMA CallStep == Inv /\ [Next]_vars => \A c \in Conns : CallInv(c)'
<1> SUFFICES ASSUME Inv, [Next]_vars, NEW d \in Conns PROVE CallInv(d)'
  OBVIOUS
<1>0. /\ TypeOK /\ DOMAIN at = Conns /\ DOMAIN read = Conns /\ DOMAIN log = Conns
      /\ DOMAIN served = Conns /\ DOMAIN messages = Conns
      /\ read[d] \in Nat /\ Len(log[d]) \in Nat /\ read[d] <= Len(log[d])
      /\ served[d] \in Seq(Nat) /\ messages[d] \in Seq(Nat)
      /\ direction[d] = "none" <=> at[d] = "new"
  <2>1. served[d] \in Seq(1 .. MaxItems) /\ messages[d] \in Seq(1 .. MaxItems)
    BY DEF Inv, TypeOK
  <2>2. served[d] \in Seq(Nat) /\ messages[d] \in Seq(Nat)
    BY <2>1, HandshakeAssumption
  <2> QED
    BY <2>2, HandshakeAssumption DEF Inv, TypeOK, LogInv, PeerInv
<1>a. CallInv(d)
  BY DEF Inv, PeerInv, CallsInOrder, CallInv, InOrder, Calls
<1>b. ASSUME UNCHANGED <<read, messages, served, notified>>,
             at'[d] = at[d] \/ (at[d] \in {"shaken", "up"} /\ at'[d] = "up")
             \/ (at[d] \notin {"shaken", "up"} /\ at'[d] \notin {"shaken", "up"})
      PROVE  CallInv(d)'
  <2>1. InOrder(d) => InOrder(d)'
    <3>1. Calls(d)' = Calls(d)
      BY <1>b DEF Calls
    <3>2. {i \in 1 .. read'[d] : log'[d][i] = "call"} = {i \in 1 .. read[d] : log[d][i] = "call"}
      BY <1>0, <1>b, LogGrows, SMTT(30)
    <3> QED
      BY <3>1, <3>2 DEF InOrder
  <2> QED
    BY <1>a, <1>b, <2>1 DEF CallInv
<1>1. ASSUME NEW k \in Callers, Connect(k) PROVE CallInv(d)'
  <2>1. at'[d] = at[d] \/ (at'[d] = "connecting" /\ at[d] = "new")
    <3>1. ASSUME NEW c \in Conns, Fresh(c), at' = [at EXCEPT ![c] = "connecting"]
          PROVE  at'[d] = at[d] \/ (at'[d] = "connecting" /\ at[d] = "new")
      BY <1>0, <3>1 DEF Fresh
    <3> QED
      BY <1>1, <3>1 DEF Connect
  <2> QED
    BY <1>b, <1>1, <2>1 DEF Connect
<1>2. ASSUME NEW c \in Conns, Connected(c) PROVE CallInv(d)'
  BY <1>0, <1>b, <1>2 DEF Connected
<1>3. ASSUME NEW c \in Conns, ConnectFails(c) PROVE CallInv(d)'
  BY <1>0, <1>b, <1>3 DEF ConnectFails
<1>4. ASSUME NEW c \in Conns, Accept(c) PROVE CallInv(d)'
  BY <1>0, <1>b, <1>4 DEF Accept, Fresh
<1>5. ASSUME NEW c \in Conns, NEW item \in Items, RemoteSends(c, item) PROVE CallInv(d)'
  BY <1>0, <1>b, <1>5 DEF RemoteSends
<1>6. ASSUME NEW c \in Conns, RemoteCloses(c) PROVE CallInv(d)'
  BY <1>0, <1>b, <1>6 DEF RemoteCloses
<1>7. ASSUME NEW c \in Conns, GetAnswered(c) PROVE CallInv(d)'
  <2>1. UNCHANGED <<at, messages, served, notified, log>>
    BY <1>7 DEF GetAnswered
  <2>2. CASE d = c
    BY <1>a, <1>7, <2>1, <2>2 DEF GetAnswered, CallInv
  <2>3. CASE d # c
    <3>1. read'[d] = read[d]
      BY <1>0, <1>7, <2>3 DEF GetAnswered
    <3> QED
      BY <1>a, <2>1, <3>1 DEF CallInv, InOrder, Calls
  <2> QED
    BY <2>2, <2>3
<1>8. ASSUME NEW c \in Conns, TimerFires(c) PROVE CallInv(d)'
  BY <1>0, <1>b, <1>8 DEF TimerFires
<1>9. ASSUME NEW c \in Conns, Resume(c) PROVE CallInv(d)'
  <2>1. CASE d # c \/ ~Shaken(c)
    BY <1>0, <1>b, <1>9, <2>1 DEF Resume
  <2>2. CASE d = c /\ Shaken(c)
    <3>1. at[d] = "shaking" /\ at'[d] = "shaken" /\ UNCHANGED <<read, log, messages, served>>
      BY <1>0, <1>9, <2>2 DEF Resume
    <3>2. messages[d] = <<>> /\ served[d] = <<>>
      BY <1>a, <3>1 DEF CallInv
    <3>3. Calls(d)' = <<>>
      BY <3>1, <3>2 DEF Calls
    <3>4. read[d] = 1 /\ log[d][1] = "init"
      <4>1. answer[d].result = "init"
        BY <2>2 DEF Shaken
      <4> QED
        BY <1>0, <3>1, <4>1 DEF Inv, LogInv, AnswerInv
    <3>5. {i \in 1 .. read'[d] : log'[d][i] = "call"} = {}
      BY <3>1, <3>4
    <3>6. ToSet(<<>>) = {}
      BY DEF ToSet
    <3>7. InOrder(d)'
      BY <3>3, <3>5, <3>6 DEF InOrder
    <3> QED
      BY <3>1, <3>2, <3>7 DEF CallInv
  <2> QED
    BY <2>1, <2>2
<1>10. ASSUME NEW c \in Conns, Refused(c) PROVE CallInv(d)'
  BY <1>0, <1>b, <1>10 DEF Refused
<1>11. ASSUME NEW c \in Conns, Up(c) PROVE CallInv(d)'
  BY <1>0, <1>b, <1>11 DEF Up
<1>12. ASSUME NEW c \in Conns, Loop(c) PROVE CallInv(d)'
  <2>1. UNCHANGED <<at, served, notified, log>>
    BY <1>12 DEF Loop
  <2>2. CASE d # c
    <3>1. read'[d] = read[d] /\ messages'[d] = messages[d]
      BY <1>0, <1>12, <2>2 DEF Loop
    <3> QED
      BY <1>a, <2>1, <3>1 DEF CallInv, InOrder, Calls
  <2>3. CASE d = c
    <3> DEFINE r == read[d] + 1
    <3>1. /\ at[d] \in {"shaken", "up"} /\ d \notin notified /\ read'[d] = r
          /\ messages'[d] = IF log[d][r] = "call" THEN Append(messages[d], r) ELSE messages[d]
      BY <1>0, <1>12, <2>3 DEF Loop, Looping, Put, Inv, PeerInv
    <3>2. InOrder(d)
      BY <1>a, <3>1 DEF CallInv
    <3>3. 1 .. r = (1 .. read[d]) \cup {r}
      BY <1>0
    <3>4. CASE log[d][r] # "call"
      <4>1. Calls(d)' = Calls(d)
        BY <2>1, <3>1, <3>4 DEF Calls
      <4>2. {i \in 1 .. read'[d] : log'[d][i] = "call"} = {i \in 1 .. read[d] : log[d][i] = "call"}
        BY <2>1, <3>1, <3>3, <3>4
      <4>3. InOrder(d)'
        BY <3>2, <4>1, <4>2 DEF InOrder
      <4> QED
        BY <1>a, <2>1, <3>1, <4>3 DEF CallInv
    <3>5. CASE log[d][r] = "call"
      <4> DEFINE q == Calls(d)
      <4>1. Calls(d)' = Append(q, r) /\ q \in Seq(Nat)
        BY <1>0, <2>1, <3>1, <3>5, QueueFacts, SMTT(30) DEF Calls
      <4>2. /\ ToSet(q) = {i \in 1 .. read[d] : log[d][i] = "call"}
            /\ \A i, j \in DOMAIN q : i < j => q[i] < q[j]
        BY <3>2 DEF InOrder
      <4> HIDE DEF q
      <4>3. r \in Nat /\ \A x \in ToSet(q) : x < r
        BY <1>0, <4>2
      <4>4. /\ \A i, j \in DOMAIN Append(q, r) : i < j => Append(q, r)[i] < Append(q, r)[j]
            /\ ToSet(Append(q, r)) = ToSet(q) \cup {r}
        BY <4>1, <4>2, <4>3, AppendIncreasing
      <4>5. {i \in 1 .. read'[d] : log'[d][i] = "call"}
              = {i \in 1 .. read[d] : log[d][i] = "call"} \cup {r}
        BY <2>1, <3>1, <3>3, <3>5
      <4>6. InOrder(d)'
        BY <4>1, <4>2, <4>4, <4>5 DEF InOrder
      <4> QED
        BY <1>a, <2>1, <3>1, <4>6 DEF CallInv
    <3> QED
      BY <3>4, <3>5
  <2> QED
    BY <2>2, <2>3
<1>13. ASSUME NEW c \in Conns, LoopEnds(c) PROVE CallInv(d)'
  BY <1>0, <1>b, <1>13 DEF LoopEnds
<1>14. ASSUME NEW c \in Conns, Serve(c) PROVE CallInv(d)'
  <2>1. UNCHANGED <<at, read, notified, log>> /\ at[c] = "up"
    BY <1>14 DEF Serve, Inv, PeerInv
  <2>2. CASE d # c
    <3>1. served'[d] = served[d] /\ messages'[d] = messages[d]
      BY <1>0, <1>14, <2>2 DEF Serve
    <3> QED
      BY <1>a, <2>1, <3>1 DEF CallInv, InOrder, Calls
  <2>3. CASE d = c
    <3>1. /\ messages[d] # <<>>
          /\ served'[d] = Append(served[d], Head(messages[d]))
          /\ messages'[d] = Tail(messages[d])
      BY <1>0, <1>14, <2>3 DEF Serve
    <3>2. Calls(d)' = Calls(d)
      <4>1. Append(served[d], Head(messages[d])) \o Tail(messages[d]) = served[d] \o messages[d]
        BY <1>0, <3>1, QueueFacts
      <4> QED
        BY <3>1, <4>1 DEF Calls
    <3>3. InOrder(d) => InOrder(d)'
      BY <2>1, <3>2 DEF InOrder
    <3> QED
      BY <1>a, <2>1, <2>3, <3>1, <3>3 DEF CallInv
  <2> QED
    BY <2>2, <2>3
<1>15. ASSUME NEW c \in Conns, OnClose(c) PROVE CallInv(d)'
  <2>1. UNCHANGED <<at, read, served, log>> /\ notified' = notified \cup {c}
    BY <1>15 DEF OnClose
  <2>2. \/ messages'[d] = messages[d]
        \/ d = c /\ messages'[d] = <<>>
    BY <1>0, <1>15 DEF OnClose
  <2> QED
    BY <1>a, <2>1, <2>2 DEF CallInv, InOrder, Calls
<1>16. CASE ClosePeer
  BY <1>0, <1>b, <1>16 DEF ClosePeer
<1>17. CASE UNCHANGED vars
  BY <1>0, <1>b, <1>17 DEF vars
<1>18. CASE RemovePeer
  BY <1>0, <1>b, <1>18 DEF RemovePeer
<1> QED
  BY <1>1, <1>2, <1>3, <1>4, <1>5, <1>6, <1>7, <1>8, <1>9, <1>10, <1>11, <1>12, <1>13,
     <1>14, <1>15, <1>16, <1>17, <1>18 DEF Next, Proceeds

-----------------------------------------------------------------------------
(* The theorems.                                                           *)

LEMMA InvStep == Inv /\ [Next]_vars => Inv'
<1> SUFFICES ASSUME Inv, [Next]_vars PROVE Inv'
  OBVIOUS
<1>1. TypeOK' /\ LogInv' /\ AnswerInv'
  BY TypeStep, LogStep, AnswerStep
<1>2. DequeInv' /\ AttemptInv' /\ \A c \in Conns : CallInv(c)'
  BY DequeStep, AttemptStep, CallStep
<1>3. PeerInv'
  BY <1>2 DEF PeerInv, DequeInv, AttemptInv, CallInv
<1>4. CallsInOrder'
  BY <1>2 DEF CallInv, InOrder, Calls, CallsInOrder
<1> QED
  BY <1>1, <1>2, <1>3, <1>4 DEF Inv, DequeInv, AttemptInv

LEMMA InvHolds == Spec => []Inv
<1>1. Init => Inv
  BY InvInit
<1>2. Inv /\ [Next]_vars => Inv'
  BY InvStep
<1> QED
  BY <1>1, <1>2, PTL DEF Spec

\* For any number of connections and callers, and a Peer that may be removed from its group
\* meanwhile: a connection whose _on_close ran to its end is not with the peer, even if it
\* ended before register_outgoing_conn or register_incoming_conn put it there;
\* Peer._connecting names the one attempt under way, or, of a removed peer, perhaps one that
\* is over; and outgoing reports an error other than NetworkError only if the remote side
\* sent no proper handshake.
THEOREM PeerConnectionsAreSound == Spec => []ConnectionsAreSound
<1>1. Inv => ConnectionsAreSound
  BY DEF Inv, ConnectionsAreSound
<1> QED
  BY <1>1, InvHolds, PTL

\* For any number of messages, read by the receive loop before or after serve starts: no
\* call is served and no connection registered before a complete handshake, and the calls
\* served and queued are those that were read, each once, in the order of arrival.
THEOREM CallsAreServedAfterHandshake == Spec => []ServedAfterHandshake
<1>1. Inv => ServedAfterHandshake
  <2> SUFFICES ASSUME Inv PROVE ServedAfterHandshake
    OBVIOUS
  <2>1. ToSet(connections) \subseteq Conns
    BY DEF Inv, TypeOK, ToSet
  <2>2. ShakenFirst
    BY <2>1 DEF Inv, PeerInv, LogInv, ShakenFirst
  <2> QED
    BY <2>2 DEF Inv, ServedAfterHandshake
<1> QED
  BY <1>1, InvHolds, PTL
=============================================================================
