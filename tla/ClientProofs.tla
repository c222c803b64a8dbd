---------------------------- MODULE ClientProofs ----------------------------
(***************************************************************************)
(* What PeerClientOperation promises about retries, for any number of      *)
(* requests, peers and retries.                                            *)
(***************************************************************************)
EXTENDS ClientOperation, TLAPS

\* A peer with a connection has been connected to.
LinkInv == \A p \in Peers : link[p] = "up" => made[p] # 0

\* A request on its way to a peer has one.
PeerInv == \A o \in Ops : pc[o] \notin {"choosing", "done"} => peer[o] \in Peers

\* How often a request has been sent (a), by what it is doing (s): whoever is about to
\* send has an attempt left.
Counted(o, s, a) ==
  /\ s \in {"choosing", "connecting"} => Len(a) = 0
  /\ s = "connected" => Len(a) <= Limit(o)
  /\ s \in {"retrying", "reconnecting"} => Len(a) \in 1 .. Limit(o)
  /\ s = "sent" => Len(a) \in 1 .. Limit(o) + 1
  /\ s = "done" => Len(a) <= Limit(o) + 1

CountInv == \A o \in Ops : Counted(o, pc[o], attempts[o])

\* Every peer a request was sent to is in its blacklist (b), except the one it waits for;
\* the one it is about to use (p) is new.
RuledOut(s, a, b, p) ==
  /\ \A k \in 1 .. Len(a) :
       /\ s \in {"retrying", "reconnecting", "connected"} => a[k] \in b
       /\ s \in {"reconnecting", "connected"} => a[k] # p
       /\ s = "sent" /\ k # Len(a) => a[k] \in b
       /\ s = "sent" /\ k = Len(a) => a[k] = p
  /\ \A j, k \in 1 .. Len(a) : a[j] = a[k] => j = k

UsedInv == \A o \in Ops : RuledOut(pc[o], attempts[o], blacklist[o], peer[o])

\* A request that timed out and may not be sent again has ended.
TimeoutInv ==
  \A o \in Ops : result[o] = "timeout" /\ flag[o] \in {"c", "n"} => pc[o] = "done"

Inv == TypeOK /\ LinkInv /\ PeerInv /\ CountInv /\ UsedInv /\ TimeoutInv

LEMMA LimitIsNat == \A o \in Ops : Limit(o) \in Nat
  BY ClientAssumption DEF Limit

LEMMA ChoicesArePeers ==
  ASSUME TypeOK, NEW o \in Ops PROVE Choices(o) \subseteq Peers
  BY ClientAssumption DEF TypeOK, Choices

LEMMA InvInit == Init => Inv
<1> SUFFICES ASSUME Init PROVE Inv
  OBVIOUS
<1> USE ClientAssumption DEF Init
<1>1. TypeOK
  BY DEF TypeOK, Errors
<1>2. LinkInv /\ PeerInv /\ TimeoutInv
  BY DEF LinkInv, PeerInv, TimeoutInv
<1>3. \A o \in Ops : attempts[o] = <<>> /\ pc[o] = "choosing"
  OBVIOUS
<1>4. CountInv
  BY <1>3, LimitIsNat DEF CountInv, Counted
<1>5. UsedInv
  BY <1>3 DEF UsedInv, RuledOut
<1> QED
  BY <1>1, <1>2, <1>4, <1>5 DEF Inv

\* A request that gets its peer: the part of the invariant about requests is kept when
\* the peer is one that its choice allows.
LEMMA ConnectKeeps ==
  ASSUME Inv, NEW o \in Ops, NEW p \in Choices(o), NEW w,
         \/ pc[o] = "choosing" /\ w = "connecting"
         \/ pc[o] = "retrying" /\ w = "reconnecting",
         Connect(o, p, w)
  PROVE  Inv'
<1>1. TypeOK /\ LinkInv /\ PeerInv /\ CountInv /\ UsedInv /\ TimeoutInv
  BY DEF Inv
<1>2. p \in Peers
  BY <1>1, ChoicesArePeers
<1>3. /\ link' \in [Peers -> {"down", "connecting", "up"}]
      /\ pc' \in [Ops -> {"choosing", "connecting", "connected", "sent", "retrying",
                          "reconnecting", "done"}]
      /\ peer' \in [Ops -> Peers \cup {None}]
      /\ conn' \in [Ops -> 0 .. MaxLinks]
  <2>1. w \in {"connecting", "reconnecting"} /\ made[p] \in 0 .. MaxLinks
    BY <1>1, <1>2 DEF TypeOK
  <2>2. CASE link[p] = "up"
    BY <2>1, <2>2, <1>1, <1>2 DEF TypeOK, Connect
  <2>3. CASE link[p] # "up"
    BY <2>1, <2>3, <1>1, <1>2 DEF TypeOK, Connect
  <2> QED
    BY <2>2, <2>3
<1>4. TypeOK'
  BY <1>1, <1>3 DEF TypeOK, Connect, requestVars
<1>5. /\ pc'[o] \in {"connected", w} /\ peer'[o] = p
      /\ \A q \in Ops \ {o} : pc'[q] = pc[q] /\ peer'[q] = peer[q]
      /\ UNCHANGED <<made, flag, blacklist, attempts, result>>
  BY <1>1 DEF TypeOK, Connect, requestVars
<1>6. LinkInv'
  BY <1>1, <1>2 DEF LinkInv, TypeOK, Connect
<1>7. PeerInv' /\ TimeoutInv'
  BY <1>1, <1>2, <1>5 DEF PeerInv, TimeoutInv
<1>8. CountInv'
  <2> SUFFICES ASSUME NEW q \in Ops PROVE Counted(q, pc'[q], attempts'[q])
    BY DEF CountInv, Counted, Limit
  <2>1. Counted(q, pc[q], attempts[q]) /\ Limit(q) \in Nat
    BY <1>1, LimitIsNat DEF CountInv
  <2>2. CASE q # o
    BY <2>1, <2>2, <1>5
  <2>3. CASE q = o
    BY <2>1, <2>3, <1>5 DEF Counted
  <2> QED
    BY <2>2, <2>3
<1>9. \A k \in 1 .. Len(attempts[o]) : attempts[o][k] \in blacklist[o] /\ attempts[o][k] # p
  <2>1. CASE pc[o] = "choosing"
    <3>1. Len(attempts[o]) = 0
      BY <2>1, <1>1 DEF CountInv, Counted
    <3> QED
      BY <3>1
  <2>2. CASE pc[o] = "retrying"
    <3>1. o \notin Pinned
      BY <2>2, <1>1 DEF CountInv, Counted, Limit
    <3>2. p \notin blacklist[o]
      BY <3>1 DEF Choices
    <3> QED
      BY <3>2, <2>2, <1>1 DEF UsedInv, RuledOut
  <2> QED
    BY <2>1, <2>2
<1>10. UsedInv'
  <2> SUFFICES ASSUME NEW q \in Ops
               PROVE  RuledOut(pc'[q], attempts'[q], blacklist'[q], peer'[q])
    BY DEF UsedInv, RuledOut
  <2>1. RuledOut(pc[q], attempts[q], blacklist[q], peer[q])
    BY <1>1 DEF UsedInv
  <2>2. CASE q # o
    BY <2>1, <2>2, <1>5
  <2>3. CASE q = o
    BY <2>1, <2>3, <1>5, <1>9 DEF RuledOut
  <2> QED
    BY <2>2, <2>3
<1> QED
  BY <1>4, <1>6, <1>7, <1>8, <1>10 DEF Inv

\* Requests that are sent to nobody in a step, and that wait, get the connection they
\* waited for, go back to choosing, or end.
LEMMA MovesKeep ==
  ASSUME Inv, TypeOK', LinkInv', UNCHANGED <<flag, attempts, peer>>,
         \A q \in Ops :
           \/ pc'[q] = "done"
           \/ /\ result'[q] = result[q]
              /\ \/ pc'[q] = pc[q] /\ blacklist'[q] = blacklist[q]
                 \/ /\ pc[q] \in {"connecting", "reconnecting"}
                    /\ pc'[q] = "connected" /\ blacklist'[q] = blacklist[q]
                 \/ pc[q] = "connecting" /\ pc'[q] = "choosing"
  PROVE  Inv'
<1>1. TypeOK /\ PeerInv /\ CountInv /\ UsedInv /\ TimeoutInv
  BY DEF Inv
<1>2. PeerInv' /\ TimeoutInv'
  BY <1>1 DEF PeerInv, TimeoutInv
<1>3. CountInv'
  <2> SUFFICES ASSUME NEW q \in Ops PROVE Counted(q, pc'[q], attempts[q])
    BY DEF CountInv, Counted, Limit
  <2>1. /\ Counted(q, pc[q], attempts[q]) /\ Limit(q) \in Nat
        /\ pc[q] \in {"choosing", "connecting", "connected", "sent", "retrying",
                      "reconnecting", "done"}
        /\ Len(attempts[q]) \in Nat
    BY <1>1, LimitIsNat DEF CountInv, TypeOK
  <2> QED
    BY <2>1 DEF Counted
<1>4. UsedInv'
  <2> SUFFICES ASSUME NEW q \in Ops PROVE RuledOut(pc'[q], attempts[q], blacklist'[q], peer[q])
    BY DEF UsedInv, RuledOut
  <2>1. RuledOut(pc[q], attempts[q], blacklist[q], peer[q]) /\ Counted(q, pc[q], attempts[q])
    BY <1>1 DEF UsedInv, CountInv
  <2>2. CASE pc'[q] \in {"done", "choosing"}
    BY <2>1, <2>2 DEF RuledOut
  <2>3. CASE pc'[q] = pc[q] /\ blacklist'[q] = blacklist[q]
    BY <2>1, <2>3
  <2>4. CASE pc[q] = "connecting" /\ pc'[q] = "connected"
    <3>1. Len(attempts[q]) = 0
      BY <2>1, <2>4 DEF Counted
    <3> QED
      BY <3>1, <2>4 DEF RuledOut
  <2>5. CASE pc[q] = "reconnecting" /\ pc'[q] = "connected" /\ blacklist'[q] = blacklist[q]
    BY <2>1, <2>5 DEF RuledOut
  <2> QED
    BY <2>2, <2>3, <2>4, <2>5
<1> QED
  BY <1>2, <1>3, <1>4 DEF Inv

\* Sending takes the attempt that is left, to a peer that is new.
LEMMA SendKeeps ==
  ASSUME Inv, NEW o \in Ops, Send(o)
  PROVE  Inv'
<1>1. TypeOK /\ LinkInv /\ PeerInv /\ CountInv /\ UsedInv /\ TimeoutInv
  BY DEF Inv
<1>2. /\ pc[o] = "connected" /\ pc'[o] = "sent" /\ peer[o] \in Peers
      /\ attempts'[o] = Append(attempts[o], peer[o])
      /\ blacklist'[o] = IF attempts[o] = <<>> THEN {} ELSE blacklist[o]
      /\ \A q \in Ops \ {o} : /\ pc'[q] = pc[q] /\ attempts'[q] = attempts[q]
                              /\ blacklist'[q] = blacklist[q]
      /\ UNCHANGED <<link, made, peer, flag, result>>
  BY <1>1 DEF Send, TypeOK, PeerInv, requestVars
<1>3. TypeOK'
  <2>1. attempts' \in [Ops -> Seq(Peers)]
    BY <1>1, <1>2 DEF Send, TypeOK
  <2>2. /\ pc' \in [Ops -> {"choosing", "connecting", "connected", "sent", "retrying",
                           "reconnecting", "done"}]
        /\ blacklist' \in [Ops -> SUBSET Peers]
        /\ fate' \in [Ops -> {"none", "live", "cancelled", "closed", "stuck"}]
        /\ listening' \subseteq Peers \X (1 .. MaxLinks)
    BY <1>1 DEF Send, TypeOK
  <2> QED
    BY <1>1, <2>1, <2>2 DEF Send, TypeOK, requestVars
<1>4. LinkInv' /\ PeerInv' /\ TimeoutInv'
  BY <1>1, <1>2 DEF LinkInv, PeerInv, TimeoutInv
<1>5. /\ Len(attempts'[o]) = Len(attempts[o]) + 1
      /\ \A k \in 1 .. Len(attempts[o]) : attempts'[o][k] = attempts[o][k]
      /\ attempts'[o][Len(attempts[o]) + 1] = peer[o]
      /\ Len(attempts[o]) \in Nat
      /\ attempts[o] = <<>> <=> Len(attempts[o]) = 0
  BY <1>1, <1>2 DEF TypeOK
<1>6. CountInv'
  <2> SUFFICES ASSUME NEW q \in Ops PROVE Counted(q, pc'[q], attempts'[q])
    BY DEF CountInv, Counted, Limit
  <2>1. Counted(q, pc[q], attempts[q]) /\ Limit(q) \in Nat
    BY <1>1, LimitIsNat DEF CountInv
  <2>2. CASE q # o
    BY <2>1, <2>2, <1>2
  <2>3. CASE q = o
    BY <2>1, <2>3, <1>2, <1>5 DEF Counted
  <2> QED
    BY <2>2, <2>3
<1>7. UsedInv'
  <2> SUFFICES ASSUME NEW q \in Ops
               PROVE  RuledOut(pc'[q], attempts'[q], blacklist'[q], peer[q])
    BY <1>2 DEF UsedInv, RuledOut
  <2>1. RuledOut(pc[q], attempts[q], blacklist[q], peer[q])
    BY <1>1 DEF UsedInv
  <2>2. CASE q # o
    BY <2>1, <2>2, <1>2
  <2>3. CASE q = o
    <3>1. \A k \in 1 .. Len(attempts[o]) :
            /\ attempts[o][k] # peer[o]
            /\ attempts[o][k] \in blacklist'[o]
      BY <2>1, <2>3, <1>2, <1>5 DEF RuledOut
    <3>2. \A k \in 1 .. Len(attempts'[o]) :
            k = Len(attempts[o]) + 1 \/ k \in 1 .. Len(attempts[o])
      BY <1>5
    <3>3. \A j, k \in 1 .. Len(attempts'[o]) : attempts'[o][j] = attempts'[o][k] => j = k
      <4> SUFFICES ASSUME NEW j \in 1 .. Len(attempts'[o]), NEW k \in 1 .. Len(attempts'[o]),
                          attempts'[o][j] = attempts'[o][k]
                   PROVE  j = k
        OBVIOUS
      <4>1. CASE j \in 1 .. Len(attempts[o]) /\ k \in 1 .. Len(attempts[o])
        BY <4>1, <2>1, <2>3, <1>5 DEF RuledOut
      <4>2. CASE j = Len(attempts[o]) + 1 \/ k = Len(attempts[o]) + 1
        BY <4>2, <3>1, <3>2, <1>5
      <4> QED
        BY <3>2, <4>1, <4>2
    <3> QED
      BY <3>1, <3>2, <3>3, <2>3, <1>2, <1>5 DEF RuledOut
  <2> QED
    BY <2>2, <2>3
<1> QED
  BY <1>3, <1>4, <1>6, <1>7 DEF Inv

\* A failed attempt rules its peer out; a retry is only asked for when an attempt is
\* left and the flag allows it.
LEMMA FailKeeps ==
  ASSUME Inv, NEW o \in Ops, NEW error \in Errors, SendFails(o, error)
  PROVE  Inv'
<1>1. TypeOK /\ LinkInv /\ PeerInv /\ CountInv /\ UsedInv /\ TimeoutInv
  BY DEF Inv
<1>2. /\ pc[o] = "sent" /\ result'[o] = error /\ peer[o] \in Peers
      /\ pc'[o] = IF should_retry(o, error) THEN "retrying" ELSE "done"
      /\ blacklist'[o] = blacklist[o] \cup {peer[o]}
      /\ \A q \in Ops \ {o} : /\ pc'[q] = pc[q] /\ result'[q] = result[q]
                              /\ blacklist'[q] = blacklist[q]
      /\ UNCHANGED <<link, made, peer, flag, attempts>>
  BY <1>1 DEF SendFails, TypeOK, PeerInv, requestVars, linkVars, Used
<1>3. TypeOK'
  <2>1. /\ pc' \in [Ops -> {"choosing", "connecting", "connected", "sent", "retrying",
                           "reconnecting", "done"}]
        /\ fate' \in [Ops -> {"none", "live", "cancelled", "closed", "stuck"}]
        /\ result' \in [Ops -> Errors \cup {"none", "response", "NoAvailablePeerError",
                                            "connect", "AttributeError"}]
    BY <1>1 DEF SendFails, TypeOK
  <2>2. blacklist' \in [Ops -> SUBSET Peers]
    BY <1>1, <1>2 DEF SendFails, TypeOK, Used
  <2> QED
    BY <1>1, <2>1, <2>2 DEF SendFails, TypeOK, requestVars, linkVars
<1>4. LinkInv' /\ PeerInv'
  BY <1>1, <1>2 DEF LinkInv, PeerInv
<1>5. TimeoutInv'
  BY <1>1, <1>2 DEF TimeoutInv, should_retry, should_retry_on_error
<1>6. Counted(o, pc'[o], attempts[o])
  <2>1. Len(attempts[o]) \in 1 .. Limit(o) + 1 /\ Limit(o) \in Nat
    BY <1>1, <1>2, LimitIsNat DEF CountInv, Counted
  <2>2. should_retry(o, error) => Len(attempts[o]) - 1 # Limit(o)
    BY DEF should_retry
  <2> QED
    BY <2>1, <2>2, <1>2 DEF Counted
<1>7. RuledOut(pc'[o], attempts[o], blacklist'[o], peer[o])
  BY <1>1, <1>2 DEF UsedInv, RuledOut
<1>8. CountInv'
  <2> SUFFICES ASSUME NEW q \in Ops PROVE Counted(q, pc'[q], attempts'[q])
    BY DEF CountInv, Counted, Limit
  <2> QED
    BY <1>1, <1>2, <1>6 DEF CountInv
<1>9. UsedInv'
  <2> SUFFICES ASSUME NEW q \in Ops
               PROVE  RuledOut(pc'[q], attempts'[q], blacklist'[q], peer'[q])
    BY DEF UsedInv, RuledOut
  <2> QED
    BY <1>1, <1>2, <1>7 DEF UsedInv
<1> QED
  BY <1>3, <1>4, <1>5, <1>8, <1>9 DEF Inv

LEMMA InvStep == Inv /\ [Next]_vars => Inv'
<1> SUFFICES ASSUME Inv, [Next]_vars PROVE Inv'
  OBVIOUS
<1>1. TypeOK /\ LinkInv /\ PeerInv
  BY DEF Inv
<1> USE ClientAssumption
<1>2. ASSUME NEW o \in Ops, GetPeerConnection(o) PROVE Inv'
  <2>1. CASE \E p \in Choices(o) : Connect(o, p, "connecting")
    BY <1>2, <2>1, ConnectKeeps DEF GetPeerConnection
  <2>2. CASE /\ End(o, "NoAvailablePeerError")
             /\ UNCHANGED <<linkVars, requestVars, peer, conn, fate, blacklist, attempts>>
    <3>1. TypeOK' /\ LinkInv'
      BY <1>1, <2>2 DEF TypeOK, LinkInv, End, linkVars, requestVars
    <3> QED
      BY <3>1, <1>1, <2>2, MovesKeep DEF TypeOK, End, linkVars, requestVars
  <2> QED
    BY <1>2, <2>1, <2>2 DEF GetPeerConnection
<1>3. ASSUME NEW o \in Ops, PrepareNextRequest(o) PROVE Inv'
  <2>1. CASE \E p \in Choices(o) : Connect(o, p, "reconnecting")
    BY <1>3, <2>1, ConnectKeeps DEF PrepareNextRequest
  <2>2. CASE /\ pc' = [pc EXCEPT ![o] = "done"]
             /\ UNCHANGED <<linkVars, requestVars, peer, conn, fate, blacklist, attempts, result>>
    <3>1. TypeOK' /\ LinkInv'
      BY <1>1, <2>2 DEF TypeOK, LinkInv, linkVars, requestVars
    <3> QED
      BY <3>1, <1>1, <2>2, MovesKeep DEF TypeOK, linkVars, requestVars
  <2> QED
    BY <1>3, <2>1, <2>2 DEF PrepareNextRequest
<1>4. ASSUME NEW o \in Ops, SendResponse(o) PROVE Inv'
  <2>1. TypeOK' /\ LinkInv'
    BY <1>1, <1>4 DEF TypeOK, LinkInv, SendResponse, End, linkVars, requestVars
  <2> QED
    BY <2>1, <1>1, <1>4, MovesKeep DEF TypeOK, SendResponse, End, linkVars, requestVars
<1>5. ASSUME NEW o \in Ops, SendError(o) PROVE Inv'
  <2>1. PossibleErrors(o) \subseteq Errors
    BY DEF PossibleErrors, Errors
  <2> QED
    BY <2>1, <1>5, FailKeeps DEF SendError
<1>6. ASSUME NEW o \in Ops, StreamClosed(o) PROVE Inv'
  <2>1. CASE HasMessage
    BY <2>1, <1>6, FailKeeps DEF StreamClosed, Errors
  <2>2. CASE ~HasMessage
    <3>1. TypeOK' /\ LinkInv'
      BY <1>1, <1>6, <2>2 DEF TypeOK, LinkInv, StreamClosed, End, linkVars, requestVars
    <3> QED
      BY <3>1, <1>1, <1>6, <2>2, MovesKeep DEF TypeOK, StreamClosed, End, linkVars, requestVars
  <2> QED
    BY <2>1, <2>2
<1>7. ASSUME NEW p \in Peers, ConnectSucceeds(p) PROVE Inv'
  <2>1. made[p] + 1 \in 1 .. MaxLinks
    BY <1>1, <1>7 DEF TypeOK, ConnectSucceeds
  <2>2. TypeOK'
    <3>1. /\ link' \in [Peers -> {"down", "connecting", "up"}]
          /\ made' \in [Peers -> 0 .. MaxLinks]
          /\ pc' \in [Ops -> {"choosing", "connecting", "connected", "sent", "retrying",
                              "reconnecting", "done"}]
          /\ conn' \in [Ops -> 0 .. MaxLinks]
      BY <1>1, <1>7, <2>1 DEF TypeOK, ConnectSucceeds
    <3> QED
      BY <3>1, <1>1, <1>7 DEF TypeOK, ConnectSucceeds, requestVars
  <2>3. LinkInv'
    BY <1>1, <1>7, <2>1 DEF TypeOK, LinkInv, ConnectSucceeds
  <2> QED
    BY <2>2, <2>3, <1>7, MovesKeep DEF ConnectSucceeds, requestVars, Waiting
<1>8. ASSUME NEW p \in Peers, ConnectFails(p) PROVE Inv'
  <2>1. TypeOK'
    <3>1. /\ link' \in [Peers -> {"down", "connecting", "up"}]
          /\ pc' \in [Ops -> {"choosing", "connecting", "connected", "sent", "retrying",
                              "reconnecting", "done"}]
          /\ result' \in [Ops -> Errors \cup {"none", "response", "NoAvailablePeerError",
                                              "connect", "AttributeError"}]
          /\ blacklist' \in [Ops -> SUBSET Peers]
      BY <1>1, <1>8 DEF TypeOK, ConnectFails, AfterFailure
    <3> QED
      BY <3>1, <1>1, <1>8 DEF TypeOK, ConnectFails, requestVars
  <2>2. LinkInv'
    BY <1>1, <1>8 DEF TypeOK, LinkInv, ConnectFails
  <2> QED
    BY <2>1, <2>2, <1>8, MovesKeep DEF ConnectFails, requestVars, Waiting
<1>9. ASSUME NEW p \in Peers, ConnectBreaks(p) PROVE Inv'
  <2>1. TypeOK' /\ LinkInv'
    BY <1>1, <1>9 DEF TypeOK, LinkInv, ConnectBreaks, requestVars, Errors
  <2> QED
    BY <2>1, <1>9, MovesKeep DEF ConnectBreaks, requestVars
<1>10. ASSUME NEW p \in Peers, IncomingConnection(p) PROVE Inv'
  <2>1. made[p] + 1 \in 1 .. MaxLinks
    BY <1>1, <1>10 DEF TypeOK, IncomingConnection
  <2>2. TypeOK' /\ LinkInv'
    BY <1>1, <1>10, <2>1 DEF TypeOK, LinkInv, IncomingConnection, requestVars
  <2> QED
    BY <2>2, <1>10, MovesKeep DEF IncomingConnection, requestVars
<1>11. ASSUME NEW p \in Peers, ConnectionLost(p) PROVE Inv'
  <2>1. made[p] \in 1 .. MaxLinks
    BY <1>1, <1>11 DEF TypeOK, LinkInv, ConnectionLost
  <2>2. TypeOK' /\ LinkInv'
    BY <1>1, <1>11, <2>1 DEF TypeOK, LinkInv, ConnectionLost, requestVars
  <2> QED
    BY <2>2, <1>11, MovesKeep DEF ConnectionLost, requestVars
<1>12. CASE UNCHANGED vars
  BY <1>12 DEF Inv, TypeOK, LinkInv, PeerInv, CountInv, Counted, Limit, UsedInv, RuledOut,
               TimeoutInv, vars
<1> QED
  BY <1>2, <1>3, <1>4, <1>5, <1>6, <1>7, <1>8, <1>9, <1>10, <1>11, <1>12, SendKeeps
  DEF Next, OpStep, PeerStep

LEMMA Invariance == Spec => []Inv
  BY InvInit, InvStep, PTL DEF Spec

\* Every variable of PeerClientOperation and of the connections it uses keeps its type:
\* a request holds a connection that exists, and is sent to host-ports only.
THEOREM ClientTypeCorrect == Spec => []TypeOK
<1>1. Inv => TypeOK
  BY DEF Inv
<1> QED
  BY <1>1, Invariance, PTL

\* send_with_retry never sends a request more than retry_limit + 1 times, nor one that is
\* streamed or has a hostport more than once, for any number of requests and peers.
THEOREM AttemptsAreBounded == Spec => []AttemptsBounded
<1>1. Inv => AttemptsBounded
  <2> SUFFICES ASSUME Inv, NEW o \in Ops PROVE Len(attempts[o]) <= Limit(o) + 1
    BY DEF AttemptsBounded
  <2>1. /\ Counted(o, pc[o], attempts[o]) /\ Limit(o) \in Nat
        /\ pc[o] \in {"choosing", "connecting", "connected", "sent", "retrying",
                      "reconnecting", "done"}
        /\ Len(attempts[o]) \in Nat
    BY LimitIsNat DEF Inv, CountInv, TypeOK
  <2> QED
    BY <2>1 DEF Counted
<1> QED
  BY <1>1, Invariance, PTL

\* The blacklist of send_with_retry does what it is for: whatever the group's peers do,
\* a request is sent to no peer twice.
THEOREM NoPeerTwice == Spec => []NeverTwiceToAPeer
<1>1. Inv => NeverTwiceToAPeer
  <2> SUFFICES ASSUME Inv, NEW o \in Ops,
                      NEW j \in DOMAIN attempts[o], NEW k \in DOMAIN attempts[o],
                      attempts[o][j] = attempts[o][k]
               PROVE  j = k
    BY DEF NeverTwiceToAPeer
  <2>1. attempts[o] \in Seq(Peers) /\ RuledOut(pc[o], attempts[o], blacklist[o], peer[o])
    BY DEF Inv, TypeOK, UsedInv
  <2> QED
    BY <2>1 DEF RuledOut
<1> QED
  BY <1>1, Invariance, PTL

\* should_retry_on_error keeps a request that timed out from a second peer unless its
\* flag asks for it.
THEOREM TimeoutsAreNotResent == Spec => NoResendAfterTimeout
<1> DEFINE Resent == \A o \in Ops : result[o] = "timeout" /\ flag[o] \in {"c", "n"}
                                     => attempts'[o] = attempts[o]
<1>1. Inv /\ [Next]_vars => [Resent]_vars
  <2> SUFFICES ASSUME Inv, Next, NEW o \in Ops, pc[o] = "done" PROVE attempts'[o] = attempts[o]
    BY DEF Inv, TimeoutInv
  <2>1. attempts \in [Ops -> Seq(Peers)]
    BY DEF Inv, TypeOK
  <2>2. ASSUME NEW q \in Ops, OpStep(q) PROVE attempts'[o] = attempts[o]
    <3>1. CASE Send(q)
      BY <3>1, <2>1 DEF Send
    <3>2. CASE ~Send(q)
      BY <2>2, <3>2 DEF OpStep, GetPeerConnection, PrepareNextRequest, Connect, SendResponse,
                        SendError, StreamClosed, SendFails
    <3> QED
      BY <3>1, <3>2
  <2>3. ASSUME NEW p \in Peers, PeerStep(p) PROVE attempts'[o] = attempts[o]
    BY <2>3 DEF PeerStep, ConnectSucceeds, ConnectFails, ConnectBreaks, IncomingConnection,
                ConnectionLost
  <2> QED
    BY <2>2, <2>3 DEF Next
<1> QED
  BY <1>1, Invariance, PTL DEF Spec, NoResendAfterTimeout
=============================================================================
