-------------------------- MODULE ConnectionProofs --------------------------
(***************************************************************************)
(* What Connection promises for any number of calls, any bound on ids,     *)
(* frames and noise.                                                       *)
(***************************************************************************)
EXTENDS Connection, FiniteSetTheorems, FunctionTheorems, TLAPS

\* Ids stay in range: a counter modulo MaxId.
LEMMA NextIdType == \A s \in Ids : NextMessageId(s) \in Ids
  BY ConnectionAssumption DEF Ids, NextMessageId

\* What the head and the tail of the wire are made of.
LEMMA WireFacts ==
  ASSUME NEW w \in Seq(Frames), w # <<>>
  PROVE  /\ Head(w) \in Frames
         /\ Tail(w) \in Seq(Frames)
         /\ Head(w) = w[1]
         /\ 1 \in DOMAIN w
         /\ \A k \in DOMAIN Tail(w) : k + 1 \in DOMAIN w /\ Tail(w)[k] = w[k + 1]
  OBVIOUS

\* Type correctness of every step, whatever the constants are.
LEMMA TypeStep == TypeOK /\ [Next]_vars => TypeOK'
<1> SUFFICES ASSUME TypeOK, [Next]_vars PROVE TypeOK'
  OBVIOUS
<1> USE DEF TypeOK
<1>1. ASSUME NEW r \in Requests, SendRequest(r) PROVE TypeOK'
  <2>1. NextMessageId(sequence) \in Ids
    BY NextIdType
  <2>2. CASE pending[NextMessageId(sequence)] # NoReq
    BY <1>1, <2>1, <2>2 DEF SendRequest, peer, assembly, Answers
  <2>3. CASE pending[NextMessageId(sequence)] = NoReq
    BY <1>1, <2>1, <2>3, ZenonT(30) DEF SendRequest, peer, assembly
  <2> QED
    BY <2>2, <2>3
<1>2. ASSUME NEW r \in Requests, Transmit(r) PROVE TypeOK'
  <2>1. NextMessageId(sequence) \in Ids
    BY NextIdType
  <2> QED
    BY <1>2, <2>1 DEF Transmit, futures, assembly
<1>3. ASSUME NEW r \in Requests, StreamFails(r) PROVE TypeOK'
  <2>1. NextMessageId(sequence) \in Ids
    BY NextIdType
  <2>2. sequence' \in Ids
    BY <1>3, <2>1 DEF StreamFails
  <2> QED
    BY <1>3, <2>2 DEF StreamFails, assembly, peer, Outcomes
<1>4. ASSUME NEW r \in Requests, AdaptResult(r) PROVE TypeOK'
  <2>1. /\ answer' = [answer EXCEPT ![r] = answer'[r]]
        /\ answer'[r] \in Answers
    BY <1>4 DEF AdaptResult, Answers
  <2> QED
    BY <1>4, <2>1 DEF AdaptResult, assembly, peer
<1>5. ASSUME NEW r \in Requests, RemoveOutstandingRequest(r) PROVE TypeOK'
  BY <1>5 DEF RemoveOutstandingRequest, assembly, peer
<1>6. ASSUME NEW r \in Requests, RequestTimedOut(r) PROVE TypeOK'
  BY <1>6 DEF RequestTimedOut, assembly, peer, Outcomes
<1>7. ASSUME NEW i \in Ids, Forget(i) PROVE TypeOK'
  BY <1>7 DEF Forget, futures, assembly, peer
<1>8. CASE Step
  BY <1>8 DEF Step, futures, assembly, peer
<1>9. ASSUME NEW m, Take(m)
      PROVE  /\ m \in Frames /\ wire' \in Seq(Frames)
             /\ loop' \in {"reading", "step", "stopped"}
             /\ UNCHANGED <<stream, closed, sequence, id, answer, cleaned,
                            tombstones, callback, sent, remote, wireId, noise>>
  BY <1>9, WireFacts DEF Take
<1>10. CASE OnMessageIgnored
  BY <1>10, <1>9 DEF OnMessageIgnored, assembly
<1>11. ASSUME NEW r \in Requests, NEW q \in Requests \cup {NoReq}, SetResult(r, q)
       PROVE  /\ future' \in [Requests -> {"unsent", "running"} \cup Outcomes]
              /\ source' \in [Requests -> Requests \cup {NoReq}]
  BY <1>11 DEF SetResult, Outcomes
<1>12. ASSUME NEW m \in Frames, PopUnlessStreaming(m)
       PROVE  pending' \in [Ids -> Requests \cup {NoReq}]
  BY <1>12 DEF PopUnlessStreaming, Frames
<1>13. CASE OnCallResponse
  <2>1. PICK m : /\ Take(m) /\ ~Passes(m)
                 /\ IF ~m.ok
                    THEN UNCHANGED <<pending, future, source, assembly>>
                    ELSE /\ frames' = [frames EXCEPT ![pending[m.id]] = 1]
                         /\ body' = [body EXCEPT ![pending[m.id]] =
                                       IF m.more THEN "open" ELSE "complete"]
                         /\ buffer' = IF m.more
                                      THEN [buffer EXCEPT ![m.id] = pending[m.id]]
                                      ELSE buffer
                         /\ PopUnlessStreaming(m)
                         /\ SetResult(pending[m.id], m.of)
    BY <1>13 DEF OnCallResponse
  <2>2. m \in Frames /\ pending[m.id] \in Requests
    BY <2>1, <1>9 DEF Passes, Frames
  <2>3. m.id \in Ids /\ m.of \in Requests \cup {NoReq}
    BY <2>2 DEF Frames
  <2>4. CASE ~m.ok
    BY <2>1, <2>4, <1>9 DEF assembly
  <2>5. CASE m.ok
    <3>0. frames' = [frames EXCEPT ![pending[m.id]] = 1]
      BY <2>1, <2>5
    <3>1. frames' \in [Requests -> Nat]
      BY <2>2, <3>0
    <3>2. body' \in [Requests -> {"none", "open", "complete", "failed"}]
      BY <2>1, <2>2, <2>5
    <3>3. buffer' \in [Ids -> Requests \cup {NoReq}]
      BY <2>1, <2>2, <2>3, <2>5
    <3> QED
      BY <2>1, <2>2, <2>3, <2>5, <3>1, <3>2, <3>3, <1>9, <1>11, <1>12
  <2> QED
    BY <2>4, <2>5
<1>14. CASE OnCallResponseContinue
  <2>1. PICK m : /\ Take(m) /\ ~Passes(m)
                 /\ \/ UNCHANGED <<pending, future, source, assembly>>
                    \/ /\ buffer[m.id] # NoReq
                       /\ body' = [body EXCEPT ![buffer[m.id]] = "failed"]
                       /\ UNCHANGED <<pending, future, source, buffer, frames>>
                    \/ /\ buffer[m.id] # NoReq
                       /\ frames' = [frames EXCEPT ![buffer[m.id]] = @ + 1]
                       /\ body' = [body EXCEPT ![buffer[m.id]] =
                                     IF m.more THEN @ ELSE "complete"]
                       /\ buffer' = IF m.more THEN buffer
                                    ELSE [buffer EXCEPT ![m.id] = NoReq]
                       /\ PopUnlessStreaming(m)
                       /\ UNCHANGED <<future, source>>
    BY <1>14 DEF OnCallResponseContinue
  <2>2. m \in Frames /\ m.id \in Ids
    BY <2>1, <1>9 DEF Frames
  <2>3. CASE UNCHANGED <<pending, future, source, assembly>>
    BY <2>1, <2>3, <1>9 DEF assembly
  <2>4. CASE /\ buffer[m.id] # NoReq
             /\ body' = [body EXCEPT ![buffer[m.id]] = "failed"]
             /\ UNCHANGED <<pending, future, source, buffer, frames>>
    BY <2>1, <2>2, <2>4, <1>9
  <2>5. CASE /\ buffer[m.id] # NoReq
             /\ frames' = [frames EXCEPT ![buffer[m.id]] = @ + 1]
             /\ body' = [body EXCEPT ![buffer[m.id]] =
                           IF m.more THEN @ ELSE "complete"]
             /\ buffer' = IF m.more THEN buffer
                          ELSE [buffer EXCEPT ![m.id] = NoReq]
             /\ PopUnlessStreaming(m)
             /\ UNCHANGED <<future, source>>
    <3>1. buffer[m.id] \in Requests
      BY <2>2, <2>5
    <3>2. frames' \in [Requests -> Nat]
      BY <2>5, <3>1
    <3>3. body' \in [Requests -> {"none", "open", "complete", "failed"}]
      BY <2>5, <3>1
    <3> QED
      BY <2>1, <2>2, <2>5, <3>2, <3>3, <1>9, <1>12
  <2> QED
    BY <2>1, <2>3, <2>4, <2>5
<1>15. CASE OnError
  <2>1. PICK m : /\ Take(m)
                 /\ pending' = [pending EXCEPT ![m.id] = NoReq]
                 /\ IF future[pending[m.id]] = "running"
                    THEN /\ future' = [future EXCEPT ![pending[m.id]] = "remote_error"]
                         /\ UNCHANGED <<source, assembly>>
                    ELSE /\ body' = [r \in Requests |->
                                       IF r = buffer[m.id] THEN "failed" ELSE body[r]]
                         /\ buffer' = [buffer EXCEPT ![m.id] = NoReq]
                         /\ UNCHANGED <<future, source, frames>>
    BY <1>15 DEF OnError
  <2> QED
    BY <2>1, <1>9 DEF assembly, Outcomes
<1>16. CASE OnForeignFrame
  <2>1. PICK m : /\ Take(m) /\ ~Passes(m) /\ SetResult(pending[m.id], m.of)
                 /\ PopUnlessStreaming(m) /\ UNCHANGED assembly
    BY <1>16 DEF OnForeignFrame
  <2>2. m \in Frames /\ pending[m.id] \in Requests /\ m.of \in Requests \cup {NoReq}
    BY <2>1, <1>9 DEF Passes, Frames
  <2> QED
    BY <2>1, <2>2, <1>9, <1>11, <1>12 DEF assembly
<1>17. CASE OnReadError
  BY <1>17 DEF OnReadError, futures, assembly, peer
<1>18. CASE Close
  BY <1>18 DEF Close, futures, assembly, peer
<1>19. CASE OnClose
  BY <1>19 DEF OnClose, FailWithNetworkError, assembly, peer, Outcomes
<1>20. ASSUME NEW m \in Frames, Send(m)
       PROVE  /\ wire' \in Seq(Frames)
              /\ UNCHANGED <<stream, closed, loop, sequence, futures, tombstones,
                             assembly, callback, wireId>>
  BY <1>20 DEF Send
<1>21. ASSUME NEW r \in Requests, RemoteResponds(r) PROVE TypeOK'
  <2>1. PICK more \in BOOLEAN, ok \in BOOLEAN :
          /\ Send([type |-> IF remote[r] = "called" THEN "CALL_RES"
                            ELSE "CALL_RES_CONTINUE",
                   id |-> wireId[r], more |-> more, ok |-> ok, of |-> r])
          /\ remote' = [remote EXCEPT ![r] =
                          IF more THEN "streaming" ELSE "done"]
    BY <1>21 DEF RemoteResponds
  <2> DEFINE f == [type |-> IF remote[r] = "called" THEN "CALL_RES"
                            ELSE "CALL_RES_CONTINUE",
                   id |-> wireId[r], more |-> more, ok |-> ok, of |-> r]
  <2>2. f \in Frames
    BY DEF Frames
  <2>3. sent' = [sent EXCEPT ![r] = @ + 1] /\ UNCHANGED noise
    BY <1>21 DEF RemoteResponds
  <2> HIDE DEF f
  <2> QED
    BY <2>1, <2>2, <2>3, <1>20 DEF futures, assembly, f
<1>22. ASSUME NEW r \in Requests, RemoteFails(r) PROVE TypeOK'
  <2> DEFINE f == [type |-> "ERROR", id |-> wireId[r], more |-> FALSE,
                   ok |-> TRUE, of |-> r]
  <2>1. f \in Frames
    BY DEF Frames
  <2>2. /\ Send(f) /\ remote' = [remote EXCEPT ![r] = "done"]
        /\ UNCHANGED <<sent, noise>>
    BY <1>22 DEF RemoteFails
  <2> HIDE DEF f
  <2> QED
    BY <2>1, <2>2, <1>20 DEF futures, assembly
<1>23. CASE RemoteNoise
  <2>1. PICK t \in Noise, i \in Ids :
          Send([type |-> t, id |-> i, more |-> FALSE, ok |-> TRUE, of |-> NoReq])
    BY <1>23 DEF RemoteNoise
  <2> DEFINE f == [type |-> t, id |-> i, more |-> FALSE, ok |-> TRUE, of |-> NoReq]
  <2>2. f \in Frames
    BY ConnectionAssumption DEF Frames
  <2>3. noise' = noise + 1 /\ UNCHANGED <<sent, remote>>
    BY <1>23 DEF RemoteNoise
  <2>4. Send(f)
    BY <2>1
  <2> HIDE DEF f
  <2> QED
    BY <2>2, <2>3, <2>4, <1>20 DEF futures, assembly
<1>24. CASE RemoteClose
  BY <1>24 DEF RemoteClose, futures, assembly, peer
<1>25. CASE UNCHANGED vars
  BY <1>25 DEF vars, futures, assembly, peer
<1> QED
  BY <1>1, <1>2, <1>3, <1>4, <1>5, <1>6, <1>7, <1>8, <1>10, <1>13, <1>14, <1>15,
     <1>16, <1>17, <1>18, <1>19, <1>21, <1>22, <1>23, <1>24, <1>25
     DEF Next, Call, OnMessage, Remote

\* Every state of a connection is well formed: ids stay below MaxId, and every
\* dictionary entry names a request.
THEOREM TypeCorrect == Spec => []TypeOK
<1>1. Init => TypeOK
  <2>1. 0 \in Ids /\ <<>> \in Seq(Frames)
    BY ConnectionAssumption DEF Ids
  <2> QED
    BY <2>1 DEF Init, TypeOK
<1> QED
  BY <1>1, TypeStep, PTL DEF Spec

-----------------------------------------------------------------------------
(* The inductive invariant, for a connection on which ids do not wrap.     *)

Made == {r \in Requests : future[r] # "unsent"}

\* A call that was not made has no future; an answer was taken from the future.
FutureInv ==
  \A r \in Requests :
    /\ answer[r] = "unsent" => future[r] = "unsent"
    /\ answer[r] \in {"response", "error"} => future[r] \in Outcomes

\* Ids are drawn from the counter, each for one call.
IdInv ==
  /\ \A r \in Made : id[r] > 0 /\ id[r] <= sequence
  /\ \A r, s \in Made : id[r] = id[s] => r = s

\* The dictionary holds every running call, and every entry is under its own id.
PendingInv ==
  /\ \A i \in Ids : pending[i] # NoReq => pending[i] \in Made /\ id[pending[i]] = i
  /\ \A r \in Requests : future[r] = "running" => pending[id[r]] = r

\* A tombstone's id was drawn, by a call that no longer runs.
TombstoneInv ==
  \A i \in tombstones :
    i <= sequence /\ \A r \in Requests : future[r] = "running" => id[r] # i

\* The remote knows each call by its own id and answers under that id.
WireInv ==
  /\ \A r \in Requests : remote[r] # "idle" => r \in Made /\ wireId[r] = id[r]
  /\ \A k \in DOMAIN wire :
       IF wire[k].of = NoReq THEN wire[k].type \in Noise
       ELSE remote[wire[k].of] # "idle" /\ wire[k].id = wireId[wire[k].of]

\* A future resolved with a response was resolved with its own, and so was one whose
\* response the caller has, whatever _on_close stored in it since.
SourceInv ==
  "PING_REQ" \notin Noise =>
    \A r \in Requests :
      future[r] = "response" \/ answer[r] = "response" => source[r] = r

\* A response that is being assembled belongs to a call that is complete.
BufferInv ==
  \A i \in Ids : buffer[i] # NoReq =>
    future[buffer[i]] \in Outcomes /\ id[buffer[i]] = i

Rest ==
  /\ FutureInv /\ IdInv /\ PendingInv /\ TombstoneInv /\ WireInv /\ SourceInv
  /\ BufferInv
Inv == TypeOK /\ Rest

\* A frame the loop takes: what it is, whose it is, and what stays on the wire.
LEMMA TakeFacts ==
  ASSUME Inv, NEW m, Take(m)
  PROVE  /\ m \in Frames /\ m.id \in Ids /\ m.of \in Requests \cup {NoReq}
         /\ m.of # NoReq =>
              m.of \in Made /\ m.id = id[m.of]
         /\ m.of = NoReq => m.type \in Noise
         /\ ~Passes(m) => pending[m.id] \in Requests /\ pending[m.id] \in Made
         /\ ~Passes(m) /\ m.of # NoReq => pending[m.id] = m.of
         /\ future' = future => WireInv'
         /\ (\A r \in Made : future'[r] # "unsent") => WireInv'
<1> USE DEF Inv, Rest, TypeOK
<1>1. /\ m \in Frames /\ m = wire[1] /\ 1 \in DOMAIN wire
      /\ wire' = Tail(wire) /\ UNCHANGED <<id, remote, wireId>>
      /\ \A k \in DOMAIN wire' : k + 1 \in DOMAIN wire /\ wire'[k] = wire[k + 1]
  BY WireFacts DEF Take
<1>2. m.id \in Ids /\ m.of \in Requests \cup {NoReq}
  BY <1>1 DEF Frames
<1>3. /\ m.of = NoReq => m.type \in Noise
      /\ m.of # NoReq => remote[m.of] # "idle" /\ m.id = wireId[m.of]
  BY <1>1 DEF WireInv
<1>4. m.of # NoReq => m.of \in Made /\ m.id = id[m.of]
  BY <1>2, <1>3 DEF WireInv
<1>5. ~Passes(m) => pending[m.id] \in Requests /\ pending[m.id] \in Made
                    /\ id[pending[m.id]] = m.id
  BY <1>2 DEF Passes, PendingInv
<1>6. ~Passes(m) /\ m.of # NoReq => pending[m.id] = m.of
  BY <1>4, <1>5 DEF IdInv
<1>7. ASSUME \A r \in Made : future'[r] # "unsent"
      PROVE  WireInv'
  <2>1. \A k \in DOMAIN wire' :
          IF wire'[k].of = NoReq THEN wire'[k].type \in Noise
          ELSE remote[wire'[k].of] # "idle" /\ wire'[k].id = wireId[wire'[k].of]
    BY <1>1 DEF WireInv
  <2>2. \A r \in Requests :
          remote[r] # "idle" => future'[r] # "unsent" /\ wireId[r] = id[r]
    BY <1>7 DEF WireInv
  <2> QED
    BY <1>1, <2>1, <2>2 DEF WireInv, Made
<1> QED
  BY <1>1, <1>2, <1>3, <1>4, <1>5, <1>6, <1>7 DEF Made

\* Steps that leave the futures, the dictionary and the remote's knowledge alone.
LEMMA RestUnchanged ==
  ASSUME Inv, futures' = futures, sequence' = sequence,
         tombstones' \subseteq tombstones, UNCHANGED <<remote, wireId, wire, buffer>>
  PROVE  Rest'
  BY DEF Inv, Rest, FutureInv, IdInv, PendingInv, TombstoneInv, WireInv, SourceInv,
         BufferInv, Made, futures

\* The local half of an answered call: calls that were made get an outcome and
\* completed calls may leave the dictionary.
LEMMA CompletingKeepsInv ==
  ASSUME Inv, TypeOK',
         UNCHANGED <<id, sequence, answer, tombstones>>,
         \A r \in Requests : future'[r] = future[r]
                             \/ (future[r] # "unsent" /\ future'[r] \in Outcomes),
         \A i \in Ids : pending'[i] = pending[i]
                       \/ (pending'[i] = NoReq /\ (pending[i] # NoReq =>
                                                 future'[pending[i]] # "running"))
  PROVE  FutureInv' /\ IdInv' /\ PendingInv' /\ TombstoneInv'
<1> USE DEF Inv, Rest, TypeOK, Made
<1>1. FutureInv'
  BY DEF FutureInv, Outcomes
<1>2. IdInv'
  <2>1. Made' = Made
    BY DEF Outcomes
  <2> QED
    BY <2>1 DEF IdInv
<1>3. PendingInv'
  <2>1. ASSUME NEW i \in Ids, pending'[i] # NoReq
        PROVE  pending'[i] \in Made' /\ id'[pending'[i]] = i
    <3>1. pending'[i] = pending[i]
      BY <2>1
    <3>2. pending[i] \in Requests /\ future[pending[i]] # "unsent"
          /\ id[pending[i]] = i
      BY <2>1, <3>1 DEF PendingInv
    <3> QED
      BY <3>1, <3>2 DEF Outcomes
  <2>2. ASSUME NEW r \in Requests, future'[r] = "running"
        PROVE  pending'[id'[r]] = r
    <3>1. future[r] = "running"
      BY <2>2 DEF Outcomes
    <3>2. id[r] \in Ids /\ pending[id[r]] = r
      BY <3>1 DEF PendingInv
    <3> QED
      BY <2>2, <3>2, ConnectionAssumption
  <2> QED
    BY <2>1, <2>2 DEF PendingInv
<1>4. TombstoneInv'
  BY DEF TombstoneInv, Outcomes
<1> QED
  BY <1>1, <1>2, <1>3, <1>4

\* Every step keeps the invariant, if ids do not wrap.
LEMMA InvStep ==
  ASSUME ~AllowWrap, Inv, [Next]_vars
  PROVE  Inv'
<1>0. TypeOK /\ TypeOK'
  BY TypeStep DEF Inv
<1> SUFFICES Rest'
  BY <1>0 DEF Inv
<1>00. /\ sequence \in Ids /\ tombstones \subseteq Ids
       /\ id \in [Requests -> Ids]
       /\ pending \in [Ids -> Requests \cup {NoReq}]
       /\ buffer \in [Ids -> Requests \cup {NoReq}]
       /\ future \in [Requests -> {"unsent", "running"} \cup Outcomes]
       /\ source \in [Requests -> Requests \cup {NoReq}]
       /\ answer \in [Requests -> {"unsent", "waiting"} \cup Answers]
       /\ remote \in [Requests -> {"idle", "called", "streaming", "done"}]
       /\ wireId \in [Requests -> Ids]
  BY <1>0 DEF TypeOK
<1>1. ASSUME NEW r \in Requests, SendRequest(r) PROVE Rest'
  <2> DEFINE i == NextMessageId(sequence)
  <2>1. i = sequence + 1 /\ i \in Ids /\ i > 0 /\ sequence \in Nat
    <3>1. sequence \in Nat /\ sequence + 1 < MaxId
      BY <1>0, <1>1 DEF TypeOK, SendRequest, MayDraw, Ids
    <3>2. (sequence + 1) % MaxId = sequence + 1
      BY <3>1, ConnectionAssumption
    <3> QED
      BY <3>1, <3>2, ConnectionAssumption DEF NextMessageId, Ids
  <2>2. /\ \A q \in Requests : future[q] # "unsent" => id[q] # i
        /\ pending[i] = NoReq /\ i \notin tombstones /\ r \notin Made
    <3>1. \A q \in Requests : future[q] # "unsent" => id[q] # i
      BY <1>0, <2>1 DEF Inv, Rest, IdInv, TypeOK, Made, Ids
    <3>2. pending[i] = NoReq
      BY <2>1, <3>1 DEF Inv, Rest, PendingInv, Made
    <3>3. i \notin tombstones
      BY <2>1 DEF Inv, Rest, TombstoneInv
    <3>4. r \notin Made
      BY <1>1 DEF Inv, Rest, FutureInv, SendRequest, Made
    <3> QED
      BY <3>1, <3>2, <3>3, <3>4
  <2>3. /\ sequence' = i /\ id' = [id EXCEPT ![r] = i]
        /\ pending' = [pending EXCEPT ![i] = r]
        /\ future' = [future EXCEPT ![r] = "running"]
        /\ answer' = [answer EXCEPT ![r] = "waiting"]
        /\ UNCHANGED <<source, tombstones, remote, wireId, wire, buffer>>
    BY <1>1, <2>2 DEF SendRequest, peer, assembly
  <2> HIDE DEF i
  <2>4. FutureInv'
    BY <1>0, <2>3 DEF Inv, Rest, FutureInv, TypeOK
  <2>5. IdInv'
    <3>1. \A q \in Requests : q # r => id'[q] = id[q] /\ future'[q] = future[q]
      BY <1>0, <2>3 DEF TypeOK
    <3>2. id'[r] = i /\ \A q \in Requests : id[q] \in Nat
      BY <1>0, <2>3 DEF TypeOK, Ids
    <3>3. ASSUME NEW q \in Made'
          PROVE  id'[q] > 0 /\ id'[q] <= sequence' /\ (q # r => id'[q] # i)
      BY <2>1, <2>2, <2>3, <3>1, <3>2 DEF Inv, Rest, IdInv, Made
    <3>4. ASSUME NEW q \in Made', NEW s \in Made', id'[q] = id'[s] PROVE q = s
      BY <3>1, <3>2, <3>3, <3>4 DEF Inv, Rest, IdInv, Made
    <3> QED
      BY <3>3, <3>4 DEF IdInv
  <2>6. PendingInv'
    <3>1. ASSUME NEW j \in Ids, pending'[j] # NoReq
          PROVE  pending'[j] \in Made' /\ id'[pending'[j]] = j
      <4>1. CASE j = i
        BY <1>0, <2>1, <2>3, <4>1 DEF TypeOK, Made
      <4>2. CASE j # i
        <5>1. pending'[j] = pending[j]
          BY <1>0, <2>3, <4>2 DEF TypeOK
        <5>2. pending[j] \in Made /\ id[pending[j]] = j
          BY <3>1, <5>1 DEF Inv, Rest, PendingInv
        <5> QED
          BY <1>0, <2>2, <2>3, <5>1, <5>2 DEF TypeOK, Made
      <4> QED
        BY <4>1, <4>2
    <3>2. ASSUME NEW q \in Requests, future'[q] = "running"
          PROVE  pending'[id'[q]] = q
      <4>1. CASE q = r
        BY <1>0, <2>1, <2>3, <4>1 DEF TypeOK
      <4>2. CASE q # r
        <5>1. future[q] = "running" /\ id'[q] = id[q]
          BY <1>0, <2>3, <3>2, <4>2 DEF TypeOK
        <5>2. pending[id[q]] = q /\ id[q] # i /\ id[q] \in Ids
          BY <1>0, <2>2, <5>1 DEF Inv, Rest, PendingInv, TypeOK
        <5> QED
          BY <1>0, <2>3, <5>1, <5>2 DEF TypeOK
      <4> QED
        BY <4>1, <4>2
    <3> QED
      BY <3>1, <3>2 DEF PendingInv
  <2>7. TombstoneInv'
    BY <1>0, <2>1, <2>2, <2>3 DEF Inv, Rest, TombstoneInv, TypeOK, Ids
  <2>8. WireInv'
    <3>1. \A q \in Requests : remote[q] # "idle" => q # r
      BY <2>2 DEF Inv, Rest, WireInv
    <3>2. \A q \in Requests : q # r => id'[q] = id[q] /\ future'[q] = future[q]
      BY <1>0, <2>3 DEF TypeOK
    <3>3. \A q \in Requests :
            remote'[q] # "idle" => q \in Made' /\ wireId'[q] = id'[q]
      BY <2>3, <3>1, <3>2 DEF Inv, Rest, WireInv, Made
    <3> QED
      BY <2>3, <3>3 DEF Inv, Rest, WireInv
  <2>9. SourceInv'
    BY <1>0, <2>3 DEF Inv, Rest, SourceInv, TypeOK
  <2>10. BufferInv'
    BY <1>00, <2>2, <2>3 DEF Inv, Rest, BufferInv, Made, Outcomes
  <2> QED
    BY <2>4, <2>5, <2>6, <2>7, <2>8, <2>9, <2>10 DEF Rest
<1>2. ASSUME NEW r \in Requests, Transmit(r) PROVE Rest'
  <2>1. id[r] # 0 /\ r \in Made
    BY <1>0, <1>2 DEF Inv, Rest, IdInv, Transmit, Made, TypeOK, Ids
  <2>2. /\ sequence' = sequence /\ wireId' = [wireId EXCEPT ![r] = id[r]]
        /\ remote[r] = "idle" /\ remote' = [remote EXCEPT ![r] = "called"]
        /\ UNCHANGED <<futures, tombstones, wire, buffer>>
    BY <1>2, <2>1 DEF Transmit, assembly
  <2>3. WireInv'
    <3>1. \A q \in Requests :
            remote'[q] # "idle" => q \in Made' /\ wireId'[q] = id'[q]
      BY <1>0, <2>1, <2>2 DEF Inv, Rest, WireInv, TypeOK, Made, futures
    <3>2. ASSUME NEW k \in DOMAIN wire
          PROVE  IF wire[k].of = NoReq THEN wire[k].type \in Noise
                 ELSE remote'[wire[k].of] # "idle"
                      /\ wire[k].id = wireId'[wire[k].of]
      <4>1. wire[k] \in Frames
        BY <1>0, <3>2 DEF TypeOK
      <4>2. wire[k].of \in Requests \cup {NoReq}
        BY <4>1 DEF Frames
      <4> QED
        BY <1>0, <2>2, <3>2, <4>2 DEF Inv, Rest, WireInv, TypeOK
    <3> QED
      BY <2>2, <3>1, <3>2 DEF WireInv
  <2> QED
    BY <2>2, <2>3
       DEF Inv, Rest, FutureInv, IdInv, PendingInv, TombstoneInv, SourceInv,
           BufferInv, Made, futures
<1>3. ASSUME NEW r \in Requests, StreamFails(r) PROVE Rest'
  <2>1. /\ future[r] = "running"
        /\ \E e \in {"write_error", "stream_closed"} :
             future' = [future EXCEPT ![r] = e]
        /\ UNCHANGED <<id, answer, tombstones, pending, source, remote,
                       wireId, wire, buffer>>
    BY <1>3 DEF StreamFails, peer, assembly
  <2>0. sequence' = sequence
    <3>1. id[r] # 0
      BY <1>00, <2>1 DEF Inv, Rest, IdInv, Made, Ids
    <3> QED
      BY <1>3, <3>1 DEF StreamFails
  <2>2. \A q \in Requests :
          \/ future'[q] = future[q]
          \/ future[q] = "running" /\ future'[q] \in {"write_error", "stream_closed"}
    BY <1>00, <2>1
  <2>3. FutureInv' /\ IdInv' /\ PendingInv' /\ TombstoneInv'
    <3>1. \A q \in Requests : future'[q] = future[q]
                              \/ (future[q] = "running" /\ future'[q] \in Outcomes)
      BY <2>2 DEF Outcomes
    <3> QED
      BY <1>0, <2>0, <2>1, <3>1, CompletingKeepsInv
  <2>4. WireInv' /\ BufferInv'
    BY <2>1, <2>2 DEF Inv, Rest, WireInv, BufferInv, Made, Outcomes
  <2>5. SourceInv'
    BY <2>1, <2>2 DEF Inv, Rest, SourceInv
  <2> QED
    BY <2>3, <2>4, <2>5 DEF Rest
<1>4. ASSUME NEW r \in Requests, AdaptResult(r) PROVE Rest'
  <2>1. /\ answer'[r] = "response" => future[r] = "response"
        /\ future[r] \in Outcomes /\ answer'[r] # "unsent"
        /\ \A q \in Requests : q # r => answer'[q] = answer[q]
        /\ UNCHANGED <<id, sequence, future, tombstones, pending, source, remote,
                       wireId, wire, buffer>>
    BY <1>00, <1>4 DEF AdaptResult, peer, assembly
  <2>2. FutureInv' /\ SourceInv'
    BY <2>1 DEF Inv, Rest, FutureInv, SourceInv
  <2> QED
    BY <2>1, <2>2
       DEF Inv, Rest, IdInv, PendingInv, TombstoneInv, WireInv, BufferInv, Made
<1>5. ASSUME NEW r \in Requests, RemoveOutstandingRequest(r) PROVE Rest'
  <2>1. /\ future[r] \in Outcomes /\ pending' = [pending EXCEPT ![id[r]] = NoReq]
        /\ UNCHANGED <<id, sequence, answer, tombstones, future, source, remote,
                       wireId, wire, buffer>>
    BY <1>5 DEF RemoveOutstandingRequest, peer, assembly, Inv, Rest, FutureInv
  <2>2. id[r] \in Ids /\ (pending[id[r]] # NoReq => pending[id[r]] = r)
    BY <1>0, <2>1 DEF Inv, Rest, PendingInv, IdInv, Made, Outcomes, TypeOK
  <2>3. FutureInv' /\ IdInv' /\ PendingInv' /\ TombstoneInv'
    <3>1. \A i \in Ids : pending'[i] = pending[i]
                        \/ (pending'[i] = NoReq /\ (pending[i] # NoReq =>
                                                  future'[pending[i]] # "running"))
      BY <1>00, <2>1, <2>2 DEF Outcomes
    <3>2. \A q \in Requests : future'[q] = future[q]
      BY <2>1
    <3> QED
      BY <1>0, <2>1, <3>1, <3>2, CompletingKeepsInv
  <2>4. WireInv' /\ SourceInv' /\ BufferInv'
    BY <2>1 DEF Inv, Rest, WireInv, SourceInv, BufferInv, Made
  <2> QED
    BY <2>3, <2>4 DEF Rest
<1>6. ASSUME NEW r \in Requests, RequestTimedOut(r) PROVE Rest'
  <2>1. /\ future[r] = "running" /\ future' = [future EXCEPT ![r] = "timeout"]
        /\ tombstones' = tombstones \cup {id[r]}
        /\ pending' = [pending EXCEPT ![id[r]] = NoReq]
        /\ UNCHANGED <<id, sequence, answer, source, remote, wireId, wire, buffer>>
    BY <1>6 DEF RequestTimedOut, StillRunning, peer, assembly
  <2>2. /\ future'[r] = "timeout"
        /\ \A q \in Requests : q # r => future'[q] = future[q]
        /\ id[r] \in Ids /\ pending[id[r]] = r
    BY <1>0, <2>1 DEF Inv, Rest, PendingInv, TypeOK
  <2>3. FutureInv'
    BY <2>1, <2>2 DEF Inv, Rest, FutureInv, Outcomes
  <2>4. IdInv'
    BY <2>1, <2>2 DEF Inv, Rest, IdInv, Made
  <2>5. PendingInv'
    <3>1. ASSUME NEW j \in Ids, pending'[j] # NoReq
          PROVE  pending'[j] \in Made' /\ id'[pending'[j]] = j
      BY <1>0, <2>1, <2>2, <3>1 DEF Inv, Rest, PendingInv, Made, TypeOK
    <3>2. ASSUME NEW q \in Requests, future'[q] = "running"
          PROVE  pending'[id'[q]] = q
      <4>1. q # r /\ future[q] = "running" /\ id[q] \in Ids
        BY <1>0, <2>2, <3>2 DEF TypeOK
      <4>2. id[q] # id[r]
        BY <2>1, <4>1 DEF Inv, Rest, IdInv, Made
      <4> QED
        BY <1>0, <2>1, <4>1, <4>2 DEF Inv, Rest, PendingInv, TypeOK
    <3> QED
      BY <3>1, <3>2 DEF PendingInv
  <2>6. TombstoneInv'
    <3>1. id[r] <= sequence /\ \A q \in Requests \ {r} : q \in Made => id[q] # id[r]
      BY <2>1 DEF Inv, Rest, IdInv, Made
    <3> QED
      BY <2>1, <2>2, <3>1 DEF Inv, Rest, TombstoneInv, Made
  <2>7. WireInv' /\ SourceInv' /\ BufferInv'
    BY <2>1, <2>2 DEF Inv, Rest, WireInv, SourceInv, BufferInv, Made, Outcomes
  <2> QED
    BY <2>3, <2>4, <2>5, <2>6, <2>7 DEF Rest
<1>7. ASSUME NEW i \in Ids, Forget(i) PROVE Rest'
  BY <1>7, RestUnchanged DEF Forget, peer, assembly
<1>8. CASE Step
  BY <1>8, RestUnchanged DEF Step, peer, assembly
<1>9. CASE OnMessageIgnored
  <2>1. PICK m : Take(m) /\ UNCHANGED <<pending, future, source, assembly>>
    BY <1>9 DEF OnMessageIgnored
  <2>2. WireInv'
    BY <2>1, TakeFacts
  <2>3. UNCHANGED <<futures, sequence, tombstones, buffer>>
    BY <2>1 DEF Take, futures, assembly
  <2> QED
    BY <2>2, <2>3
       DEF Inv, Rest, FutureInv, IdInv, PendingInv, TombstoneInv, SourceInv,
           BufferInv, Made, futures
\* What is common to the handlers that complete the call a frame is for.
<1>10. ASSUME NEW m, Take(m), ~Passes(m),
              \A q \in Requests : future'[q] = future[q]
                                 \/ (future[q] = "running" /\ future'[q] \in Outcomes),
              \/ pending' = pending
              \/ /\ pending' = [pending EXCEPT ![m.id] = NoReq]
                 /\ future'[pending[m.id]] # "running"
       PROVE  FutureInv' /\ IdInv' /\ PendingInv' /\ TombstoneInv' /\ WireInv'
  <2>1. UNCHANGED <<id, sequence, answer, tombstones>>
    BY <1>10 DEF Take
  <2>2. m.id \in Ids
    BY <1>10, TakeFacts
  <2>3. \A i \in Ids : pending'[i] = pending[i]
                      \/ (pending'[i] = NoReq /\ (pending[i] # NoReq =>
                                                future'[pending[i]] # "running"))
    BY <1>00, <1>10, <2>2
  <2>4. FutureInv' /\ IdInv' /\ PendingInv' /\ TombstoneInv'
    BY <1>0, <1>10, <2>1, <2>3, CompletingKeepsInv
  <2>5. \A r \in Made : future'[r] # "unsent"
    BY <1>10 DEF Made, Outcomes
  <2>6. WireInv'
    BY <1>10, <2>5, TakeFacts
  <2> QED
    BY <2>4, <2>6
\* SetResult completes a running call, with the request the frame is for.
<1>11. ASSUME NEW r \in Requests, NEW q, SetResult(r, q), answer' = answer
       PROVE  /\ \A s \in Requests : future'[s] = future[s]
                                     \/ (future[s] = "running" /\ future'[s] \in Outcomes)
              /\ future'[r] # "running"
              /\ future[r] # "unsent" => future'[r] \in Outcomes
              /\ q = r => SourceInv'
  <2>1. /\ future'[r] = IF future[r] = "running" THEN "response" ELSE future[r]
        /\ source'[r] = IF future[r] = "running" THEN q ELSE source[r]
        /\ \A s \in Requests \ {r} : future'[s] = future[s] /\ source'[s] = source[s]
    BY <1>00, <1>11 DEF SetResult
  <2>2. q = r => SourceInv'
    <3>1. answer[r] = "response" => future[r] # "running"
      BY DEF Inv, Rest, FutureInv, Outcomes
    <3> QED
      BY <1>11, <2>1, <3>1 DEF Inv, Rest, SourceInv
  <2>3. future'[r] # "running" /\ (future[r] # "unsent" => future'[r] \in Outcomes)
    BY <1>00, <2>1 DEF Outcomes
  <2> QED
    BY <2>1, <2>2, <2>3 DEF Outcomes
<1>12. CASE OnCallResponse
  <2>1. PICK m : /\ Take(m) /\ ~Passes(m) /\ m.type = "CALL_RES"
                 /\ ~m.ok => UNCHANGED <<pending, future, source, buffer>>
                 /\ m.ok => /\ PopUnlessStreaming(m)
                           /\ SetResult(pending[m.id], m.of)
                           /\ buffer' = IF m.more
                                        THEN [buffer EXCEPT ![m.id] = pending[m.id]]
                                        ELSE buffer
    BY <1>12 DEF OnCallResponse, assembly
  <2>2. /\ m.of = pending[m.id] /\ pending[m.id] \in Requests
        /\ pending[m.id] \in Made /\ m.id \in Ids /\ id[pending[m.id]] = m.id
        /\ m \in Frames /\ m.ok \in BOOLEAN
    BY <2>1, TakeFacts, ConnectionAssumption DEF NoiseKinds, Frames
  <2>3. CASE ~m.ok
    <3>1. FutureInv' /\ IdInv' /\ PendingInv' /\ TombstoneInv' /\ WireInv'
      BY <1>10, <2>1, <2>3
    <3>2. id' = id /\ answer' = answer
      BY <2>1 DEF Take
    <3> QED
      BY <2>1, <2>3, <3>1, <3>2 DEF Inv, Rest, SourceInv, BufferInv
  <2>4. CASE m.ok
    <3>1. /\ \A s \in Requests : future'[s] = future[s]
                                  \/ (future[s] = "running" /\ future'[s] \in Outcomes)
          /\ future'[pending[m.id]] # "running"
          /\ future'[pending[m.id]] \in Outcomes
          /\ SourceInv'
      BY <1>11, <2>1, <2>2, <2>4 DEF Made, Take
    <3>2. pending' = pending \/ pending' = [pending EXCEPT ![m.id] = NoReq]
      BY <2>1, <2>4 DEF PopUnlessStreaming
    <3>3. FutureInv' /\ IdInv' /\ PendingInv' /\ TombstoneInv' /\ WireInv'
      BY <1>10, <2>1, <3>1, <3>2
    <3>4. id' = id
      BY <2>1 DEF Take
    <3>5. BufferInv'
      BY <1>00, <2>1, <2>2, <2>4, <3>1, <3>4 DEF Inv, Rest, BufferInv
    <3> QED
      BY <3>1, <3>3, <3>5 DEF Rest
  <2> QED
    BY <2>2, <2>3, <2>4
<1>13. CASE OnCallResponseContinue
  <2>1. PICK m : /\ Take(m) /\ ~Passes(m) /\ m.type = "CALL_RES_CONTINUE"
                 /\ UNCHANGED <<future, source>>
                 /\ \/ UNCHANGED <<pending, buffer>>
                    \/ /\ buffer[m.id] # NoReq
                       /\ buffer' = IF m.more THEN buffer
                                    ELSE [buffer EXCEPT ![m.id] = NoReq]
                       /\ \/ pending' = pending
                          \/ pending' = [pending EXCEPT ![m.id] = NoReq]
    BY <1>13 DEF OnCallResponseContinue, PopUnlessStreaming, assembly
  <2>2. /\ pending[m.id] \in Requests /\ pending[m.id] \in Made
        /\ m.id \in Ids /\ id[pending[m.id]] = m.id
    BY <2>1, TakeFacts DEF Inv, Rest, PendingInv, Passes
  <2>3. buffer[m.id] # NoReq => future[pending[m.id]] # "running"
    BY <1>00, <2>2, SMTT(30) DEF Inv, Rest, BufferInv, IdInv, Made, Outcomes
  <2>4. FutureInv' /\ IdInv' /\ PendingInv' /\ TombstoneInv' /\ WireInv'
    BY <1>10, <2>1, <2>3
  <2>5. id' = id /\ answer' = answer
    BY <2>1 DEF Take
  <2>6. SourceInv' /\ BufferInv'
    BY <1>00, <2>1, <2>2, <2>5, ZenonT(30) DEF Inv, Rest, SourceInv, BufferInv
  <2> QED
    BY <2>4, <2>6 DEF Rest
<1>14. CASE OnError
  <2>1. PICK m : /\ Take(m) /\ ~Passes(m) /\ source' = source
                 /\ pending' = [pending EXCEPT ![m.id] = NoReq]
                 /\ future' = IF future[pending[m.id]] = "running"
                              THEN [future EXCEPT ![pending[m.id]] = "remote_error"]
                              ELSE future
                 /\ \/ buffer' = buffer
                    \/ buffer' = [buffer EXCEPT ![m.id] = NoReq]
    BY <1>14 DEF OnError, assembly
  <2>2. pending[m.id] \in Requests /\ m.id \in Ids
    BY <2>1, TakeFacts
  <2>3. /\ \A s \in Requests : \/ future'[s] = future[s]
                               \/ (future[s] = "running" /\ future'[s] = "remote_error")
        /\ future'[pending[m.id]] # "running"
    BY <1>00, <2>1, <2>2
  <2>4. \A s \in Requests : future'[s] = future[s]
                            \/ (future[s] = "running" /\ future'[s] \in Outcomes)
    BY <2>3 DEF Outcomes
  <2>5. FutureInv' /\ IdInv' /\ PendingInv' /\ TombstoneInv' /\ WireInv'
    BY <1>10, <2>1, <2>3, <2>4
  <2>6. id' = id /\ answer' = answer
    BY <2>1 DEF Take
  <2>7. SourceInv'
    BY <2>1, <2>3, <2>6 DEF Inv, Rest, SourceInv
  <2>8. BufferInv'
    BY <1>00, <2>1, <2>2, <2>4, <2>6 DEF Inv, Rest, BufferInv
  <2> QED
    BY <2>5, <2>7, <2>8 DEF Rest
<1>15. CASE OnForeignFrame
  <2>1. PICK m : /\ Take(m) /\ ~Passes(m) /\ m.type = "PING_REQ"
                 /\ SetResult(pending[m.id], m.of) /\ buffer' = buffer
                 /\ \/ pending' = pending
                    \/ pending' = [pending EXCEPT ![m.id] = NoReq]
    BY <1>15 DEF OnForeignFrame, PopUnlessStreaming, assembly
  <2>2. /\ pending[m.id] \in Requests /\ pending[m.id] \in Made
        /\ "PING_REQ" \notin Noise => pending[m.id] = m.of
    BY <2>1, TakeFacts
  <2>3. /\ \A s \in Requests : future'[s] = future[s]
                                \/ (future[s] = "running" /\ future'[s] \in Outcomes)
        /\ future'[pending[m.id]] # "running"
        /\ pending[m.id] = m.of => SourceInv'
    BY <1>11, <2>1, <2>2 DEF Take
  <2>4. FutureInv' /\ IdInv' /\ PendingInv' /\ TombstoneInv' /\ WireInv'
    BY <1>10, <2>1, <2>3
  <2>5. SourceInv'
    BY <2>2, <2>3 DEF SourceInv
  <2>6. id' = id
    BY <2>1 DEF Take
  <2>7. BufferInv'
    BY <1>00, <2>1, <2>3, <2>6 DEF Inv, Rest, BufferInv
  <2> QED
    BY <2>4, <2>5, <2>7 DEF Rest
<1>16. CASE OnReadError
  BY <1>16, RestUnchanged DEF OnReadError, peer, assembly
<1>17. CASE Close
  BY <1>17, RestUnchanged DEF Close, peer, assembly
<1>18. CASE OnClose
  <2>1. PICK S \in SUBSET Registered :
          /\ FailWithNetworkError(S)
          /\ \/ /\ S = Running /\ pending' = [i \in Ids |-> NoReq]
                /\ LeftOver = {}
             \/ pending' = pending
    BY <1>18 DEF OnClose, LeftOver, Running
  <2>2. /\ tombstones' = {}
        /\ UNCHANGED <<id, sequence, answer, source, remote, wireId, wire, buffer>>
    BY <1>18 DEF OnClose, peer, assembly
  <2>3. \A r \in Requests : \/ future'[r] = future[r]
                            \/ /\ future[r] # "unsent" /\ r \in S
                               /\ future'[r] = "network"
    <3>1. \A r \in S : future[r] # "unsent"
      BY ConnectionAssumption DEF Inv, Rest, PendingInv, Registered, Made
    <3> QED
      BY <2>1, <3>1 DEF FailWithNetworkError
  <2>4. FutureInv' /\ SourceInv' /\ TombstoneInv'
    BY <2>2, <2>3 DEF Inv, Rest, FutureInv, SourceInv, TombstoneInv, Outcomes
  <2>5. Made' = Made
    BY <2>3 DEF Made
  <2>6. IdInv' /\ WireInv'
    BY <2>2, <2>5 DEF Inv, Rest, IdInv, WireInv
  <2>7. BufferInv'
    BY <1>00, <2>2, <2>3 DEF Inv, Rest, BufferInv, Outcomes
  <2>8. PendingInv'
    <3>1. CASE pending' = pending
      BY <2>2, <2>3, <2>5, <3>1 DEF Inv, Rest, PendingInv
    <3>2. CASE S = Running /\ pending' = [i \in Ids |-> NoReq]
      <4>1. ASSUME NEW r \in Requests, future[r] = "running" PROVE r \in S
        BY <1>00, <3>2, <4>1 DEF Inv, Rest, PendingInv, Running, Registered
      <4>2. \A r \in Requests : future'[r] # "running"
        BY <2>1, <4>1 DEF FailWithNetworkError
      <4> QED
        BY <2>2, <3>2, <4>2 DEF PendingInv
    <3> QED
      BY <2>1, <3>1, <3>2
  <2> QED
    BY <2>4, <2>6, <2>7, <2>8 DEF Rest
\* The remote only sends frames of calls it knows, or noise.
<1>19. ASSUME NEW m \in Frames, Send(m),
              IF m.of = NoReq THEN m.type \in Noise
              ELSE remote[m.of] # "idle" /\ m.id = wireId[m.of],
              \A r \in Requests : remote[r] = "idle" <=> remote'[r] = "idle"
       PROVE  Rest'
  <2>1. /\ wire' = Append(wire, m)
        /\ UNCHANGED <<futures, sequence, tombstones, buffer, wireId>>
    BY <1>19 DEF Send, assembly
  <2>2. wire \in Seq(Frames)
    BY <1>0 DEF TypeOK
  <2>3. ASSUME NEW k \in DOMAIN wire'
        PROVE  IF wire'[k].of = NoReq THEN wire'[k].type \in Noise
               ELSE remote'[wire'[k].of] # "idle"
                    /\ wire'[k].id = wireId'[wire'[k].of]
    <3>1. wire'[k] \in Frames
      BY <1>19, <2>1, <2>2, <2>3
    <3>2. wire'[k].of \in Requests \cup {NoReq}
      BY <3>1 DEF Frames
    <3>3. (k \in DOMAIN wire /\ wire'[k] = wire[k]) \/ wire'[k] = m
      BY <2>1, <2>2, <2>3
    <3> QED
      BY <1>19, <2>1, <3>2, <3>3 DEF Inv, Rest, WireInv
  <2>4. WireInv'
    BY <1>19, <2>1, <2>3 DEF Inv, Rest, WireInv, Made, futures
  <2> QED
    BY <2>1, <2>4
       DEF Inv, Rest, FutureInv, IdInv, PendingInv, TombstoneInv, SourceInv,
           BufferInv, Made, futures
<1>20. ASSUME NEW r \in Requests, RemoteResponds(r) PROVE Rest'
  <2>1. PICK more \in BOOLEAN, ok \in BOOLEAN :
          /\ Send([type |-> IF remote[r] = "called" THEN "CALL_RES"
                            ELSE "CALL_RES_CONTINUE",
                   id |-> wireId[r], more |-> more, ok |-> ok, of |-> r])
          /\ remote' = [remote EXCEPT ![r] =
                          IF more THEN "streaming" ELSE "done"]
    BY <1>20 DEF RemoteResponds
  <2> DEFINE f == [type |-> IF remote[r] = "called" THEN "CALL_RES"
                            ELSE "CALL_RES_CONTINUE",
                   id |-> wireId[r], more |-> more, ok |-> ok, of |-> r]
  <2>2. f \in Frames /\ f.of = r /\ f.id = wireId[r] /\ Send(f)
    BY <1>00, <2>1 DEF Frames
  <2>3. remote[r] # "idle"
    BY <1>20 DEF RemoteResponds
  <2>4. \A q \in Requests : remote[q] = "idle" <=> remote'[q] = "idle"
    BY <1>00, <2>1, <2>3
  <2> HIDE DEF f
  <2> QED
    BY <1>19, <2>2, <2>3, <2>4, ConnectionAssumption
<1>21. ASSUME NEW r \in Requests, RemoteFails(r) PROVE Rest'
  <2> DEFINE f == [type |-> "ERROR", id |-> wireId[r], more |-> FALSE,
                   ok |-> TRUE, of |-> r]
  <2>1. f \in Frames /\ f.of = r /\ f.id = wireId[r]
    BY <1>00 DEF Frames
  <2>2. /\ Send(f) /\ remote[r] # "idle"
        /\ remote' = [remote EXCEPT ![r] = "done"]
    BY <1>21 DEF RemoteFails
  <2>3. \A q \in Requests : remote[q] = "idle" <=> remote'[q] = "idle"
    BY <1>00, <2>2
  <2> HIDE DEF f
  <2> QED
    BY <1>19, <2>1, <2>2, <2>3, ConnectionAssumption
<1>22. CASE RemoteNoise
  <2>1. PICK t \in Noise, i \in Ids :
          Send([type |-> t, id |-> i, more |-> FALSE, ok |-> TRUE, of |-> NoReq])
    BY <1>22 DEF RemoteNoise
  <2> DEFINE f == [type |-> t, id |-> i, more |-> FALSE, ok |-> TRUE, of |-> NoReq]
  <2>2. f \in Frames /\ f.of = NoReq /\ f.type \in Noise /\ Send(f)
    BY <2>1, ConnectionAssumption DEF Frames
  <2>3. remote' = remote
    BY <1>22 DEF RemoteNoise
  <2> HIDE DEF f
  <2> QED
    BY <1>19, <2>2, <2>3
<1>23. CASE RemoteClose
  BY <1>23, RestUnchanged DEF RemoteClose, peer, assembly
<1>24. CASE UNCHANGED vars
  BY <1>24, RestUnchanged DEF vars, peer, assembly
<1> QED
  BY <1>1, <1>2, <1>3, <1>4, <1>5, <1>6, <1>7, <1>8, <1>9, <1>12, <1>13, <1>14,
     <1>15, <1>16, <1>17, <1>18, <1>20, <1>21, <1>22, <1>23, <1>24
     DEF Next, Call, OnMessage, Remote

LEMMA InvInit == Init => Inv
<1> SUFFICES ASSUME Init PROVE Inv
  OBVIOUS
<1>1. 0 \in Ids /\ <<>> \in Seq(Frames)
  BY ConnectionAssumption DEF Ids
<1>2. TypeOK
  BY <1>1 DEF Init, TypeOK
<1>3. Rest
  BY DEF Init, Rest, FutureInv, IdInv, PendingInv, TombstoneInv, WireInv, SourceInv,
         BufferInv, Made
<1> QED
  BY <1>2, <1>3 DEF Inv

\* As long as ids do not wrap, every call that is neither answered nor failed can be
\* reached by a response and by _on_close.
THEOREM RegisteredWhileRunning ==
  ASSUME ~AllowWrap PROVE Spec => []RunningIsRegistered
<1>1. Inv => RunningIsRegistered
  BY DEF Inv, Rest, PendingInv, RunningIsRegistered
<1>2. Inv /\ [Next]_vars => Inv'
  BY InvStep
<1> QED
  BY <1>1, <1>2, InvInit, PTL DEF Spec

\* As long as ids do not wrap, a response or an error on its way to a waiting call
\* completes that call.
THEOREM ResponsesFindTheirCalls ==
  ASSUME ~AllowWrap PROVE Spec => []ResponseFindsCall
<1>1. Inv => ResponseFindsCall
  <2> SUFFICES ASSUME Inv, NEW k \in DOMAIN wire, wire[k].of # NoReq,
                      future[wire[k].of] = "running"
               PROVE  pending[wire[k].id] = wire[k].of
    BY DEF ResponseFindsCall
  <2>1. wire[k] \in Frames
    BY DEF Inv, TypeOK
  <2>2. wire[k].of \in Requests
    BY <2>1 DEF Frames
  <2>3. wire[k].id = id[wire[k].of]
    BY <2>2 DEF Inv, Rest, WireInv
  <2> QED
    BY <2>2, <2>3 DEF Inv, Rest, PendingInv
<1>2. Inv /\ [Next]_vars => Inv'
  BY InvStep
<1> QED
  BY <1>1, <1>2, InvInit, PTL DEF Spec

\* As long as ids do not wrap, a frame ignored for its tombstone was not for a call
\* that is still waiting.
THEOREM TombstonesStayDead ==
  ASSUME ~AllowWrap PROVE Spec => []TombstonesAreDead
<1>1. Inv => TombstonesAreDead
  BY DEF Inv, Rest, TombstoneInv, TombstonesAreDead
<1>2. Inv /\ [Next]_vars => Inv'
  BY InvStep
<1> QED
  BY <1>1, <1>2, InvInit, PTL DEF Spec

\* As long as ids do not wrap and the remote sends no pings, no caller is ever given
\* the response to another call.
THEOREM CallersGetTheirOwnAnswer ==
  ASSUME ~AllowWrap, "PING_REQ" \notin Noise
  PROVE  Spec => []OwnAnswer
<1>1. Inv => OwnAnswer
  BY DEF Inv, Rest, FutureInv, SourceInv, OwnAnswer
<1>2. Inv /\ [Next]_vars => Inv'
  BY InvStep
<1> QED
  BY <1>1, <1>2, InvInit, PTL DEF Spec

-----------------------------------------------------------------------------
(* Completion and closing, with ids that may wrap and pings that may come. *)

\* An entry of the dictionary, and a message in the buffer, lie under their own id.
OwnIds ==
  \A i \in Ids :
    /\ pending[i] # NoReq => id[pending[i]] = i /\ future[pending[i]] # "unsent"
    /\ buffer[i] # NoReq => id[buffer[i]] = i /\ future[buffer[i]] # "unsent"

\* Until the close, a complete call in the dictionary is half done.
LeftInv ==
  stream # "closed" =>
    \A r \in Registered : future[r] = "running" \/ HalfDone(r)

CompletionInv ==
  /\ TypeOK /\ OwnIds /\ LeftInv
  /\ \A r \in Requests : answer[r] = "unsent" => future[r] = "unsent"

\* SetResult changes nothing that is complete.
LEMMA SetResultKeeps ==
  ASSUME TypeOK, NEW r \in Requests, NEW q, SetResult(r, q)
  PROVE  /\ \A s \in Requests :
              \/ future'[s] = future[s] /\ source'[s] = source[s]
              \/ s = r /\ future[s] = "running" /\ future'[s] = "response"
         /\ future'[r] # "running"
  BY DEF TypeOK, SetResult

\* What a step does that makes no call: futures that run may be completed, a call
\* that leaves the dictionary is the only one whose future or arguments change, or
\* those that change leave it half done.
Settles ==
  /\ UNCHANGED <<id, answer>> /\ (stream' = "closed" <=> stream = "closed")
  /\ \A r \in Requests :
       /\ \/ future'[r] = future[r] /\ source'[r] = source[r]
          \/ future[r] = "running" /\ future'[r] # "unsent"
       /\ \/ future'[r] = future[r] /\ body'[r] = body[r]
          \/ future'[r] = "write_error"
          \/ future'[r] \in {future[r], "response"} /\ body'[r] \in {"open", "failed"}
          \/ pending'[id[r]] = NoReq
  /\ \A i \in Ids : /\ pending'[i] \in {NoReq, pending[i]}
                    /\ buffer'[i] \in {NoReq, pending[i], buffer[i]}

LEMMA SettlesKeeps ==
  ASSUME CompletionInv, TypeOK', Settles PROVE CompletionInv' /\ KeepsCompleted
<1> USE DEF CompletionInv
<1>1. /\ id \in [Requests -> Ids] /\ NoReq \notin Requests
      /\ pending \in [Ids -> Requests \cup {NoReq}]
      /\ buffer \in [Ids -> Requests \cup {NoReq}]
      /\ future \in [Requests -> {"unsent", "running"} \cup Outcomes]
  BY ConnectionAssumption DEF TypeOK
<1>2. OwnIds'
  BY <1>1 DEF Settles, OwnIds
<1>3. ASSUME NEW r \in Requests, r \in Registered' PROVE r \in Registered
  BY <1>1, <1>3 DEF Registered, Settles
<1>4. LeftInv'
  <2> SUFFICES ASSUME stream' # "closed", NEW r \in Requests, r \in Registered'
               PROVE  future'[r] = "running" \/ HalfDone(r)'
    BY DEF LeftInv, Registered
  <2>1. r \in Registered /\ (future[r] = "running" \/ HalfDone(r))
    BY <1>3 DEF LeftInv, Settles
  <2>2. PICK i \in Ids : pending'[i] = r
    BY DEF Registered
  <2>3. pending[i] = r /\ id[r] = i /\ pending'[id[r]] # NoReq
    BY <1>1, <2>2 DEF Settles, OwnIds
  <2> QED
    BY <2>1, <2>3 DEF Settles, HalfDone
<1>5. \A r \in Requests : answer'[r] = "unsent" => future'[r] = "unsent"
  BY DEF Settles
<1>6. KeepsCompleted
  BY <1>1 DEF Settles, KeepsCompleted, Outcomes, Answers
<1> QED
  BY <1>2, <1>4, <1>5, <1>6

\* Every step either leaves a complete future alone or is _on_close, which may take
\* only one that is half done.
LEMMA CompletionStep ==
  ASSUME CompletionInv, [Next]_vars
  PROVE  CompletionInv' /\ KeepsCompleted
<1>0. TypeOK /\ TypeOK'
  BY TypeStep DEF CompletionInv
<1>00. /\ sequence \in Ids /\ stream \in {"open", "shut", "closed"}
       /\ id \in [Requests -> Ids] /\ NoReq \notin Requests
       /\ pending \in [Ids -> Requests \cup {NoReq}]
       /\ buffer \in [Ids -> Requests \cup {NoReq}]
       /\ future \in [Requests -> {"unsent", "running"} \cup Outcomes]
       /\ source \in [Requests -> Requests \cup {NoReq}]
       /\ answer \in [Requests -> {"unsent", "waiting"} \cup Answers]
       /\ body \in [Requests -> {"none", "open", "complete", "failed"}]
  BY <1>0, ConnectionAssumption DEF TypeOK
<1>1. ASSUME Settles PROVE CompletionInv' /\ KeepsCompleted
  BY <1>0, <1>1, SettlesKeeps
<1>2. ASSUME UNCHANGED <<id, pending, future, source, answer, buffer, body>>,
             stream' = "closed" <=> stream = "closed"
      PROVE  Settles
  BY <1>2 DEF Settles
<1>3. ASSUME NEW r \in Requests, SendRequest(r)
      PROVE  CompletionInv' /\ KeepsCompleted
  <2> DEFINE i == NextMessageId(sequence)
  <2>1. i \in Ids
    BY <1>00, NextIdType
  <2>2. /\ future[r] = "unsent" /\ answer[r] = "unsent" /\ answer'[r] # "unsent"
        /\ \A s \in Requests \ {r} : answer'[s] = answer[s]
        /\ id' = [id EXCEPT ![r] = i]
        /\ UNCHANGED <<stream, source, body, buffer>>
    BY <1>00, <1>3 DEF SendRequest, CompletionInv, assembly
  <2>3. \/ UNCHANGED <<pending, future>>
        \/ /\ pending' = [pending EXCEPT ![i] = r]
           /\ future' = [future EXCEPT ![r] = "running"]
    BY <1>3 DEF SendRequest
  <2> HIDE DEF i
  <2>4. \A s \in Requests \ {r} : future'[s] = future[s] /\ id'[s] = id[s]
    BY <1>00, <2>2, <2>3
  <2>5. \A j \in Ids : pending[j] # r /\ buffer[j] # r
    BY <1>00, <2>2 DEF CompletionInv, OwnIds
  <2>6. OwnIds'
    <3>1. ASSUME NEW j \in Ids, pending'[j] # NoReq
          PROVE  id'[pending'[j]] = j /\ future'[pending'[j]] # "unsent"
      <4>1. CASE pending'[j] = r
        BY <1>00, <2>1, <2>2, <2>3, <2>5, <4>1
      <4>2. CASE pending'[j] # r
        <5>1. pending'[j] = pending[j] /\ pending[j] \in Requests \ {r}
          BY <1>00, <2>1, <2>3, <3>1, <4>2
        <5>2. id[pending[j]] = j /\ future[pending[j]] # "unsent"
          BY <1>00, <5>1 DEF CompletionInv, OwnIds
        <5> QED
          BY <2>4, <5>1, <5>2
      <4> QED
        BY <4>1, <4>2
    <3>2. ASSUME NEW j \in Ids, buffer'[j] # NoReq
          PROVE  id'[buffer'[j]] = j /\ future'[buffer'[j]] # "unsent"
      BY <1>00, <2>2, <2>4, <2>5, <3>2 DEF CompletionInv, OwnIds
    <3> QED
      BY <3>1, <3>2 DEF OwnIds
  <2>7. LeftInv'
    <3> SUFFICES ASSUME stream # "closed", NEW s \in Registered'
                 PROVE  future'[s] = "running" \/ HalfDone(s)'
      BY <2>2 DEF LeftInv
    <3>1. s \in Requests /\ \E j \in Ids : pending'[j] = s
      BY DEF Registered
    <3>2. CASE s = r
      BY <1>00, <2>1, <2>3, <2>5, <3>1, <3>2
    <3>3. CASE s # r
      <4>1. s \in Registered
        BY <1>00, <2>1, <2>3, <3>1, <3>3 DEF Registered
      <4>2. future[s] = "running" \/ HalfDone(s)
        BY <4>1 DEF CompletionInv, LeftInv
      <4> QED
        BY <2>2, <2>4, <3>1, <3>3, <4>2 DEF HalfDone
    <3> QED
      BY <3>2, <3>3
  <2>8. \A s \in Requests : answer'[s] = "unsent" => future'[s] = "unsent"
    BY <2>2, <2>4 DEF CompletionInv
  <2>9. KeepsCompleted
    BY <2>2, <2>4 DEF KeepsCompleted, Outcomes, Answers
  <2> QED
    BY <1>0, <2>6, <2>7, <2>8, <2>9 DEF CompletionInv
<1>4. ASSUME NEW r \in Requests, AdaptResult(r)
      PROVE  CompletionInv' /\ KeepsCompleted
  <2>1. /\ answer[r] = "waiting" /\ answer'[r] # "unsent"
        /\ \A s \in Requests \ {r} : answer'[s] = answer[s]
        /\ UNCHANGED <<stream, id, pending, future, source, buffer, body>>
    BY <1>00, <1>4 DEF AdaptResult, assembly
  <2>2. OwnIds' /\ LeftInv'
    BY <2>1 DEF CompletionInv, OwnIds, LeftInv, Registered, HalfDone
  <2>3. KeepsCompleted
    BY <2>1 DEF KeepsCompleted, Answers
  <2> QED
    BY <1>0, <2>1, <2>2, <2>3 DEF CompletionInv
<1>5. ASSUME NEW r \in Requests, Transmit(r) PROVE Settles
  BY <1>2, <1>5 DEF Transmit, futures, assembly
<1>6. ASSUME NEW r \in Requests, StreamFails(r)
      PROVE  CompletionInv' /\ KeepsCompleted
  <2>1. /\ future[r] = "running"
        /\ \/ future' = [future EXCEPT ![r] = "write_error"]
           \/ stream = "closed" /\ future' = [future EXCEPT ![r] = "stream_closed"]
        /\ UNCHANGED <<stream, id, pending, source, answer, buffer, body>>
    BY <1>6 DEF StreamFails, assembly
  <2>2. CASE future' = [future EXCEPT ![r] = "write_error"]
    <3>1. /\ future'[r] = "write_error"
          /\ \A q \in Requests \ {r} : future'[q] = future[q]
      BY <1>00, <2>2
    <3>2. Settles
      BY <2>1, <3>1 DEF Settles
    <3> QED
      BY <1>1, <3>2
  <2>3. CASE stream = "closed" /\ future' = [future EXCEPT ![r] = "stream_closed"]
    <3>1. /\ \A q \in Requests : /\ future'[q] = "unsent" <=> future[q] = "unsent"
                                 /\ future[q] # "running" => future'[q] = future[q]
          /\ UNCHANGED <<stream, id, pending, source, answer, buffer>>
      BY <1>00, <2>1, <2>3
    <3>2. OwnIds'
      BY <1>00, <3>1 DEF CompletionInv, OwnIds
    <3>3. KeepsCompleted
      BY <3>1 DEF KeepsCompleted, Outcomes
    <3> QED
      BY <1>0, <2>3, <3>1, <3>2, <3>3 DEF CompletionInv, LeftInv
  <2> QED
    BY <2>1, <2>2, <2>3
<1>7. ASSUME NEW r \in Requests, RemoveOutstandingRequest(r) PROVE Settles
  BY <1>00, <1>7 DEF RemoveOutstandingRequest, assembly, Settles
<1>8. ASSUME NEW r \in Requests, RequestTimedOut(r) PROVE Settles
  BY <1>00, <1>8 DEF RequestTimedOut, StillRunning, assembly, Settles
<1>9. ASSUME \/ \E i \in Ids : Forget(i)
             \/ Step \/ OnReadError \/ Close
      PROVE  Settles
  BY <1>2, <1>9 DEF Forget, Step, OnReadError, Close, futures, assembly
<1>10. ASSUME Remote PROVE Settles
  <2>1. futures' = futures /\ assembly' = assembly
        /\ (stream' = "closed" <=> stream = "closed")
    BY <1>10 DEF Remote, RemoteResponds, RemoteFails, RemoteNoise, RemoteClose, Send
  <2> QED
    BY <1>2, <2>1 DEF futures, assembly
\* The frames.
<1>11. ASSUME NEW m, Take(m)
       PROVE  /\ m.id \in Ids /\ m.of \in Requests \cup {NoReq}
              /\ UNCHANGED <<stream, id, answer>>
              /\ ~Passes(m) => pending[m.id] \in Requests /\ id[pending[m.id]] = m.id
  <2>1. m \in Frames
    BY <1>0, <1>11, WireFacts DEF Take, TypeOK
  <2>2. m.id \in Ids /\ m.of \in Requests \cup {NoReq}
    BY <2>1 DEF Frames
  <2>3. ~Passes(m) => pending[m.id] # NoReq
    BY DEF Passes
  <2> QED
    BY <1>00, <1>11, <2>2, <2>3 DEF Take, CompletionInv, OwnIds
<1>12. ASSUME OnMessageIgnored PROVE Settles
  <2>1. PICK m : Take(m) /\ UNCHANGED <<pending, future, source, assembly>>
    BY <1>12 DEF OnMessageIgnored
  <2> QED
    BY <1>2, <1>11, <2>1 DEF assembly
<1>13. ASSUME OnCallResponse PROVE Settles
  <2>1. PICK m : /\ Take(m) /\ ~Passes(m) /\ m.type = "CALL_RES"
                 /\ IF ~m.ok
                    THEN UNCHANGED <<pending, future, source, assembly>>
                    ELSE /\ body' = [body EXCEPT ![pending[m.id]] =
                                       IF m.more THEN "open" ELSE "complete"]
                         /\ buffer' = IF m.more
                                      THEN [buffer EXCEPT ![m.id] = pending[m.id]]
                                      ELSE buffer
                         /\ PopUnlessStreaming(m)
                         /\ SetResult(pending[m.id], m.of)
    BY <1>13 DEF OnCallResponse
  <2> DEFINE r == pending[m.id]
  <2>2. m.id \in Ids /\ r \in Requests /\ id[r] = m.id /\ UNCHANGED <<stream, id, answer>>
    BY <1>11, <2>1
  <2>3. CASE ~m.ok
    BY <1>2, <2>1, <2>2, <2>3 DEF assembly
  <2>4. CASE m.ok
    <3>1. /\ \A s \in Requests :
                \/ future'[s] = future[s] /\ source'[s] = source[s]
                \/ s = r /\ future[s] = "running" /\ future'[s] = "response"
          /\ \A s \in Requests \ {r} : body'[s] = body[s]
      BY <1>0, <1>00, <2>1, <2>2, <2>4, SetResultKeeps
    <3>2. /\ pending' = pending \/ pending' = [pending EXCEPT ![m.id] = NoReq]
          /\ buffer' = buffer \/ buffer' = [buffer EXCEPT ![m.id] = r]
          /\ \/ body'[r] = "open"
             \/ pending' = [pending EXCEPT ![m.id] = NoReq]
      BY <1>00, <2>1, <2>2, <2>4 DEF PopUnlessStreaming, StillStreaming
    <3> HIDE DEF r
    <3>3. \A i \in Ids : /\ pending'[i] \in {NoReq, pending[i]}
                        /\ buffer'[i] \in {NoReq, pending[i], buffer[i]}
      BY <1>00, <2>2, <3>2 DEF r
    <3>4. body'[r] = "open" \/ pending'[id[r]] = NoReq
      BY <1>00, <2>2, <3>2
    <3> QED
      BY <2>2, <3>1, <3>3, <3>4 DEF Settles
  <2> QED
    BY <2>3, <2>4
<1>14. ASSUME OnCallResponseContinue PROVE Settles
  <2>1. PICK m : /\ Take(m) /\ ~Passes(m) /\ m.type = "CALL_RES_CONTINUE"
                 /\ UNCHANGED <<future, source>>
                 /\ \/ UNCHANGED <<pending, assembly>>
                    \/ /\ buffer[m.id] # NoReq
                       /\ body' = [body EXCEPT ![buffer[m.id]] = "failed"]
                       /\ UNCHANGED <<pending, buffer, frames>>
                    \/ /\ buffer[m.id] # NoReq
                       /\ body' = [body EXCEPT ![buffer[m.id]] =
                                     IF m.more THEN @ ELSE "complete"]
                       /\ buffer' = IF m.more THEN buffer
                                    ELSE [buffer EXCEPT ![m.id] = NoReq]
                       /\ PopUnlessStreaming(m)
    BY <1>14 DEF OnCallResponseContinue
  <2> DEFINE r == buffer[m.id]
  <2>2. m.id \in Ids /\ UNCHANGED <<stream, id, answer>>
    BY <1>11, <2>1
  <2>3. r # NoReq => r \in Requests /\ id[r] = m.id
    BY <1>00, <2>2 DEF CompletionInv, OwnIds
  <2>4. CASE UNCHANGED <<pending, assembly>>
    BY <1>2, <2>1, <2>2, <2>4 DEF assembly
  <2>5. CASE r # NoReq /\ body' = [body EXCEPT ![r] = "failed"]
             /\ UNCHANGED <<pending, buffer, frames>>
    <3>1. \A s \in Requests : body'[s] \in {body[s], "failed"}
      BY <1>00, <2>5
    <3> QED
      BY <2>1, <2>2, <2>5, <3>1 DEF Settles
  <2>6. CASE /\ r # NoReq
             /\ body' = [body EXCEPT ![r] = IF m.more THEN @ ELSE "complete"]
             /\ buffer' = IF m.more THEN buffer
                          ELSE [buffer EXCEPT ![m.id] = NoReq]
             /\ PopUnlessStreaming(m)
    <3>1. \/ body' = body /\ buffer' = buffer /\ pending' = pending
          \/ /\ pending' = [pending EXCEPT ![m.id] = NoReq]
             /\ \A s \in Requests \ {r} : body'[s] = body[s]
             /\ buffer' = [buffer EXCEPT ![m.id] = NoReq]
      BY <1>00, <2>1, <2>3, <2>6 DEF PopUnlessStreaming, StillStreaming
    <3> HIDE DEF r
    <3>2. \A i \in Ids : /\ pending'[i] \in {NoReq, pending[i]}
                        /\ buffer'[i] \in {NoReq, pending[i], buffer[i]}
      BY <1>00, <2>2, <3>1
    <3>3. \A s \in Requests : body'[s] = body[s] \/ pending'[id[s]] = NoReq
      BY <1>00, <2>2, <2>3, <2>6, <3>1
    <3> QED
      BY <2>1, <2>2, <3>2, <3>3 DEF Settles
  <2> QED
    BY <2>1, <2>4, <2>5, <2>6
<1>15. ASSUME OnError PROVE Settles
  <2>1. PICK m : /\ Take(m) /\ ~Passes(m) /\ source' = source
                 /\ pending' = [pending EXCEPT ![m.id] = NoReq]
                 /\ \/ /\ future[pending[m.id]] = "running"
                       /\ future' = [future EXCEPT ![pending[m.id]] = "remote_error"]
                       /\ UNCHANGED assembly
                    \/ /\ body' = [r \in Requests |->
                                      IF r = buffer[m.id] THEN "failed" ELSE body[r]]
                       /\ buffer' = [buffer EXCEPT ![m.id] = NoReq]
                       /\ future' = future
    BY <1>15 DEF OnError
  <2> DEFINE r == pending[m.id]
  <2>2. m.id \in Ids /\ r \in Requests /\ id[r] = m.id /\ UNCHANGED <<stream, id, answer>>
    BY <1>11, <2>1
  <2>3. pending'[id[r]] = NoReq /\ \A i \in Ids : pending'[i] \in {NoReq, pending[i]}
    BY <1>00, <2>1, <2>2
  <2>4. \A i \in Ids : buffer'[i] \in {NoReq, buffer[i]}
    BY <1>00, <2>1, <2>2 DEF assembly
  <2>5. \A s \in Requests :
          /\ \/ future'[s] = future[s]
             \/ s = r /\ future[s] = "running" /\ future'[s] # "unsent"
          /\ body'[s] \in {body[s], "failed"}
    BY <1>00, <2>1, <2>2 DEF assembly
  <2> HIDE DEF r
  <2> QED
    BY <2>1, <2>2, <2>3, <2>4, <2>5 DEF Settles
<1>16. ASSUME OnForeignFrame PROVE Settles
  <2>1. PICK m : /\ Take(m) /\ ~Passes(m) /\ m.type = "PING_REQ"
                 /\ SetResult(pending[m.id], m.of) /\ PopUnlessStreaming(m)
                 /\ UNCHANGED assembly
    BY <1>16 DEF OnForeignFrame
  <2> DEFINE r == pending[m.id]
  <2>2. m.id \in Ids /\ r \in Requests /\ id[r] = m.id /\ UNCHANGED <<stream, id, answer>>
    BY <1>11, <2>1
  <2>3. pending' = [pending EXCEPT ![m.id] = NoReq]
    BY <2>1 DEF PopUnlessStreaming, StillStreaming
  <2>4. /\ \A s \in Requests :
              \/ future'[s] = future[s] /\ source'[s] = source[s]
              \/ s = r /\ future[s] = "running" /\ future'[s] = "response"
        /\ UNCHANGED <<body, buffer>>
    BY <1>0, <2>1, <2>2, SetResultKeeps DEF assembly
  <2> HIDE DEF r
  <2>5. pending'[id[r]] = NoReq /\ \A i \in Ids : pending'[i] \in {NoReq, pending[i]}
    BY <1>00, <2>2, <2>3
  <2> QED
    BY <2>2, <2>4, <2>5 DEF Settles
\* The close takes calls that run and, if it is interrupted, one that is half done.
<1>17. ASSUME OnClose PROVE CompletionInv' /\ KeepsCompleted
  <2>1. PICK S \in SUBSET Registered :
          /\ FailWithNetworkError(S)
          /\ pending' = pending \/ pending' = [i \in Ids |-> NoReq]
    BY <1>17 DEF OnClose, LeftOver, Running
  <2>2. /\ stream = "shut" /\ stream' = "closed"
        /\ UNCHANGED <<id, answer, source, buffer, body>>
    BY <1>17 DEF OnClose, assembly
  <2>3. \A r \in S : future[r] = "running" \/ HalfDone(r)
    BY <2>2 DEF CompletionInv, LeftInv
  <2>4. \A r \in Requests : future'[r] = IF r \in S THEN "network" ELSE future[r]
    BY <2>1 DEF FailWithNetworkError
  <2>5. KeepsCompleted
    BY <2>2, <2>3, <2>4 DEF KeepsCompleted, Closing, Outcomes
  <2>6. \A r \in Requests : future'[r] = "unsent" <=> future[r] = "unsent"
    BY <2>3, <2>4 DEF HalfDone
  <2>7. OwnIds'
    BY <1>00, <2>1, <2>2, <2>6 DEF CompletionInv, OwnIds
  <2> QED
    BY <1>0, <2>2, <2>5, <2>6, <2>7 DEF CompletionInv, LeftInv
<1>18. CASE UNCHANGED vars
  BY <1>1, <1>2, <1>18 DEF vars, futures, assembly
<1> QED
  BY <1>1, <1>3, <1>4, <1>5, <1>6, <1>7, <1>8, <1>9, <1>10, <1>12, <1>13, <1>14,
     <1>15, <1>16, <1>17, <1>18 DEF Next, Call, OnMessage

LEMMA CompletionInit == Init => CompletionInv
<1> SUFFICES ASSUME Init PROVE CompletionInv
  OBVIOUS
<1>1. TypeOK
  BY InvInit DEF Inv
<1>2. \A i \in Ids : pending[i] = NoReq /\ buffer[i] = NoReq
  BY DEF Init
<1>3. Registered = {}
  BY <1>2, ConnectionAssumption DEF Registered
<1> QED
  BY <1>1, <1>2, <1>3 DEF CompletionInv, OwnIds, LeftInv, Init

\* Whoever wins the race for a call, its future is completed once; but _on_close may
\* put an error into one that is half done.  Ids may wrap, pings may come.
THEOREM NothingCompletesTwice == Spec => CompletedOnce
<1>1. CompletionInv /\ [Next]_vars => CompletionInv' /\ [KeepsCompleted]_vars
  BY CompletionStep
<1> QED
  BY <1>1, CompletionInit, PTL DEF Spec, CompletedOnce

\* If ids do not wrap, a close leaves no call waiting and tells the Peer, unless it
\* meets a call that is half done: a response that is still being streamed, or a
\* request that could not be written.
THEOREM ClosingFailsEveryCall ==
  ASSUME ~AllowWrap PROVE Spec => CloseFailsAll
<1>1. ASSUME Inv, CompletionInv, [Next]_vars PROVE FailsAll
  <2> SUFFICES ASSUME Closing, \A r \in Requests : ~HalfDone(r)
               PROVE  callback' /\ \A r \in Requests : future'[r] # "running"
    BY DEF FailsAll
  <2>1. OnClose
    BY <1>1
       DEF Closing, Next, Call, OnMessage, Remote, vars, SendRequest, Transmit,
           StreamFails, AdaptResult, RemoveOutstandingRequest, RequestTimedOut,
           Forget, Step, OnMessageIgnored, OnCallResponse, OnCallResponseContinue,
           OnError, OnForeignFrame, Take, OnReadError, Close, RemoteResponds,
           RemoteFails, RemoteNoise, Send, RemoteClose
  <2>2. Registered \subseteq Running
    BY <1>1 DEF CompletionInv, LeftInv, Closing, Running, Registered
  <2>3. LeftOver = {}
    BY <2>2 DEF LeftOver
  <2>4. FailWithNetworkError(Running) /\ callback' = TRUE
    BY <2>1, <2>3 DEF OnClose
  <2>5. \A r \in Requests : future[r] = "running" => r \in Running
    BY <1>1 DEF Inv, Rest, TypeOK, PendingInv, Running, Registered
  <2> QED
    BY <2>4, <2>5 DEF FailWithNetworkError
<1>2. Inv /\ [Next]_vars => Inv'
  BY InvStep
<1>3. CompletionInv /\ [Next]_vars => CompletionInv'
  BY CompletionStep
<1>4. Inv /\ CompletionInv /\ [Next]_vars => [FailsAll]_vars
  BY <1>1
<1> QED
  BY <1>2, <1>3, <1>4, InvInit, CompletionInit, PTL DEF Spec, CloseFailsAll

-----------------------------------------------------------------------------
(* Assembling responses of several frames.  None is skipped, because the   *)
(* wire keeps the order of frames and one that fails its checksum spoils   *)
(* all later ones of its response.                                         *)

ResponseTypes == {"CALL_RES", "CALL_RES_CONTINUE"}

\* The response frames for r on the wire w, and their number.
FramesOf(w, r) == {k \in DOMAIN w : w[k].of = r /\ w[k].type # "ERROR"}
Count(w, r) == Cardinality(FramesOf(w, r))

\* What the remote, which got as far as rem with each call, has put on the wire w: the
\* first frame of a response comes before the others, and nothing after the last.
WireOrder(w, rem) ==
  \A k \in DOMAIN w : w[k].of # NoReq =>
    /\ w[k].type \in ResponseTypes \cup {"ERROR"}
    /\ rem[w[k].of] \in {"streaming", "done"}
    /\ w[k].type = "ERROR" => ~w[k].more
    /\ ~w[k].more =>
         /\ rem[w[k].of] = "done"
         /\ \A j \in DOMAIN w : j > k => w[j].of # w[k].of
    /\ w[k].type = "CALL_RES" => \A j \in DOMAIN w : j < k => w[j].of # w[k].of

\* As long as the first frame has not arrived, all frames sent are on the wire.
FirstInv ==
  /\ \A k \in DOMAIN wire : wire[k].type = "CALL_RES" =>
       body[wire[k].of] = "none" /\ Count(wire, wire[k].of) = sent[wire[k].of]
  /\ \A r \in Requests : remote[r] \in {"idle", "called"} => body[r] = "none" /\ sent[r] = 0

\* A response that is being assembled and can still go on is made of all the frames
\* that are no longer on the wire.
AssemblyInv ==
  /\ \A i \in Ids : buffer[i] # NoReq => body[buffer[i]] \in {"open", "failed"}
  /\ \A r \in Requests : body[r] = "open" /\ pending[id[r]] = r =>
       buffer[id[r]] = r /\ frames[r] + Count(wire, r) = sent[r]
  /\ CompleteMeansAll

StreamInv == Inv /\ WireOrder(wire, remote) /\ FirstInv /\ AssemblyInv

LEMMA CountType ==
  ASSUME NEW w \in Seq(Frames), NEW r
  PROVE  IsFiniteSet(FramesOf(w, r)) /\ Count(w, r) \in Nat
<1>1. FramesOf(w, r) \in SUBSET (1 .. Len(w)) /\ Len(w) \in Int /\ 1 \in Int
  BY DEF FramesOf
<1>2. IsFiniteSet(1 .. Len(w))
  BY <1>1, FS_Interval
<1>3. IsFiniteSet(FramesOf(w, r))
  BY <1>1, <1>2, FS_Subset
<1> QED
  BY <1>3, FS_CardinalityType DEF Count

\* Sending a frame of a response adds one to those on the wire.
LEMMA CountAppend ==
  ASSUME NEW w \in Seq(Frames), NEW m \in Frames, NEW r
  PROVE  Count(Append(w, m), r) =
           IF m.of = r /\ m.type # "ERROR" THEN Count(w, r) + 1 ELSE Count(w, r)
<1> DEFINE n == Len(w) + 1
<1>1. /\ \A k \in DOMAIN w : Append(w, m)[k] = w[k]
      /\ Append(w, m)[n] = m /\ n \notin DOMAIN w
      /\ DOMAIN Append(w, m) = DOMAIN w \cup {n}
  OBVIOUS
<1>2. n \notin FramesOf(w, r)
  BY <1>1 DEF FramesOf
<1> HIDE DEF n
<1>3. FramesOf(Append(w, m), r) =
        IF m.of = r /\ m.type # "ERROR" THEN FramesOf(w, r) \cup {n} ELSE FramesOf(w, r)
  BY <1>1 DEF FramesOf
<1> QED
  BY <1>2, <1>3, CountType, FS_AddElement DEF Count

\* Taking a frame of a response off the wire takes one away.
LEMMA CountTail ==
  ASSUME NEW w \in Seq(Frames), w # <<>>, NEW r
  PROVE  Count(Tail(w), r) =
           IF w[1].of = r /\ w[1].type # "ERROR" THEN Count(w, r) - 1 ELSE Count(w, r)
<1> DEFINE S == FramesOf(w, r) \ {1}
           T == FramesOf(Tail(w), r)
           f == [k \in T |-> k + 1]
<1>1. /\ Tail(w) \in Seq(Frames) /\ 1 \in DOMAIN w /\ DOMAIN w \subseteq Nat \ {0}
      /\ DOMAIN Tail(w) \subseteq Nat
      /\ \A k \in DOMAIN Tail(w) : k + 1 \in DOMAIN w /\ Tail(w)[k] = w[k + 1] /\ k + 1 # 1
      /\ \A k \in DOMAIN w : k # 1 => k - 1 \in DOMAIN Tail(w) /\ (k - 1) + 1 = k
  OBVIOUS
<1>2. \A k \in T : k + 1 \in S
  BY <1>1 DEF FramesOf
<1>3. \A k \in S : k - 1 \in T /\ (k - 1) + 1 = k
  BY <1>1 DEF FramesOf
<1>4. T \subseteq Nat
  BY <1>1 DEF FramesOf
<1> HIDE DEF S, T
<1>5. f \in Bijection(T, S)
  <2>1. f \in [T -> S]
    BY <1>2
  <2>2. \A a, b \in T : f[a] = f[b] => a = b
    BY <1>4
  <2>3. \A s \in S : \E t \in T : f[t] = s
    BY <1>3
  <2> QED
    BY <2>1, <2>2, <2>3, Fun_IsBij
<1>6. IsFiniteSet(T) /\ IsFiniteSet(FramesOf(w, r))
  BY <1>1, CountType DEF T
<1>7. Cardinality(S) = Cardinality(T)
  BY <1>5, <1>6, FS_Bijection DEF ExistsBijection
<1>8. Cardinality(S) = IF 1 \in FramesOf(w, r) THEN Cardinality(FramesOf(w, r)) - 1
                       ELSE Cardinality(FramesOf(w, r))
  BY <1>6, FS_RemoveElement DEF S
<1> QED
  BY <1>1, <1>7, <1>8 DEF Count, T, FramesOf

\* Taking the first frame off the wire keeps the order of the others.
LEMMA OrderTail ==
  ASSUME NEW w \in Seq(Frames), w # <<>>, NEW rem, WireOrder(w, rem)
  PROVE  WireOrder(Tail(w), rem)
<1>1. /\ \A k \in DOMAIN Tail(w) : k + 1 \in DOMAIN w /\ Tail(w)[k] = w[k + 1]
      /\ \A k, j \in DOMAIN Tail(w) : (j > k <=> j + 1 > k + 1) /\ (j < k <=> j + 1 < k + 1)
  OBVIOUS
<1> SUFFICES ASSUME NEW k \in DOMAIN Tail(w), Tail(w)[k].of # NoReq
             PROVE  /\ Tail(w)[k].type \in ResponseTypes \cup {"ERROR"}
                    /\ rem[Tail(w)[k].of] \in {"streaming", "done"}
                    /\ Tail(w)[k].type = "ERROR" => ~Tail(w)[k].more
                    /\ ~Tail(w)[k].more =>
                         /\ rem[Tail(w)[k].of] = "done"
                         /\ \A j \in DOMAIN Tail(w) : j > k => Tail(w)[j].of # Tail(w)[k].of
                    /\ Tail(w)[k].type = "CALL_RES" =>
                         \A j \in DOMAIN Tail(w) : j < k => Tail(w)[j].of # Tail(w)[k].of
  BY DEF WireOrder
<1>2. k + 1 \in DOMAIN w /\ Tail(w)[k] = w[k + 1]
  BY <1>1
<1> QED
  BY <1>1, <1>2 DEF WireOrder

\* Sending the next frame for a call keeps the order, if the first frame was not sent
\* before and the last one was not.
LEMMA OrderAppend ==
  ASSUME NEW w \in Seq(Frames), NEW m \in Frames,
         NEW rem \in [Requests -> {"idle", "called", "streaming", "done"}], NEW st,
         WireOrder(w, rem),
         m.of = NoReq \/ (/\ m.type \in ResponseTypes \cup {"ERROR"}
                          /\ rem[m.of] \in {"called", "streaming"}
                          /\ m.type = "CALL_RES" => rem[m.of] = "called"
                          /\ m.type = "ERROR" => ~m.more
                          /\ st = IF m.more THEN "streaming" ELSE "done")
  PROVE  WireOrder(Append(w, m),
                   IF m.of = NoReq THEN rem ELSE [rem EXCEPT ![m.of] = st])
<1> DEFINE v == Append(w, m)
           n == Len(w) + 1
           new == IF m.of = NoReq THEN rem ELSE [rem EXCEPT ![m.of] = st]
<1>1. /\ \A k \in DOMAIN w : v[k] = w[k] /\ k < n
      /\ v[n] = m
      /\ DOMAIN v = DOMAIN w \cup {n}
      /\ DOMAIN w \subseteq Nat /\ n \in Nat
  OBVIOUS
<1>2. m.of \in Requests \cup {NoReq} /\ \A k \in DOMAIN w : w[k].of \in Requests \cup {NoReq}
  <2>1. \A k \in DOMAIN w : w[k] \in Frames
    OBVIOUS
  <2> QED
    BY <2>1 DEF Frames
<1>3. m.of # NoReq => m.of \in Requests /\ new[m.of] = st
  BY <1>2
<1>4. \A r \in Requests : r # m.of => new[r] = rem[r]
  BY <1>2
<1> HIDE DEF v, n, new
\* Frames for the same call that are on the wire are not the last.
<1>5. ASSUME NEW k \in DOMAIN w, w[k].of # NoReq, w[k].of = m.of
      PROVE  w[k].more /\ rem[m.of] = "streaming"
  BY <1>5 DEF WireOrder
<1> SUFFICES ASSUME NEW k \in DOMAIN v, v[k].of # NoReq
             PROVE  /\ v[k].type \in ResponseTypes \cup {"ERROR"}
                    /\ new[v[k].of] \in {"streaming", "done"}
                    /\ v[k].type = "ERROR" => ~v[k].more
                    /\ ~v[k].more =>
                         /\ new[v[k].of] = "done"
                         /\ \A j \in DOMAIN v : j > k => v[j].of # v[k].of
                    /\ v[k].type = "CALL_RES" =>
                         \A j \in DOMAIN v : j < k => v[j].of # v[k].of
  BY DEF WireOrder, v, new
<1>6. CASE k = n
  <2>1. v[k] = m /\ m.of \in Requests /\ new[m.of] = st /\ m.of # NoReq
    BY <1>1, <1>3, <1>6
  <2>2. \A j \in DOMAIN v : ~(j > k)
    BY <1>1, <1>6
  <2>3. m.type = "CALL_RES" => \A j \in DOMAIN v : j < k => v[j].of # m.of
    <3> SUFFICES ASSUME m.type = "CALL_RES", NEW j \in DOMAIN v, j < k, v[j].of = m.of
                 PROVE  FALSE
      OBVIOUS
    <3>1. j \in DOMAIN w /\ w[j].of = m.of
      BY <1>1, <1>6
    <3> QED
      BY <1>5, <2>1, <3>1
  <2> QED
    BY <2>1, <2>2, <2>3
<1>7. CASE k \in DOMAIN w
  <2>1. v[k] = w[k] /\ w[k].of \in Requests
    BY <1>1, <1>2, <1>7
  <2>2. CASE w[k].of = m.of
    <3>1. w[k].more /\ rem[m.of] = "streaming" /\ m.of # NoReq
      BY <1>5, <1>7, <2>1, <2>2
    <3>2. new[w[k].of] \in {"streaming", "done"}
      BY <1>3, <2>2, <3>1
    <3>3. w[k].type = "CALL_RES" => \A j \in DOMAIN v : j < k => v[j].of # v[k].of
      BY <1>1, <1>7, <2>1 DEF WireOrder
    <3> QED
      BY <1>7, <2>1, <3>1, <3>2, <3>3 DEF WireOrder
  <2>3. CASE w[k].of # m.of
    <3>1. new[w[k].of] = rem[w[k].of]
      BY <1>4, <2>1, <2>3
    <3>2. ~w[k].more => \A j \in DOMAIN v : j > k => v[j].of # v[k].of
      BY <1>1, <1>7, <2>1, <2>3 DEF WireOrder
    <3>3. w[k].type = "CALL_RES" => \A j \in DOMAIN v : j < k => v[j].of # v[k].of
      BY <1>1, <1>7, <2>1 DEF WireOrder
    <3> QED
      BY <1>7, <2>1, <3>1, <3>2, <3>3 DEF WireOrder
  <2> QED
    BY <2>2, <2>3
<1> QED
  BY <1>1, <1>6, <1>7

\* A frame is taken, and no response begins but the one it is for.
LEMMA FirstKept ==
  ASSUME StreamInv, NEW m, Take(m),
         \A r \in Requests : body[r] = "none" /\ r # m.of => body'[r] = "none"
  PROVE  FirstInv'
<1>1. /\ wire \in Seq(Frames) /\ wire # <<>> /\ m = wire[1] /\ wire' = Tail(wire)
      /\ 1 \in DOMAIN wire /\ UNCHANGED <<sent, remote>>
  BY WireFacts DEF StreamInv, Inv, TypeOK, Take
<1>2. wire' \in Seq(Frames) /\ DOMAIN wire' \subseteq Nat /\ NoReq \notin Requests
  BY <1>1, ConnectionAssumption
<1>3. ASSUME NEW k \in DOMAIN wire', wire'[k].type = "CALL_RES"
      PROVE  body'[wire'[k].of] = "none" /\ Count(wire', wire'[k].of) = sent[wire'[k].of]
  <2> DEFINE r == wire'[k].of
  <2>1. k + 1 \in DOMAIN wire /\ wire'[k] = wire[k + 1] /\ 1 < k + 1
    BY <1>1, <1>2, <1>3
  <2>2. r \in Requests /\ r # NoReq
    <3>1. wire'[k] \in Frames
      BY <1>2, <1>3
    <3>2. r # NoReq
      BY <1>3, <2>1, ConnectionAssumption DEF StreamInv, Inv, Rest, WireInv, NoiseKinds
    <3> QED
      BY <3>1, <3>2 DEF Frames
  <2>3. body[r] = "none" /\ Count(wire, r) = sent[r]
    BY <1>3, <2>1 DEF StreamInv, FirstInv
  <2>4. wire[1].of # r
    BY <1>1, <1>3, <2>1, <2>2 DEF StreamInv, WireOrder
  <2>5. Count(wire', r) = Count(wire, r)
    BY <1>1, <2>4, CountTail
  <2> QED
    BY <1>1, <2>2, <2>3, <2>4, <2>5
<1>4. ASSUME NEW r \in Requests, remote[r] \in {"idle", "called"}
      PROVE  body'[r] = "none" /\ sent[r] = 0
  <2>1. m.of # r
    BY <1>1, <1>2, <1>4 DEF StreamInv, WireOrder
  <2> QED
    BY <1>4, <2>1 DEF StreamInv, FirstInv
<1> QED
  BY <1>1, <1>3, <1>4 DEF FirstInv

\* Taking a frame off the wire, when no assembled response changes but one that spoils
\* (in S): the frame that is taken is not missed by a response that can still go on.
LEMMA DropKeepsStream ==
  ASSUME StreamInv, Inv', NEW m, Take(m),
         NEW S \in SUBSET Requests,
         body' = [r \in Requests |-> IF r \in S THEN "failed" ELSE body[r]],
         frames' = frames,
         \A r \in S : body[r] \in {"open", "failed"},
         \A i \in Ids : buffer'[i] = buffer[i] \/ buffer'[i] = NoReq,
         \A i \in Ids : pending'[i] = pending[i] \/ pending'[i] = NoReq,
         \A r \in Requests : body'[r] = "open" /\ pending'[id[r]] = r =>
           buffer'[id[r]] = buffer[id[r]] /\ ~(m.of = r /\ m.type # "ERROR")
  PROVE  StreamInv'
<1>1. /\ wire \in Seq(Frames) /\ wire # <<>> /\ m = wire[1] /\ wire' = Tail(wire)
      /\ UNCHANGED <<id, sent, remote>>
  BY WireFacts DEF StreamInv, Inv, TypeOK, Take
<1>2. WireOrder(wire', remote')
  BY <1>1, OrderTail DEF StreamInv
<1>3. /\ id \in [Requests -> Ids] /\ body \in [Requests -> {"none", "open", "complete", "failed"}]
      /\ buffer \in [Ids -> Requests \cup {NoReq}] /\ wire' \in Seq(Frames)
      /\ pending \in [Ids -> Requests \cup {NoReq}] /\ NoReq \notin Requests
      /\ DOMAIN wire' \subseteq Nat
  BY <1>1, ConnectionAssumption DEF StreamInv, Inv, TypeOK
<1>4. \A r \in Requests : body'[r] = IF r \in S THEN "failed" ELSE body[r]
  OBVIOUS
<1>5. FirstInv'
  BY <1>4, FirstKept
<1>6. AssemblyInv'
  <2>1. \A i \in Ids : buffer'[i] # NoReq => body'[buffer'[i]] \in {"open", "failed"}
    BY <1>3, <1>4 DEF StreamInv, AssemblyInv
  <2>2. ASSUME NEW r \in Requests, body'[r] = "open", pending'[id'[r]] = r
        PROVE  buffer'[id'[r]] = r /\ frames'[r] + Count(wire', r) = sent'[r]
    <3>1. body[r] = "open" /\ pending[id[r]] = r /\ id' = id
      BY <1>1, <1>3, <1>4, <2>2
    <3>2. buffer[id[r]] = r /\ frames[r] + Count(wire, r) = sent[r]
      BY <3>1 DEF StreamInv, AssemblyInv
    <3>3. buffer'[id[r]] = r /\ ~(m.of = r /\ m.type # "ERROR")
      BY <2>2, <3>1, <3>2
    <3>4. Count(wire', r) = Count(wire, r)
      BY <1>1, <3>3, CountTail
    <3> QED
      BY <1>1, <3>2, <3>3, <3>4
  <2>3. CompleteMeansAll'
    BY <1>1, <1>4 DEF StreamInv, AssemblyInv, CompleteMeansAll
  <2> QED
    BY <2>1, <2>2, <2>3 DEF AssemblyInv
<1> QED
  BY <1>2, <1>5, <1>6 DEF StreamInv

\* Steps that neither touch the wire nor what is assembled, nor register anything but
\* a new call.
LEMMA QuietKeepsStream ==
  ASSUME StreamInv, Inv', UNCHANGED <<wire, assembly, sent>>,
         remote' = remote \/ \E r \in Requests :
           remote[r] = "idle" /\ remote' = [remote EXCEPT ![r] = "called"],
         \A r \in Requests : body[r] = "open" /\ pending'[id'[r]] = r =>
           id'[r] = id[r] /\ pending[id[r]] = r
  PROVE  StreamInv'
<1>1. remote \in [Requests -> {"idle", "called", "streaming", "done"}]
  BY DEF StreamInv, Inv, TypeOK
<1>2. \A r \in Requests : /\ remote[r] \in {"streaming", "done"} => remote'[r] = remote[r]
                          /\ remote'[r] \in {"idle", "called"} => remote[r] \in {"idle", "called"}
  BY <1>1
<1>3. \A k \in DOMAIN wire : wire[k].of \in Requests \cup {NoReq}
  <2>1. \A k \in DOMAIN wire : wire[k] \in Frames
    BY DEF StreamInv, Inv, TypeOK
  <2> QED
    BY <2>1 DEF Frames
<1>4. WireOrder(wire', remote')
  BY <1>2, <1>3 DEF StreamInv, WireOrder
<1>5. FirstInv'
  BY <1>2 DEF StreamInv, FirstInv, assembly
<1>6. AssemblyInv'
  <2>1. CompleteMeansAll'
    BY <1>2 DEF StreamInv, AssemblyInv, CompleteMeansAll, assembly
  <2> QED
    BY <2>1 DEF StreamInv, AssemblyInv, assembly
<1> QED
  BY <1>4, <1>5, <1>6 DEF StreamInv

\* Two calls never share an id: what is buffered under an id is what is registered there.
LEMMA OneCallPerId ==
  ASSUME Inv, NEW i \in Ids, buffer[i] # NoReq, NEW r \in Made, id[r] = i
  PROVE  buffer[i] = r
<1>1. buffer[i] \in Requests /\ future[buffer[i]] \in Outcomes /\ id[buffer[i]] = i
  BY DEF Inv, Rest, TypeOK, BufferInv
<1>2. buffer[i] \in Made
  BY <1>1 DEF Made, Outcomes
<1> QED
  BY <1>1, <1>2 DEF Inv, Rest, IdInv

\* The first frame of a response is taken and is whole.
LEMMA FirstFrameKeepsStream ==
  ASSUME StreamInv, Inv', NEW m, Take(m), ~Passes(m), m.type = "CALL_RES", m.ok,
         frames' = [frames EXCEPT ![pending[m.id]] = 1],
         body' = [body EXCEPT ![pending[m.id]] = IF m.more THEN "open" ELSE "complete"],
         buffer' = IF m.more THEN [buffer EXCEPT ![m.id] = pending[m.id]] ELSE buffer,
         PopUnlessStreaming(m)
  PROVE  StreamInv'
<1> DEFINE q == m.of
<1>0. Inv
  BY DEF StreamInv
<1>1. /\ wire \in Seq(Frames) /\ wire # <<>> /\ m = wire[1] /\ wire' = Tail(wire)
      /\ 1 \in DOMAIN wire /\ UNCHANGED <<id, sent, remote>>
  BY <1>0, WireFacts DEF Inv, TypeOK, Take
<1>2. m.id \in Ids /\ q \in Requests /\ q \in Made /\ m.id = id[q] /\ pending[m.id] = q
  <2>1. q # NoReq
    BY <1>0, TakeFacts, ConnectionAssumption DEF NoiseKinds
  <2> QED
    BY <1>0, <2>1, TakeFacts
<1>3. /\ id \in [Requests -> Ids] /\ body \in [Requests -> {"none", "open", "complete", "failed"}]
      /\ buffer \in [Ids -> Requests \cup {NoReq}] /\ wire' \in Seq(Frames)
      /\ pending \in [Ids -> Requests \cup {NoReq}] /\ NoReq \notin Requests
      /\ DOMAIN wire' \subseteq Nat /\ frames \in [Requests -> Nat]
  BY <1>0, <1>1, ConnectionAssumption DEF Inv, TypeOK
<1>4. /\ \A r \in Requests : body'[r] = IF r = q THEN IF m.more THEN "open" ELSE "complete"
                                        ELSE body[r]
      /\ \A r \in Requests : frames'[r] = IF r = q THEN 1 ELSE frames[r]
      /\ \A i \in Ids : buffer'[i] = IF m.more /\ i = m.id THEN q ELSE buffer[i]
      /\ \A i \in Ids : pending'[i] = pending[i] \/ pending'[i] = NoReq
  BY <1>2, <1>3 DEF PopUnlessStreaming
<1>5. body[q] = "none" /\ Count(wire, q) = sent[q] /\ remote[q] \in {"streaming", "done"}
  BY <1>1, <1>2, <1>3 DEF StreamInv, FirstInv, WireOrder
<1>6. Count(wire', q) = Count(wire, q) - 1 /\ Count(wire, q) \in Nat
  BY <1>1, CountTail, CountType
<1>7. WireOrder(wire', remote')
  BY <1>1, OrderTail DEF StreamInv
<1>8. FirstInv'
  BY <1>4, FirstKept
<1>9. AssemblyInv'
  <2>1. \A i \in Ids : buffer'[i] # NoReq => body'[buffer'[i]] \in {"open", "failed"}
    <3> SUFFICES ASSUME NEW i \in Ids, buffer'[i] # NoReq
                 PROVE  body'[buffer'[i]] \in {"open", "failed"}
      OBVIOUS
    <3>1. CASE m.more /\ i = m.id
      BY <1>2, <1>4, <3>1
    <3>2. CASE ~(m.more /\ i = m.id)
      <4>1. buffer'[i] = buffer[i] /\ buffer[i] \in Requests
        BY <1>3, <1>4, <3>2
      <4>2. body[buffer[i]] \in {"open", "failed"}
        BY <4>1 DEF StreamInv, AssemblyInv
      <4> QED
        BY <1>4, <1>5, <4>1, <4>2
    <3> QED
      BY <3>1, <3>2
  <2>2. ASSUME NEW r \in Requests, body'[r] = "open", pending'[id'[r]] = r
        PROVE  buffer'[id'[r]] = r /\ frames'[r] + Count(wire', r) = sent'[r]
    <3>1. CASE r = q
      BY <1>1, <1>2, <1>4, <1>5, <1>6, <2>2, <3>1, SMTT(30)
    <3>2. CASE r # q
      <4>1. body[r] = "open" /\ pending[id[r]] = r /\ id' = id /\ id[r] # m.id
        BY <1>1, <1>2, <1>3, <1>4, <2>2, <3>2
      <4>2. buffer[id[r]] = r /\ frames[r] + Count(wire, r) = sent[r]
        BY <4>1 DEF StreamInv, AssemblyInv
      <4>3. Count(wire', r) = Count(wire, r)
        BY <1>1, <3>2, CountTail
      <4> QED
        BY <1>1, <1>3, <1>4, <3>2, <4>1, <4>2, <4>3
    <3> QED
      BY <3>1, <3>2
  <2>3. CompleteMeansAll'
    <3> SUFFICES ASSUME NEW r \in Requests, body'[r] = "complete"
                 PROVE  remote'[r] = "done" /\ frames'[r] = sent'[r]
      BY DEF CompleteMeansAll
    <3>1. CASE r = q
      <4>1. ~m.more
        BY <1>4, <3>1
      <4>2. remote[q] = "done" /\ \A j \in DOMAIN wire : j > 1 => wire[j].of # q
        BY <1>1, <1>2, <1>3, <4>1 DEF StreamInv, WireOrder
      <4>3. FramesOf(wire, q) = {1}
        BY <1>1, <4>2 DEF FramesOf
      <4>4. Count(wire, q) = 1
        BY <4>3, FS_Singleton DEF Count
      <4> QED
        BY <1>1, <1>4, <1>5, <3>1, <4>2, <4>4
    <3>2. CASE r # q
      BY <1>1, <1>4, <3>2 DEF StreamInv, AssemblyInv, CompleteMeansAll
    <3> QED
      BY <3>1, <3>2
  <2> QED
    BY <2>1, <2>2, <2>3 DEF AssemblyInv
<1> QED
  BY <1>7, <1>8, <1>9 DEF StreamInv

\* A later frame of a response is taken, and all frames until now were whole.
LEMMA NextFrameKeepsStream ==
  ASSUME StreamInv, Inv', NEW m, Take(m), ~Passes(m), m.type = "CALL_RES_CONTINUE",
         buffer[m.id] # NoReq, body[buffer[m.id]] # "failed",
         frames' = [frames EXCEPT ![buffer[m.id]] = @ + 1],
         body' = [body EXCEPT ![buffer[m.id]] = IF m.more THEN @ ELSE "complete"],
         buffer' = IF m.more THEN buffer ELSE [buffer EXCEPT ![m.id] = NoReq],
         PopUnlessStreaming(m)
  PROVE  StreamInv'
<1> DEFINE q == m.of
<1>0. Inv
  BY DEF StreamInv
<1>1. /\ wire \in Seq(Frames) /\ wire # <<>> /\ m = wire[1] /\ wire' = Tail(wire)
      /\ 1 \in DOMAIN wire /\ UNCHANGED <<id, sent, remote>>
  BY <1>0, WireFacts DEF Inv, TypeOK, Take
<1>2. m.id \in Ids /\ q \in Requests /\ q \in Made /\ m.id = id[q] /\ pending[m.id] = q
  <2>1. q # NoReq
    BY <1>0, TakeFacts, ConnectionAssumption DEF NoiseKinds
  <2> QED
    BY <1>0, <2>1, TakeFacts
<1>3. /\ id \in [Requests -> Ids] /\ body \in [Requests -> {"none", "open", "complete", "failed"}]
      /\ buffer \in [Ids -> Requests \cup {NoReq}] /\ wire' \in Seq(Frames)
      /\ pending \in [Ids -> Requests \cup {NoReq}] /\ NoReq \notin Requests
      /\ DOMAIN wire' \subseteq Nat /\ frames \in [Requests -> Nat]
  BY <1>0, <1>1, ConnectionAssumption DEF Inv, TypeOK
<1>4. buffer[m.id] = q
  BY <1>0, <1>2, OneCallPerId
<1>5. body[q] = "open" /\ frames[q] + Count(wire, q) = sent[q]
  BY <1>2, <1>4 DEF StreamInv, AssemblyInv
<1>6. /\ \A r \in Requests : body'[r] = IF r = q /\ ~m.more THEN "complete" ELSE body[r]
      /\ \A r \in Requests : frames'[r] = IF r = q THEN frames[q] + 1 ELSE frames[r]
      /\ \A i \in Ids : buffer'[i] = IF ~m.more /\ i = m.id THEN NoReq ELSE buffer[i]
      /\ \A i \in Ids : pending'[i] = IF ~m.more /\ i = m.id THEN NoReq ELSE pending[i]
  BY <1>2, <1>3, <1>4 DEF PopUnlessStreaming, StillStreaming
<1>7. Count(wire', q) = Count(wire, q) - 1 /\ Count(wire, q) \in Nat
  BY <1>1, CountTail, CountType
<1>8. WireOrder(wire', remote')
  BY <1>1, OrderTail DEF StreamInv
<1>9. FirstInv'
  BY <1>5, <1>6, FirstKept
<1>10. AssemblyInv'
  <2>1. \A i \in Ids : buffer'[i] # NoReq => body'[buffer'[i]] \in {"open", "failed"}
    <3> SUFFICES ASSUME NEW i \in Ids, buffer'[i] # NoReq
                 PROVE  body'[buffer'[i]] \in {"open", "failed"}
      OBVIOUS
    <3>1. buffer'[i] = buffer[i] /\ buffer[i] \in Requests /\ ~(~m.more /\ i = m.id)
      BY <1>3, <1>6
    <3>2. body[buffer[i]] \in {"open", "failed"} /\ id[buffer[i]] = i
      BY <1>0, <3>1 DEF StreamInv, AssemblyInv, Inv, Rest, BufferInv
    <3>3. m.more \/ buffer[i] # q
      BY <1>2, <3>1, <3>2
    <3> QED
      BY <1>6, <3>1, <3>2, <3>3
  <2>2. ASSUME NEW r \in Requests, body'[r] = "open", pending'[id'[r]] = r
        PROVE  buffer'[id'[r]] = r /\ frames'[r] + Count(wire', r) = sent'[r]
    <3>1. CASE r = q
      <4>1. m.more /\ id' = id
        BY <1>1, <1>2, <1>6, <2>2, <3>1
      <4>2. buffer'[id[q]] = q /\ frames'[q] = frames[q] + 1
        BY <1>2, <1>4, <1>6, <4>1
      <4>3. frames[q] \in Nat
        BY <1>2, <1>3
      <4> QED
        BY <1>1, <1>5, <1>7, <3>1, <4>1, <4>2, <4>3
    <3>2. CASE r # q
      <4>1. body[r] = "open" /\ pending[id[r]] = r /\ id' = id /\ id[r] # m.id
        BY <1>1, <1>2, <1>3, <1>6, <2>2, <3>2
      <4>2. buffer[id[r]] = r /\ frames[r] + Count(wire, r) = sent[r]
        BY <4>1 DEF StreamInv, AssemblyInv
      <4>3. Count(wire', r) = Count(wire, r)
        BY <1>1, <3>2, CountTail
      <4> QED
        BY <1>1, <1>3, <1>6, <3>2, <4>1, <4>2, <4>3
    <3> QED
      BY <3>1, <3>2
  <2>3. CompleteMeansAll'
    <3> SUFFICES ASSUME NEW r \in Requests, body'[r] = "complete"
                 PROVE  remote'[r] = "done" /\ frames'[r] = sent'[r]
      BY DEF CompleteMeansAll
    <3>1. CASE r = q
      <4>1. ~m.more
        BY <1>5, <1>6, <3>1
      <4>2. remote[q] = "done" /\ \A j \in DOMAIN wire : j > 1 => wire[j].of # q
        BY <1>1, <1>2, <1>3, <4>1 DEF StreamInv, WireOrder
      <4>3. FramesOf(wire, q) = {1}
        BY <1>1, <4>2 DEF FramesOf
      <4>4. Count(wire, q) = 1
        BY <4>3, FS_Singleton DEF Count
      <4>5. frames'[q] = frames[q] + 1
        BY <1>2, <1>6
      <4> QED
        BY <1>1, <1>5, <3>1, <4>2, <4>4, <4>5
    <3>2. CASE r # q
      BY <1>1, <1>6, <3>2 DEF StreamInv, AssemblyInv, CompleteMeansAll
    <3> QED
      BY <3>1, <3>2
  <2> QED
    BY <2>1, <2>2, <2>3 DEF AssemblyInv
<1> QED
  BY <1>8, <1>9, <1>10 DEF StreamInv

\* The remote sends the next frame for a call that it has not finished, or one of its own.
LEMMA SendKeepsStream ==
  ASSUME StreamInv, Inv', NEW m \in Frames, Send(m),
         m.of = NoReq \/ (/\ m.type \in ResponseTypes \cup {"ERROR"}
                          /\ remote[m.of] \in {"called", "streaming"}
                          /\ m.type = "CALL_RES" => remote[m.of] = "called"
                          /\ m.type = "ERROR" => ~m.more),
         m.of = NoReq => m.type # "CALL_RES",
         remote' = IF m.of = NoReq THEN remote
                   ELSE [remote EXCEPT ![m.of] = IF m.more THEN "streaming" ELSE "done"],
         sent' = IF m.of = NoReq \/ m.type = "ERROR" THEN sent
                 ELSE [sent EXCEPT ![m.of] = @ + 1]
  PROVE  StreamInv'
<1> DEFINE q == m.of
<1>0. Inv
  BY DEF StreamInv
<1>1. /\ wire \in Seq(Frames) /\ wire' = Append(wire, m)
      /\ UNCHANGED <<id, pending, body, buffer, frames>>
  BY <1>0 DEF Inv, TypeOK, Send, futures, assembly
<1>2. /\ remote \in [Requests -> {"idle", "called", "streaming", "done"}]
      /\ sent \in [Requests -> Nat] /\ NoReq \notin Requests /\ frames \in [Requests -> Nat]
      /\ q \in Requests \cup {NoReq}
  BY <1>0, ConnectionAssumption DEF Inv, TypeOK, Frames
<1>3. WireOrder(wire', remote')
  BY <1>1, <1>2, OrderAppend DEF StreamInv
<1>4. \A r \in Requests :
        /\ Count(wire, r) \in Nat
        /\ IF q = r /\ m.type # "ERROR"
           THEN Count(wire', r) = Count(wire, r) + 1 /\ sent'[r] = sent[r] + 1
           ELSE Count(wire', r) = Count(wire, r) /\ sent'[r] = sent[r]
  <2>1. \A r \in Requests :
          IF q = r /\ m.type # "ERROR" THEN sent'[r] = sent[r] + 1 ELSE sent'[r] = sent[r]
    BY <1>2
  <2>2. \A r \in Requests : Count(wire', r) =
          IF q = r /\ m.type # "ERROR" THEN Count(wire, r) + 1 ELSE Count(wire, r)
    BY <1>1, CountAppend
  <2> QED
    BY <1>1, <2>1, <2>2, CountType
<1>5. \A r \in Requests : /\ remote'[r] # remote[r] => r = q
                          /\ remote'[r] \in {"idle", "called"} => r # q
  BY <1>2
<1>6. FirstInv'
  <2>1. ASSUME NEW k \in DOMAIN wire', wire'[k].type = "CALL_RES"
        PROVE  body[wire'[k].of] = "none" /\ Count(wire', wire'[k].of) = sent'[wire'[k].of]
    <3> DEFINE r == wire'[k].of
    <3>1. CASE k \in DOMAIN wire
      <4>1. wire'[k] = wire[k] /\ wire[k] \in Frames
        BY <1>1, <3>1
      <4>2. r \in Requests
        BY <1>0, <2>1, <3>1, <4>1, ConnectionAssumption
           DEF Inv, Rest, WireInv, NoiseKinds, Frames
      <4>3. body[r] = "none" /\ Count(wire, r) = sent[r]
        BY <2>1, <3>1, <4>1 DEF StreamInv, FirstInv
      <4> QED
        BY <1>4, <4>2, <4>3
    <3>2. CASE k \notin DOMAIN wire
      <4>1. wire'[k] = m
        BY <1>1, <3>2
      <4>2. q \in Requests /\ remote[q] = "called" /\ r = q
        BY <1>2, <2>1, <4>1
      <4>3. body[q] = "none" /\ sent[q] = 0
        BY <4>2 DEF StreamInv, FirstInv
      <4>4. FramesOf(wire, q) = {}
        BY <1>2, <4>2 DEF FramesOf, StreamInv, WireOrder
      <4>5. Count(wire, q) = 0
        BY <4>4, FS_EmptySet DEF Count
      <4> QED
        BY <1>4, <2>1, <4>1, <4>2, <4>3, <4>5
    <3> QED
      BY <3>1, <3>2
  <2>2. \A r \in Requests : remote'[r] \in {"idle", "called"} => body[r] = "none" /\ sent'[r] = 0
    BY <1>4, <1>5 DEF StreamInv, FirstInv
  <2> QED
    BY <1>1, <2>1, <2>2 DEF FirstInv
<1>7. AssemblyInv'
  <2>1. ASSUME NEW r \in Requests, body[r] = "open", pending[id[r]] = r
        PROVE  buffer[id[r]] = r /\ frames[r] + Count(wire', r) = sent'[r]
    <3>1. buffer[id[r]] = r /\ frames[r] + Count(wire, r) = sent[r]
      BY <2>1 DEF StreamInv, AssemblyInv
    <3>2. frames[r] \in Nat /\ sent[r] \in Nat
      BY <1>2
    <3> QED
      BY <1>4, <3>1, <3>2
  <2>2. ASSUME NEW r \in Requests, body[r] = "complete"
        PROVE  remote'[r] = "done" /\ frames[r] = sent'[r]
    <3>1. remote[r] = "done" /\ frames[r] = sent[r]
      BY <2>2 DEF StreamInv, AssemblyInv, CompleteMeansAll
    <3>2. r # q
      BY <1>2, <3>1
    <3> QED
      BY <1>4, <1>5, <3>1, <3>2
  <2> QED
    BY <1>1, <2>1, <2>2 DEF StreamInv, AssemblyInv, CompleteMeansAll
<1> QED
  BY <1>3, <1>6, <1>7 DEF StreamInv

\* Every step keeps the order of the wire and what is assembled from it.
LEMMA StreamStep ==
  ASSUME ~AllowWrap, StreamInv, [Next]_vars
  PROVE  StreamInv'
<1>0. Inv /\ Inv'
  BY InvStep DEF StreamInv
<1>1. /\ id \in [Requests -> Ids] /\ pending \in [Ids -> Requests \cup {NoReq}]
      /\ body \in [Requests -> {"none", "open", "complete", "failed"}]
      /\ buffer \in [Ids -> Requests \cup {NoReq}] /\ frames \in [Requests -> Nat]
      /\ remote \in [Requests -> {"idle", "called", "streaming", "done"}]
      /\ wireId \in [Requests -> Ids] /\ sequence \in Ids /\ NoReq \notin Requests
  BY <1>0, ConnectionAssumption DEF Inv, TypeOK
\* Calls.
<1>2. ASSUME NEW r \in Requests, SendRequest(r) PROVE StreamInv'
  <2> DEFINE i == NextMessageId(sequence)
  <2>1. /\ i \in Ids /\ id' = [id EXCEPT ![r] = i]
        /\ pending' = pending \/ pending' = [pending EXCEPT ![i] = r]
        /\ UNCHANGED <<wire, assembly, sent, remote>>
    BY <1>1, <1>2, NextIdType DEF SendRequest, peer
  <2>2. remote[r] = "idle"
    BY <1>0, <1>2 DEF SendRequest, Inv, Rest, FutureInv, WireInv, Made
  <2>3. body[r] = "none"
    BY <2>2 DEF StreamInv, FirstInv
  <2> HIDE DEF i
  <2>4. \A q \in Requests : body[q] = "open" /\ pending'[id'[q]] = q =>
          id'[q] = id[q] /\ pending[id[q]] = q
    BY <1>1, <2>1, <2>3
  <2> QED
    BY <1>0, <2>1, <2>4, QuietKeepsStream
<1>3. ASSUME NEW r \in Requests, Transmit(r) PROVE StreamInv'
  <2>1. /\ remote[r] = "idle" /\ remote' = [remote EXCEPT ![r] = "called"]
        /\ UNCHANGED <<wire, assembly, sent, id, pending>>
    BY <1>3 DEF Transmit, futures
  <2> QED
    BY <1>0, <2>1, QuietKeepsStream
<1>4. ASSUME NEW r \in Requests,
             StreamFails(r) \/ AdaptResult(r) \/ RemoveOutstandingRequest(r)
             \/ RequestTimedOut(r)
      PROVE  StreamInv'
  <2>1. /\ UNCHANGED <<wire, assembly, sent, id, remote>>
        /\ pending' = pending \/ pending' = [pending EXCEPT ![id[r]] = NoReq]
    BY <1>4 DEF StreamFails, AdaptResult, RemoveOutstandingRequest, RequestTimedOut, peer
  <2>2. \A q \in Requests : pending'[id'[q]] = q => id'[q] = id[q] /\ pending[id[q]] = q
    BY <1>1, <2>1
  <2> QED
    BY <1>0, <2>1, <2>2, QuietKeepsStream
\* The loop, closing, and what changes neither.
<1>5. ASSUME (\E i \in Ids : Forget(i)) \/ Step \/ OnReadError \/ Close \/ RemoteClose
             \/ UNCHANGED vars
      PROVE  StreamInv'
  <2>1. UNCHANGED <<wire, assembly, sent, remote, id, pending>>
    BY <1>5 DEF Forget, Step, OnReadError, Close, RemoteClose, vars, futures, peer
  <2> QED
    BY <1>0, <2>1, QuietKeepsStream
<1>6. CASE OnClose
  <2>1. /\ UNCHANGED <<wire, assembly, sent, remote, id>>
        /\ pending' = pending \/ pending' = [i \in Ids |-> NoReq]
    BY <1>6 DEF OnClose, peer
  <2>2. \A q \in Requests : pending'[id'[q]] = q => id'[q] = id[q] /\ pending[id[q]] = q
    BY <1>1, <2>1
  <2> QED
    BY <1>0, <2>1, <2>2, QuietKeepsStream
\* Frames.
<1>7. ASSUME NEW m, Take(m), UNCHANGED <<body, frames, buffer>>,
             \A i \in Ids : pending'[i] = pending[i] \/ pending'[i] = NoReq,
             m.of # NoReq /\ m.type # "ERROR" =>
               body[m.of] # "open" \/ pending'[id[m.of]] # m.of
      PROVE  StreamInv'
  <2>1. body' = [r \in Requests |-> IF r \in {} THEN "failed" ELSE body[r]]
    BY <1>1, <1>7
  <2>2. {} \in SUBSET Requests
    OBVIOUS
  <2>3. \A r \in Requests : body'[r] = "open" /\ pending'[id[r]] = r =>
          buffer'[id[r]] = buffer[id[r]] /\ ~(m.of = r /\ m.type # "ERROR")
    BY <1>1, <1>7
  <2>4. \A r \in {} : body[r] \in {"open", "failed"}
    OBVIOUS
  <2> HIDE DEF StreamInv
  <2> QED
    BY <1>0, <1>7, <2>1, <2>2, <2>3, <2>4, DropKeepsStream
<1>8. CASE OnMessageIgnored
  <2>1. PICK m : Take(m) /\ Passes(m) /\ UNCHANGED <<pending, body, frames, buffer>>
    BY <1>8 DEF OnMessageIgnored, assembly
  <2>2. ASSUME m.of # NoReq PROVE pending[id[m.of]] # m.of
    <3>1. m.type \notin {"CALL_REQ", "MALFORMED"}
      <4>1. m = wire[1] /\ 1 \in DOMAIN wire
        BY <1>0, <2>1, WireFacts DEF Inv, TypeOK, Take
      <4> QED
        BY <2>2, <4>1 DEF StreamInv, WireOrder, ResponseTypes
    <3>2. m.id = id[m.of]
      BY <1>0, <2>1, <2>2, TakeFacts
    <3> QED
      BY <2>1, <2>2, <3>1, <3>2 DEF Passes
  <2> QED
    BY <1>7, <2>1, <2>2
<1>9. CASE OnForeignFrame
  <2>1. PICK m : /\ Take(m) /\ ~Passes(m) /\ m.type = "PING_REQ" /\ PopUnlessStreaming(m)
                 /\ UNCHANGED <<body, frames, buffer>>
    BY <1>9 DEF OnForeignFrame, assembly
  <2>2. m.of = NoReq
    <3>1. m = wire[1] /\ 1 \in DOMAIN wire
      BY <1>0, <2>1, WireFacts DEF Inv, TypeOK, Take
    <3> QED
      BY <2>1, <3>1 DEF StreamInv, WireOrder, ResponseTypes
  <2>3. \A i \in Ids : pending'[i] = pending[i] \/ pending'[i] = NoReq
    BY <1>1, <2>1 DEF PopUnlessStreaming
  <2> QED
    BY <1>7, <2>1, <2>2, <2>3
<1>10. CASE OnCallResponse
  <2>1. PICK m : /\ Take(m) /\ ~Passes(m) /\ m.type = "CALL_RES"
                 /\ IF ~m.ok
                    THEN UNCHANGED <<pending, future, source, assembly>>
                    ELSE /\ frames' = [frames EXCEPT ![pending[m.id]] = 1]
                         /\ body' = [body EXCEPT ![pending[m.id]] =
                                       IF m.more THEN "open" ELSE "complete"]
                         /\ buffer' = IF m.more
                                      THEN [buffer EXCEPT ![m.id] = pending[m.id]]
                                      ELSE buffer
                         /\ PopUnlessStreaming(m)
    BY <1>10 DEF OnCallResponse
  <2>2. CASE ~m.ok
    <3>1. m = wire[1] /\ 1 \in DOMAIN wire
      BY <1>0, <2>1, WireFacts DEF Inv, TypeOK, Take
    <3>2. body[m.of] = "none"
      BY <2>1, <3>1 DEF StreamInv, FirstInv
    <3>3. UNCHANGED <<pending, body, frames, buffer>>
      BY <2>1, <2>2 DEF assembly
    <3> QED
      BY <1>7, <2>1, <3>2, <3>3
  <2>3. CASE m.ok
    BY <1>0, <2>1, <2>3, FirstFrameKeepsStream
  <2> QED
    BY <2>2, <2>3
<1>11. CASE OnCallResponseContinue
  <2>1. PICK m : /\ Take(m) /\ ~Passes(m) /\ m.type = "CALL_RES_CONTINUE"
                 /\ \/ /\ buffer[m.id] = NoReq
                       /\ UNCHANGED <<pending, future, source, assembly>>
                    \/ /\ buffer[m.id] # NoReq /\ ~Verified(m, buffer[m.id])
                       /\ body' = [body EXCEPT ![buffer[m.id]] = "failed"]
                       /\ UNCHANGED <<pending, future, source, buffer, frames>>
                    \/ /\ buffer[m.id] # NoReq /\ Verified(m, buffer[m.id])
                       /\ frames' = [frames EXCEPT ![buffer[m.id]] = @ + 1]
                       /\ body' = [body EXCEPT ![buffer[m.id]] =
                                     IF m.more THEN @ ELSE "complete"]
                       /\ buffer' = IF m.more THEN buffer
                                    ELSE [buffer EXCEPT ![m.id] = NoReq]
                       /\ PopUnlessStreaming(m)
    BY <1>11 DEF OnCallResponseContinue
  <2>2. m.of \in Requests /\ m.of \in Made /\ m.id = id[m.of] /\ m.id \in Ids
    <3>1. m.of # NoReq
      BY <1>0, <2>1, TakeFacts, ConnectionAssumption DEF NoiseKinds
    <3> QED
      BY <1>0, <2>1, <3>1, TakeFacts
  <2>3. CASE buffer[m.id] = NoReq
    <3>1. UNCHANGED <<pending, body, frames, buffer>>
      BY <2>1, <2>3 DEF assembly
    <3>2. body[m.of] # "open" \/ pending[id[m.of]] # m.of
      BY <1>1, <2>2, <2>3 DEF StreamInv, AssemblyInv
    <3> QED
      BY <1>7, <2>1, <3>1, <3>2
  <2>4. CASE buffer[m.id] # NoReq /\ ~Verified(m, buffer[m.id])
    <3>1. /\ body' = [body EXCEPT ![buffer[m.id]] = "failed"]
          /\ UNCHANGED <<pending, buffer, frames>>
      BY <2>1, <2>4
    <3>2. buffer[m.id] = m.of
      BY <1>0, <2>2, <2>4, OneCallPerId
    <3>3. body' = [r \in Requests |-> IF r \in {m.of} THEN "failed" ELSE body[r]]
      BY <1>1, <2>2, <3>1, <3>2
    <3>4. {m.of} \in SUBSET Requests /\ \A r \in {m.of} : body[r] \in {"open", "failed"}
      BY <2>2, <2>4, <3>2 DEF StreamInv, AssemblyInv
    <3>5. \A r \in Requests : body'[r] = "open" /\ pending'[id[r]] = r =>
            buffer'[id[r]] = buffer[id[r]] /\ ~(m.of = r /\ m.type # "ERROR")
      BY <1>1, <3>1, <3>3
    <3> HIDE DEF StreamInv
    <3> QED
      BY <1>0, <2>1, <3>1, <3>3, <3>4, <3>5, DropKeepsStream
  <2>5. CASE buffer[m.id] # NoReq /\ Verified(m, buffer[m.id])
    BY <1>0, <2>1, <2>5, NextFrameKeepsStream DEF Verified
  <2> QED
    BY <2>1, <2>3, <2>4, <2>5
<1>12. CASE OnError
  <2>1. PICK m : /\ Take(m) /\ ~Passes(m) /\ m.type = "ERROR"
                 /\ pending' = [pending EXCEPT ![m.id] = NoReq]
                 /\ \/ UNCHANGED <<body, frames, buffer>>
                    \/ /\ body' = [r \in Requests |->
                                     IF r = buffer[m.id] THEN "failed" ELSE body[r]]
                       /\ buffer' = [buffer EXCEPT ![m.id] = NoReq]
                       /\ UNCHANGED frames
    BY <1>12, ZenonT(30) DEF OnError, assembly
  <2>2. \A i \in Ids : pending'[i] = pending[i] \/ pending'[i] = NoReq
    BY <1>1, <2>1
  <2>3. CASE UNCHANGED <<body, frames, buffer>>
    BY <1>7, <2>1, <2>2, <2>3
  <2>4. CASE /\ body' = [r \in Requests |->
                           IF r = buffer[m.id] THEN "failed" ELSE body[r]]
             /\ buffer' = [buffer EXCEPT ![m.id] = NoReq]
             /\ UNCHANGED frames
    <3> DEFINE S == {buffer[m.id]} \cap Requests
    <3>1. m.id \in Ids
      BY <1>0, <2>1, TakeFacts
    <3>2. body' = [r \in Requests |-> IF r \in S THEN "failed" ELSE body[r]]
      BY <2>4
    <3>3. S \in SUBSET Requests /\ \A r \in S : body[r] \in {"open", "failed"}
      BY <1>1, <3>1 DEF StreamInv, AssemblyInv
    <3>4. \A i \in Ids : buffer'[i] = buffer[i] \/ buffer'[i] = NoReq
      BY <1>1, <2>4
    <3>5. \A r \in Requests : body'[r] = "open" /\ pending'[id[r]] = r =>
            buffer'[id[r]] = buffer[id[r]] /\ ~(m.of = r /\ m.type # "ERROR")
      BY <1>1, <2>1, <2>4, <3>1
    <3> HIDE DEF S
    <3> QED
      BY <1>0, <2>1, <2>2, <2>4, <3>2, <3>3, <3>4, <3>5, DropKeepsStream
  <2> QED
    BY <2>1, <2>3, <2>4
\* The remote.
<1>13. ASSUME NEW r \in Requests, RemoteResponds(r) PROVE StreamInv'
  <2>1. PICK more \in BOOLEAN, ok \in BOOLEAN :
          /\ Send([type |-> IF remote[r] = "called" THEN "CALL_RES"
                            ELSE "CALL_RES_CONTINUE",
                   id |-> wireId[r], more |-> more, ok |-> ok, of |-> r])
          /\ remote' = [remote EXCEPT ![r] = IF more THEN "streaming" ELSE "done"]
    BY <1>13 DEF RemoteResponds
  <2> DEFINE f == [type |-> IF remote[r] = "called" THEN "CALL_RES" ELSE "CALL_RES_CONTINUE",
                   id |-> wireId[r], more |-> more, ok |-> ok, of |-> r]
  <2>2. /\ f \in Frames /\ f.of = r /\ f.more = more /\ f.type \in ResponseTypes
        /\ f.type # "ERROR"
        /\ f.type = "CALL_RES" => remote[r] = "called"
    BY <1>1 DEF Frames, ResponseTypes
  <2>3. Send(f) /\ remote[r] \in {"called", "streaming"} /\ sent' = [sent EXCEPT ![r] = @ + 1]
    BY <1>13, <2>1 DEF RemoteResponds
  <2>4. remote' = [remote EXCEPT ![f.of] = IF f.more THEN "streaming" ELSE "done"]
    BY <2>1
  <2> HIDE DEF f
  <2>5. f.of # NoReq /\ f.of = r /\ sent' = [sent EXCEPT ![f.of] = @ + 1]
    BY <1>1, <2>2, <2>3
  <2> QED
    BY <1>0, <2>2, <2>3, <2>4, <2>5, SendKeepsStream
<1>14. ASSUME NEW r \in Requests, RemoteFails(r) PROVE StreamInv'
  <2> DEFINE f == [type |-> "ERROR", id |-> wireId[r], more |-> FALSE, ok |-> TRUE, of |-> r]
  <2>1. f \in Frames /\ f.of = r /\ ~f.more /\ f.type = "ERROR"
    BY <1>1 DEF Frames
  <2>2. /\ Send(f) /\ remote[r] \in {"called", "streaming"} /\ sent' = sent
        /\ remote' = [remote EXCEPT ![r] = "done"]
    BY <1>14 DEF RemoteFails
  <2> HIDE DEF f
  <2> QED
    BY <1>0, <1>1, <2>1, <2>2, SendKeepsStream
<1>15. CASE RemoteNoise
  <2>1. PICK t \in Noise, i \in Ids :
          Send([type |-> t, id |-> i, more |-> FALSE, ok |-> TRUE, of |-> NoReq])
    BY <1>15 DEF RemoteNoise
  <2> DEFINE f == [type |-> t, id |-> i, more |-> FALSE, ok |-> TRUE, of |-> NoReq]
  <2>2. f \in Frames /\ f.of = NoReq /\ f.type # "CALL_RES" /\ Send(f)
    BY <2>1, ConnectionAssumption DEF Frames, NoiseKinds
  <2>3. UNCHANGED <<sent, remote>>
    BY <1>15 DEF RemoteNoise
  <2> HIDE DEF f
  <2> QED
    BY <1>0, <2>2, <2>3, SendKeepsStream
<1> QED
  BY <1>2, <1>3, <1>4, <1>5, <1>6, <1>8, <1>9, <1>10, <1>11, <1>12, <1>13, <1>14, <1>15
     DEF Next, Call, OnMessage, Remote

LEMMA StreamInit == Init => StreamInv
<1> SUFFICES ASSUME Init PROVE StreamInv
  OBVIOUS
<1>1. Inv
  BY InvInit
<1>2. wire = <<>> /\ DOMAIN wire = {}
  BY DEF Init
<1> QED
  BY <1>1, <1>2 DEF Init, StreamInv, WireOrder, FirstInv, AssemblyInv, CompleteMeansAll

\* As long as ids do not wrap, a response whose arguments are complete was put together
\* from all the frames that the remote sent for it, however it split them, whatever was
\* damaged or dropped and whatever else the remote sent.
THEOREM CompleteResponsesAreWhole ==
  ASSUME ~AllowWrap PROVE Spec => []CompleteMeansAll
<1>1. StreamInv => CompleteMeansAll
  BY DEF StreamInv, AssemblyInv
<1>2. StreamInv /\ [Next]_vars => StreamInv'
  BY StreamStep
<1> QED
  BY <1>1, <1>2, StreamInit, PTL DEF Spec

-----------------------------------------------------------------------------
(* A response that is being assembled stays registered, when the remote    *)
(* sends no pings.                                                         *)

\* Until _on_close has run, what is in the dictionary runs, is answered or could not be
\* written; a call is only cleaned up if it is none of these.
RegisteredInv ==
  /\ StreamInv
  /\ \A r \in Requests : answer[r] = "error" => future[r] \notin {"running", "response", "write_error"}
  /\ stream # "closed" =>
       \A i \in Ids : pending[i] # NoReq => future[pending[i]] \in {"running", "response", "write_error"}
  /\ BufferedIsRegistered

\* The entries under i may go if nothing is assembled there; other entries are kept, as
\* is the state of their calls.
LEMMA PopKeepsRegistered ==
  ASSUME RegisteredInv, StreamInv', NEW i \in Ids, buffer'[i] = NoReq,
         stream' = "closed" <=> stream = "closed",
         \A j \in Ids : j # i => pending'[j] = pending[j] /\ buffer'[j] = buffer[j],
         pending'[i] = NoReq \/ (pending'[i] \in Requests /\ future'[pending'[i]] = "running"),
         \A r \in Requests : future'[r] = future[r] \/ (id[r] = i /\ future[r] # "unsent")
                             \/ (\A j \in Ids : pending[j] # r),
         \A r \in Requests : answer'[r] = "error" => future'[r] \notin {"running", "response", "write_error"}
  PROVE  RegisteredInv'
<1>1. /\ pending \in [Ids -> Requests \cup {NoReq}] /\ NoReq \notin Requests
      /\ \A j \in Ids : pending[j] # NoReq => id[pending[j]] = j
  BY ConnectionAssumption DEF RegisteredInv, StreamInv, Inv, TypeOK, Rest, PendingInv
<1>2. ASSUME stream # "closed", NEW j \in Ids, pending'[j] # NoReq
      PROVE  future'[pending'[j]] \in {"running", "response", "write_error"}
  <2>1. CASE j = i
    BY <1>2, <2>1
  <2>2. CASE j # i
    <3>1. pending'[j] = pending[j] /\ pending[j] \in Requests /\ id[pending[j]] = j
      BY <1>1, <1>2, <2>2
    <3>2. future'[pending[j]] = future[pending[j]]
      BY <2>2, <3>1
    <3> QED
      BY <1>2, <3>1, <3>2 DEF RegisteredInv
  <2> QED
    BY <2>1, <2>2
<1>3. BufferedIsRegistered'
  BY DEF RegisteredInv, BufferedIsRegistered
<1> QED
  BY <1>2, <1>3 DEF RegisteredInv

\* Steps that leave the dictionary, the futures and what is assembled alone.
LEMMA QuietKeepsRegistered ==
  ASSUME RegisteredInv, StreamInv', UNCHANGED <<pending, future, buffer>>,
         stream' = "closed" <=> stream = "closed",
         \A r \in Requests : answer'[r] = "error" =>
           answer[r] = "error" \/ future[r] \notin {"running", "response", "write_error"}
  PROVE  RegisteredInv'
  BY DEF RegisteredInv, BufferedIsRegistered

LEMMA RegisteredStep ==
  ASSUME ~AllowWrap, "PING_REQ" \notin Noise, RegisteredInv, [Next]_vars
  PROVE  RegisteredInv'
<1>0. StreamInv' /\ StreamInv /\ Inv
  BY StreamStep DEF RegisteredInv, StreamInv
<1>1. /\ id \in [Requests -> Ids] /\ pending \in [Ids -> Requests \cup {NoReq}]
      /\ buffer \in [Ids -> Requests \cup {NoReq}] /\ NoReq \notin Requests
      /\ future \in [Requests -> {"unsent", "running"} \cup Outcomes]
      /\ answer \in [Requests -> {"unsent", "waiting"} \cup Answers]
      /\ sequence \in Ids /\ PendingInv /\ FutureInv /\ IdInv /\ BufferInv
  BY <1>0, ConnectionAssumption DEF Inv, TypeOK, Rest
\* Nothing is assembled for a call that runs, nor for one that failed before the close.
<1>2. ASSUME NEW r \in Made, future[r] = "running" \/ (answer[r] = "error" /\ stream # "closed")
      PROVE  buffer[id[r]] = NoReq
  <2>1. SUFFICES ASSUME buffer[id[r]] # NoReq PROVE FALSE
    OBVIOUS
  <2>2. r \in Requests /\ id[r] \in Ids
    BY <1>1 DEF Made
  <2>3. buffer[id[r]] = r
    BY <1>0, <2>1, <2>2, OneCallPerId
  <2>4. future[r] \in Outcomes
    BY <1>1, <2>1, <2>2, <2>3 DEF BufferInv
  <2>5. answer[r] = "error" /\ stream # "closed"
    BY <1>2, <2>4 DEF Outcomes
  <2>6. pending[id[r]] = r
    BY <2>1, <2>2, <2>3, <2>5 DEF RegisteredInv, BufferedIsRegistered
  <2>7. future[r] \in {"running", "response", "write_error"}
    BY <1>1, <2>2, <2>5, <2>6 DEF RegisteredInv
  <2> QED
    BY <2>2, <2>5, <2>7 DEF RegisteredInv
\* Calls.
<1>3. ASSUME NEW r \in Requests, SendRequest(r) PROVE RegisteredInv'
  <2> DEFINE i == NextMessageId(sequence)
  <2>1. /\ i \in Ids /\ answer[r] = "unsent" /\ UNCHANGED <<stream, buffer>>
        /\ \/ /\ UNCHANGED <<pending, future>> /\ answer' = [answer EXCEPT ![r] = "raised"]
           \/ /\ pending' = [pending EXCEPT ![i] = r]
              /\ future' = [future EXCEPT ![r] = "running"]
              /\ answer' = [answer EXCEPT ![r] = "waiting"]
    BY <1>1, <1>3, NextIdType DEF SendRequest, assembly
  <2>2. future[r] = "unsent" /\ \A j \in Ids : pending[j] # r
    BY <1>1, <2>1 DEF FutureInv, PendingInv, Made
  <2>3. i > sequence /\ sequence \in Nat
    <3>1. sequence \in Nat /\ sequence + 1 < MaxId
      BY <1>1, <1>3, ConnectionAssumption DEF SendRequest, MayDraw, Ids
    <3> QED
      BY <3>1, ConnectionAssumption DEF NextMessageId
  <2>4. buffer[i] = NoReq
    <3> SUFFICES ASSUME buffer[i] # NoReq PROVE FALSE
      OBVIOUS
    <3>1. buffer[i] \in Made /\ id[buffer[i]] = i
      BY <1>1, <2>1 DEF BufferInv, Made, Outcomes
    <3> QED
      BY <1>1, <2>1, <2>3, <3>1 DEF IdInv, Ids
  <2> HIDE DEF i
  <2>5. CASE UNCHANGED <<pending, future>> /\ answer' = [answer EXCEPT ![r] = "raised"]
    BY <1>0, <1>1, <2>1, <2>2, <2>5, QuietKeepsRegistered
  <2>6. CASE /\ pending' = [pending EXCEPT ![i] = r]
             /\ future' = [future EXCEPT ![r] = "running"]
             /\ answer' = [answer EXCEPT ![r] = "waiting"]
    <3>1. \A q \in Requests : answer'[q] = "error" => future'[q] \notin {"running", "response", "write_error"}
      BY <1>1, <2>6 DEF RegisteredInv
    <3>2. \A q \in Requests : future'[q] = future[q] \/ \A j \in Ids : pending[j] # q
      BY <1>1, <2>2, <2>6
    <3>3. /\ \A j \in Ids : j # i => pending'[j] = pending[j] /\ buffer'[j] = buffer[j]
          /\ pending'[i] \in Requests /\ future'[pending'[i]] = "running" /\ buffer'[i] = NoReq
      BY <1>1, <2>1, <2>4, <2>6
    <3> QED
      BY <1>0, <2>1, <3>1, <3>2, <3>3, PopKeepsRegistered
  <2> QED
    BY <2>1, <2>5, <2>6
<1>4. ASSUME NEW r \in Requests, Transmit(r) \/ AdaptResult(r) PROVE RegisteredInv'
  <2>1. UNCHANGED <<pending, future, buffer, stream>>
    BY <1>4 DEF Transmit, AdaptResult, futures, assembly
  <2>2. \A q \in Requests : answer'[q] = "error" =>
          answer[q] = "error" \/ future[q] \notin {"running", "response", "write_error"}
    BY <1>1, <1>4 DEF Transmit, AdaptResult, futures, Outcomes
  <2> QED
    BY <1>0, <2>1, <2>2, QuietKeepsRegistered
<1>5. ASSUME NEW r \in Requests, StreamFails(r) PROVE RegisteredInv'
  <2>1. /\ future[r] = "running" /\ UNCHANGED <<stream, answer, pending, buffer>>
        /\ \E e \in {"write_error", "stream_closed"} :
             /\ future' = [future EXCEPT ![r] = e]
             /\ e = "stream_closed" => stream = "closed"
    BY <1>5 DEF StreamFails, assembly
  <2>2. /\ \A q \in Requests : q # r => future'[q] = future[q]
        /\ stream # "closed" => future'[r] = "write_error"
    BY <1>1, <2>1
  <2>3. \A q \in Requests :
          answer'[q] = "error" => future'[q] \notin {"running", "response", "write_error"}
    BY <2>1, <2>2 DEF RegisteredInv
  <2>4. stream # "closed" => \A j \in Ids : pending[j] # NoReq =>
          future'[pending[j]] \in {"running", "response", "write_error"}
    BY <1>1, <2>2 DEF RegisteredInv
  <2> QED
    BY <1>0, <2>1, <2>3, <2>4 DEF RegisteredInv, BufferedIsRegistered
<1>6. ASSUME NEW r \in Requests, RemoveOutstandingRequest(r) \/ RequestTimedOut(r)
      PROVE  RegisteredInv'
  <2>1. /\ pending' = [pending EXCEPT ![id[r]] = NoReq] /\ UNCHANGED <<stream, buffer, answer>>
        /\ r \in Made /\ (future[r] = "running" \/ answer[r] = "error")
    BY <1>1, <1>6 DEF RemoveOutstandingRequest, RequestTimedOut, StillRunning, assembly,
                      Made, Outcomes, FutureInv
  <2>2. \A q \in Requests : future'[q] = future[q] \/ (q = r /\ future'[q] = "timeout")
    BY <1>1, <1>6 DEF RemoveOutstandingRequest, RequestTimedOut
  <2>3. \A q \in Requests : answer'[q] = "error" => future'[q] \notin {"running", "response", "write_error"}
    BY <2>1, <2>2 DEF RegisteredInv
  <2>4. CASE stream = "closed"
    BY <1>0, <2>1, <2>3, <2>4 DEF RegisteredInv, BufferedIsRegistered
  <2>5. CASE stream # "closed"
    <3>1. buffer'[id[r]] = NoReq /\ id[r] \in Ids /\ pending'[id[r]] = NoReq
      BY <1>1, <1>2, <2>1, <2>5
    <3>2. \A j \in Ids : j # id[r] => pending'[j] = pending[j] /\ buffer'[j] = buffer[j]
      BY <1>1, <2>1
    <3>3. \A q \in Requests : future'[q] = future[q] \/ (id[q] = id[r] /\ future[q] # "unsent")
      BY <2>1, <2>2 DEF Made
    <3> QED
      BY <1>0, <2>1, <2>3, <3>1, <3>2, <3>3, PopKeepsRegistered
  <2> QED
    BY <2>4, <2>5
\* The loop, closing, the remote.
<1>7. ASSUME (\E i \in Ids : Forget(i)) \/ Step \/ OnReadError \/ Close \/ Remote
             \/ UNCHANGED vars
      PROVE  RegisteredInv'
  <2>1. UNCHANGED <<futures, assembly>> /\ (stream' = "closed" <=> stream = "closed")
    BY <1>7 DEF Forget, Step, OnReadError, Close, Remote, RemoteResponds, RemoteFails,
                RemoteNoise, RemoteClose, Send, vars
  <2> QED
    BY <1>0, <2>1, QuietKeepsRegistered DEF futures, assembly
<1>8. CASE OnClose
  <2>1. stream' = "closed" /\ UNCHANGED answer
    BY <1>8 DEF OnClose
  <2>2. \A q \in Requests : future'[q] = future[q] \/ future'[q] = "network"
    BY <1>1, <1>8 DEF OnClose, FailWithNetworkError
  <2>3. \A q \in Requests : answer'[q] = "error" => future'[q] \notin {"running", "response", "write_error"}
    BY <2>1, <2>2 DEF RegisteredInv
  <2> QED
    BY <1>0, <2>1, <2>3 DEF RegisteredInv, BufferedIsRegistered
\* Frames.
<1>9. CASE OnMessageIgnored
  <2>1. UNCHANGED <<pending, future, buffer, stream, answer>>
    BY <1>9 DEF OnMessageIgnored, Take, assembly
  <2> QED
    BY <1>0, <2>1, QuietKeepsRegistered
<1>10. ASSUME NEW m, Take(m)
       PROVE  /\ UNCHANGED <<stream, answer>> /\ m = wire[1] /\ 1 \in DOMAIN wire
              /\ m.id \in Ids
              /\ m.type \in {"CALL_RES", "CALL_RES_CONTINUE", "ERROR"} /\ ~Passes(m) =>
                   m.of \in Made /\ m.of \in Requests /\ id[m.of] = m.id /\ pending[m.id] = m.of
  <2>1. UNCHANGED <<stream, answer>> /\ m = wire[1] /\ 1 \in DOMAIN wire /\ m.id \in Ids
    BY <1>0, <1>10, WireFacts, TakeFacts DEF Inv, TypeOK, Take
  <2>2. ASSUME m.type \in {"CALL_RES", "CALL_RES_CONTINUE", "ERROR"}, ~Passes(m)
        PROVE  m.of \in Made /\ m.of \in Requests /\ id[m.of] = m.id /\ pending[m.id] = m.of
    <3>1. m.of # NoReq
      BY <1>0, <1>10, <2>2, TakeFacts, ConnectionAssumption DEF NoiseKinds
    <3> QED
      BY <1>0, <1>10, <2>2, <3>1, TakeFacts
  <2> QED
    BY <2>1, <2>2
<1>11. CASE OnForeignFrame
  <2>1. PICK m : Take(m) /\ m.type = "PING_REQ"
    BY <1>11 DEF OnForeignFrame
  <2>2. m.of = NoReq
    BY <1>0, <1>10, <2>1 DEF StreamInv, WireOrder, ResponseTypes
  <2> QED
    BY <1>0, <2>1, <2>2, TakeFacts
\* An answer is taken for a call that waits, if it is not answered yet.
<1>12. ASSUME NEW q \in Requests, NEW o, SetResult(q, o)
       PROVE  \A r \in Requests :
                /\ r # q => future'[r] = future[r]
                /\ future[r] = "running" /\ r = q => future'[r] = "response"
                /\ future[r] # "running" => future'[r] = future[r]
  BY <1>1, <1>12 DEF SetResult
<1>13. \A r \in Requests : answer[r] = "error" => future[r] # "running"
  BY DEF RegisteredInv
<1>14. CASE OnCallResponse
  <2>1. PICK m : /\ Take(m) /\ ~Passes(m) /\ m.type = "CALL_RES"
                 /\ IF ~m.ok
                    THEN UNCHANGED <<pending, future, source, assembly>>
                    ELSE /\ buffer' = IF m.more
                                      THEN [buffer EXCEPT ![m.id] = pending[m.id]]
                                      ELSE buffer
                         /\ PopUnlessStreaming(m)
                         /\ SetResult(pending[m.id], m.of)
    BY <1>14 DEF OnCallResponse
  <2>2. /\ m = wire[1] /\ 1 \in DOMAIN wire /\ UNCHANGED <<stream, answer>> /\ m.id \in Ids
        /\ m.of \in Made /\ m.of \in Requests /\ id[m.of] = m.id /\ pending[m.id] = m.of
    BY <1>10, <2>1
  <2>3. CASE ~m.ok
    BY <1>0, <2>1, <2>2, <2>3, QuietKeepsRegistered DEF assembly
  <2>4. CASE m.ok
    <3>1. \A r \in Requests : answer'[r] = "error" => future'[r] \notin {"running", "response", "write_error"}
      BY <1>12, <1>13, <2>1, <2>2, <2>4 DEF RegisteredInv
    <3>2. CASE m.more
      <4>1. pending' = pending /\ buffer' = [buffer EXCEPT ![m.id] = m.of]
        BY <2>1, <2>2, <2>4, <3>2 DEF PopUnlessStreaming, StillStreaming
      <4>2. ASSUME stream # "closed", NEW j \in Ids, pending[j] # NoReq
            PROVE  future'[pending[j]] \in {"running", "response", "write_error"}
        BY <1>1, <1>12, <2>1, <2>2, <2>4, <4>2 DEF RegisteredInv
      <4>3. BufferedIsRegistered'
        BY <1>1, <2>2, <4>1 DEF RegisteredInv, BufferedIsRegistered
      <4> QED
        BY <1>0, <2>2, <3>1, <4>1, <4>2, <4>3 DEF RegisteredInv
    <3>3. CASE ~m.more
      <4>1. pending' = [pending EXCEPT ![m.id] = NoReq] /\ buffer' = buffer
        BY <2>1, <2>4, <3>3 DEF PopUnlessStreaming, StillStreaming
      <4>2. body[m.of] = "none"
        BY <1>0, <2>1, <2>2 DEF StreamInv, FirstInv
      <4>3. buffer[m.id] = NoReq
        BY <1>0, <2>2, <4>2, OneCallPerId DEF StreamInv, AssemblyInv
      <4>4. \A r \in Requests : future'[r] = future[r] \/ (id[r] = m.id /\ future[r] # "unsent")
        BY <1>12, <2>1, <2>2, <2>4 DEF Made
      <4>5. /\ \A j \in Ids : j # m.id => pending'[j] = pending[j] /\ buffer'[j] = buffer[j]
            /\ pending'[m.id] = NoReq /\ buffer'[m.id] = NoReq
        BY <1>1, <2>2, <4>1, <4>3
      <4> QED
        BY <1>0, <2>2, <3>1, <4>4, <4>5, PopKeepsRegistered
    <3> QED
      BY <3>2, <3>3
  <2> QED
    BY <2>3, <2>4
<1>15. CASE OnCallResponseContinue
  <2>1. PICK m : /\ Take(m) /\ future' = future
                 /\ \/ UNCHANGED <<pending, buffer>>
                    \/ /\ m.type = "CALL_RES_CONTINUE"
                       /\ buffer' = IF m.more THEN buffer
                                    ELSE [buffer EXCEPT ![m.id] = NoReq]
                       /\ PopUnlessStreaming(m)
    BY <1>15 DEF OnCallResponseContinue, assembly
  <2>2. UNCHANGED <<stream, answer>> /\ m.id \in Ids
    BY <1>10, <2>1
  <2>3. CASE UNCHANGED <<pending, buffer>>
    BY <1>0, <2>1, <2>2, <2>3, QuietKeepsRegistered
  <2>4. CASE /\ m.type = "CALL_RES_CONTINUE"
             /\ buffer' = IF m.more THEN buffer ELSE [buffer EXCEPT ![m.id] = NoReq]
             /\ PopUnlessStreaming(m)
    <3>1. CASE m.more
      <4>1. pending' = pending /\ buffer' = buffer
        BY <2>4, <3>1 DEF PopUnlessStreaming, StillStreaming
      <4> QED
        BY <1>0, <2>1, <2>2, <4>1, QuietKeepsRegistered
    <3>2. CASE ~m.more
      <4>1. /\ pending' = [pending EXCEPT ![m.id] = NoReq]
            /\ buffer' = [buffer EXCEPT ![m.id] = NoReq]
        BY <2>4, <3>2 DEF PopUnlessStreaming, StillStreaming
      <4>2. /\ \A j \in Ids : j # m.id => pending'[j] = pending[j] /\ buffer'[j] = buffer[j]
            /\ pending'[m.id] = NoReq /\ buffer'[m.id] = NoReq
        BY <1>1, <2>2, <4>1
      <4>3. \A r \in Requests : answer'[r] = "error" => future'[r] \notin {"running", "response", "write_error"}
        BY <2>1, <2>2 DEF RegisteredInv
      <4> QED
        BY <1>0, <2>1, <2>2, <4>2, <4>3, PopKeepsRegistered
    <3> QED
      BY <3>1, <3>2
  <2> QED
    BY <2>1, <2>3, <2>4
<1>16. CASE OnError
  <2>1. PICK m : /\ Take(m) /\ ~Passes(m) /\ m.type = "ERROR"
                 /\ pending' = [pending EXCEPT ![m.id] = NoReq]
                 /\ IF future[pending[m.id]] = "running"
                    THEN /\ future' = [future EXCEPT ![pending[m.id]] = "remote_error"]
                         /\ UNCHANGED buffer
                    ELSE buffer' = [buffer EXCEPT ![m.id] = NoReq] /\ UNCHANGED future
    BY <1>16 DEF OnError, assembly
  <2>2. /\ UNCHANGED <<stream, answer>> /\ m.id \in Ids
        /\ m.of \in Made /\ m.of \in Requests /\ id[m.of] = m.id /\ pending[m.id] = m.of
    BY <1>10, <2>1
  <2>3. buffer'[m.id] = NoReq /\ \A j \in Ids : j # m.id => buffer'[j] = buffer[j]
    BY <1>1, <1>2, <2>1, <2>2
  <2>4. \A r \in Requests :
          \/ future'[r] = future[r]
          \/ r = m.of /\ future'[r] = "remote_error" /\ future[r] = "running"
    BY <1>1, <2>1, <2>2
  <2>5. \A r \in Requests : answer'[r] = "error" => future'[r] \notin {"running", "response", "write_error"}
    BY <2>2, <2>4 DEF RegisteredInv
  <2>6. pending'[m.id] = NoReq /\ \A j \in Ids : j # m.id => pending'[j] = pending[j]
    BY <1>1, <2>1, <2>2
  <2>7. \A r \in Requests : future'[r] = future[r] \/ (id[r] = m.id /\ future[r] # "unsent")
    BY <2>2, <2>4
  <2> QED
    BY <1>0, <2>2, <2>3, <2>5, <2>6, <2>7, PopKeepsRegistered
<1> QED
  BY <1>3, <1>4, <1>5, <1>6, <1>7, <1>8, <1>9, <1>11, <1>14, <1>15, <1>16
     DEF Next, Call, OnMessage

\* As long as ids do not wrap and the remote sends no pings, a partly assembled response
\* keeps its entry in the dictionary until _on_close: its later frames still find it.
THEOREM AssembledStaysRegistered ==
  ASSUME ~AllowWrap, "PING_REQ" \notin Noise
  PROVE  Spec => []BufferedIsRegistered
<1>1. Init => RegisteredInv
  BY StreamInit DEF Init, RegisteredInv, BufferedIsRegistered
<1>2. RegisteredInv => BufferedIsRegistered
  BY DEF RegisteredInv
<1>3. RegisteredInv /\ [Next]_vars => RegisteredInv'
  BY RegisteredStep
<1> QED
  BY <1>1, <1>2, <1>3, PTL DEF Spec

=============================================================================
