--------------------------- MODULE TransportProofs --------------------------
(***************************************************************************)
(* What carries the calls.                                                 *)
(*                                                                         *)
(* The queue of futures between the threads and the message loops          *)
(* implements a first-in first-out queue, for any number of producers and  *)
(* consumers.                                                              *)
(*                                                                         *)
(* The frames that a call is cut into fit, and its arguments arrive in     *)
(* their streams, for arguments, chunks and frames of any size.  The loop  *)
(* of fragment has an invariant of its own: what it has seen of a message  *)
(* is cut in one place at most (SplitArgCuts).  The state is then seen as  *)
(* one flow from the receiver's streams through the frames, the message    *)
(* being cut and the pieces collected, to the place the sender has read    *)
(* to: each part begins where the one before it ends (Flow).               *)
(*                                                                         *)
(* Messages on the wire are read in the order in which they were sent,     *)
(* each with its own result, and verified with the sum their sender used,  *)
(* for any calls and any codec that reads back what it writes.  The bytes  *)
(* on the stream are the rest of the frames not yet read (Unread), the     *)
(* results those of the frames that were (Items), and both factories hold  *)
(* for a call the sum that its last frame left (Sums).                     *)
(***************************************************************************)
EXTENDS Queue, Fragmentation, Wire, SequenceTheorems, TLAPS

-----------------------------------------------------------------------------
(* The queue.                                                              *)

\* The consumer at the head is the (n + 1)-st.
HeadAt(n) ==
  /\ n \in 0 .. Len(line)
  /\ \A k \in 1 .. Len(line) + 1 : gate[k] # 0 <=> k <= n + 1
  /\ \A k \in 1 .. Len(line) : result[line[k]] = Waiting <=> k > n

\* Nobody stands in line twice, and nobody in line is idle.
LineInv ==
  /\ \A k \in 1 .. Len(line) : result[line[k]] # Idle
  /\ \A j, k \in 1 .. Len(line) : line[j] = line[k] => j = k

\* A get_nowait only joins the line when it is at the head.
NowaitInv == \A k \in 1 .. Len(line) : line[k] \in Nowaits => gate[k] # 0

Inv == TypeOK /\ LineInv /\ NowaitInv /\ \E n \in 0 .. Len(line) : HeadAt(n)

\* The last open gate is unique: what Served chooses, in this state and the next.
LEMMA OneLastGate ==
  ASSUME NEW len \in Nat, NEW g, NEW n \in 0 .. len,
         \A k \in 1 .. len + 1 : g[k] # 0 <=> k <= n + 1
  PROVE  (CHOOSE m \in 0 .. len : g[m + 1] # 0 /\ (m = len \/ g[m + 2] = 0)) = n
<1> DEFINE P(m) == g[m + 1] # 0 /\ (m = len \/ g[m + 2] = 0)
<1>1. P(n)
  <2>1. g[n + 1] # 0
    OBVIOUS
  <2>2. n # len => g[n + 2] = 0
    OBVIOUS
  <2> QED
    BY <2>1, <2>2
<1>2. ASSUME NEW m \in 0 .. len, P(m) PROVE m = n
  <2>1. m <= n
    BY <1>2
  <2>2. m # len => m + 2 > n + 1
    BY <1>2
  <2> QED
    BY <2>1, <2>2
<1> QED
  BY <1>1, <1>2

\* Served is the index of the head, and the head's gate names the next value.
LEMMA ServedIsHead ==
  /\ \A n : TypeOK /\ HeadAt(n) => Served = n
  /\ \A n : (TypeOK /\ HeadAt(n))' => Served' = n
<1>1. ASSUME NEW n, TypeOK, HeadAt(n) PROVE Served = n
  <2>1. Len(line) \in Nat
    BY <1>1 DEF TypeOK
  <2> QED
    BY <1>1, <2>1, OneLastGate DEF HeadAt, Served
<1>2. ASSUME NEW n, TypeOK', HeadAt(n)' PROVE Served' = n
  <2>1. Len(line') \in Nat
    BY <1>2 DEF TypeOK
  <2> QED
    BY <1>2, <2>1, OneLastGate DEF HeadAt, Served
<1> QED
  BY <1>1, <1>2

\* The head moves on by one: what TakeNode and GiveBack have in common.
LEMMA HeadMoves ==
  ASSUME Inv, NEW n, HeadAt(n), NEW k \in 1 .. Len(line), result[line[k]] = Waiting,
         gate[k] # 0,
         NEW v \in Puts \cup {Empty}, NEW h \in 1 .. Len(order) + 1,
         result' = [result EXCEPT ![line[k]] = v],
         gate' = [gate EXCEPT ![k + 1] = h],
         UNCHANGED <<order, filled, line>>
  PROVE  /\ k = n + 1
         /\ HeadAt(k)'
         /\ Inv'
<1>0. /\ n \in 0 .. Len(line) /\ Len(line) \in Nat /\ Len(order) \in Nat
      /\ line \in Seq(Consumers) /\ line[k] \in Consumers
      /\ gate \in Seq(0 .. Len(order) + 1) /\ Len(gate) = Len(line) + 1
      /\ result \in [Consumers -> Puts \cup {Idle, Waiting, Empty}]
  BY SMTT(30) DEF HeadAt, Inv, TypeOK
<1>1. k = n + 1
  BY <1>0, SMTT(30) DEF HeadAt
<1>2. v # Waiting /\ v # Idle
  BY QueueAssumption
<1>3. \A j \in 1 .. Len(line) : result'[line[j]] = IF j = k THEN v ELSE result[line[j]]
  BY <1>0, SMTT(30) DEF Inv, LineInv
<1>4. \A j \in 1 .. Len(line) + 1 : gate'[j] = IF j = k + 1 THEN h ELSE gate[j]
  BY <1>0
<1>5. HeadAt(k)'
  <2>1. \A j \in 1 .. Len(line) + 1 : gate'[j] # 0 <=> j <= k + 1
    BY <1>0, <1>1, <1>4, SMTT(30) DEF HeadAt
  <2>2. \A j \in 1 .. Len(line) : result'[line[j]] = Waiting <=> j > k
    BY <1>0, <1>1, <1>2, <1>3, SMTT(30) DEF HeadAt
  <2> QED
    BY <2>1, <2>2 DEF HeadAt
<1>6. LineInv'
  BY <1>2, <1>3 DEF Inv, LineInv
<1>7. TypeOK'
  <2>1. gate' \in Seq(0 .. Len(order) + 1) /\ Len(gate') = Len(line) + 1
    BY <1>0
  <2>2. result' \in [Consumers -> Puts \cup {Idle, Waiting, Empty}]
    BY <1>0
  <2> QED
    BY <2>1, <2>2 DEF Inv, TypeOK
<1>8. NowaitInv'
  BY <1>0, <1>4, SMTT(30) DEF Inv, NowaitInv
<1> QED
  BY <1>1, <1>5, <1>6, <1>7, <1>8 DEF Inv

\* A consumer joins the line behind everybody.
LEMMA JoinKeeps ==
  ASSUME Inv, NEW n, HeadAt(n), NEW c \in Consumers, result[c] = Idle, Join(c),
         c \in Nowaits => gate[Len(gate)] # 0
  PROVE  HeadAt(n)' /\ Inv'
<1>0. /\ n \in 0 .. Len(line) /\ Len(line) \in Nat
      /\ line \in Seq(Consumers)
      /\ gate \in Seq(0 .. Len(order) + 1) /\ Len(gate) = Len(line) + 1
      /\ result \in [Consumers -> Puts \cup {Idle, Waiting, Empty}]
  BY DEF HeadAt, Inv, TypeOK
<1>1. /\ line' = Append(line, c) /\ gate' = Append(gate, 0)
      /\ result' = [result EXCEPT ![c] = Waiting] /\ UNCHANGED <<order, filled>>
  BY DEF Join
<1>2. /\ Len(line') = Len(line) + 1
      /\ \A k \in 1 .. Len(line') : line'[k] = IF k = Len(line') THEN c ELSE line[k]
      /\ \A k \in 1 .. Len(line') + 1 :
           gate'[k] = IF k = Len(line') + 1 THEN 0 ELSE gate[k]
  BY <1>0, <1>1
<1>3. \A k \in 1 .. Len(line) : line[k] \in Consumers /\ line[k] # c
  BY <1>0 DEF Inv, LineInv
<1>4. \A k \in 1 .. Len(line') :
        result'[line'[k]] = IF k = Len(line') THEN Waiting ELSE result[line[k]]
  BY <1>0, <1>1, <1>2, <1>3
<1>5. HeadAt(n)'
  <2>1. ASSUME NEW k \in 1 .. Len(line') + 1 PROVE gate'[k] # 0 <=> k <= n + 1
    <3>1. CASE k = Len(line') + 1
      BY <1>0, <1>2, <3>1, SMTT(30)
    <3>2. CASE k # Len(line') + 1
      <4>1. k \in 1 .. Len(line) + 1 /\ gate'[k] = gate[k]
        BY <1>0, <1>2, <3>2
      <4> QED
        BY <4>1 DEF HeadAt
    <3> QED
      BY <3>1, <3>2
  <2>2. ASSUME NEW k \in 1 .. Len(line') PROVE result'[line'[k]] = Waiting <=> k > n
    <3>1. CASE k = Len(line')
      BY <1>0, <1>2, <1>4, <3>1
    <3>2. CASE k # Len(line')
      <4>1. k \in 1 .. Len(line) /\ result'[line'[k]] = result[line[k]]
        BY <1>0, <1>2, <1>4, <3>2
      <4> QED
        BY <4>1 DEF HeadAt
    <3> QED
      BY <3>1, <3>2
  <2> QED
    BY <1>0, <1>2, <2>1, <2>2 DEF HeadAt
<1>6. LineInv'
  <2>1. ASSUME NEW k \in 1 .. Len(line') PROVE result'[line'[k]] # Idle
    <3>1. CASE k = Len(line')
      BY <1>4, <3>1, QueueAssumption
    <3>2. CASE k # Len(line')
      <4>1. k \in 1 .. Len(line) /\ result'[line'[k]] = result[line[k]]
        BY <1>0, <1>2, <1>4, <3>2
      <4> QED
        BY <4>1 DEF Inv, LineInv
    <3> QED
      BY <3>1, <3>2
  <2>2. ASSUME NEW j \in 1 .. Len(line'), NEW k \in 1 .. Len(line'), line'[j] = line'[k]
        PROVE  j = k
    <3>1. \A i \in 1 .. Len(line') : i # Len(line') => i \in 1 .. Len(line)
      BY <1>0, <1>2
    <3>2. CASE j = Len(line') \/ k = Len(line')
      BY <1>2, <1>3, <2>2, <3>1, <3>2
    <3>3. CASE j # Len(line') /\ k # Len(line')
      <4>1. line[j] = line[k]
        BY <1>2, <2>2, <3>3
      <4> QED
        BY <3>1, <3>3, <4>1 DEF Inv, LineInv
    <3> QED
      BY <3>2, <3>3
  <2> QED
    BY <2>1, <2>2 DEF LineInv
<1>7. TypeOK'
  <2>1. line' \in Seq(Consumers)
    BY <1>0, <1>1
  <2>2. gate' \in Seq(0 .. Len(order) + 1) /\ Len(gate') = Len(line') + 1
    BY <1>0, <1>1, <1>2
  <2>3. result' \in [Consumers -> Puts \cup {Idle, Waiting, Empty}]
    BY <1>0, <1>1
  <2> QED
    BY <1>1, <2>1, <2>2, <2>3 DEF Inv, TypeOK
<1>8. n \in 0 .. Len(line')
  BY <1>0, <1>2
<1>9. NowaitInv'
  <2> SUFFICES ASSUME NEW k \in 1 .. Len(line'), line'[k] \in Nowaits
               PROVE  gate'[k] # 0
    BY DEF NowaitInv
  <2>1. CASE k = Len(line')
    BY <1>0, <1>2, <2>1
  <2>2. CASE k # Len(line')
    <3>1. k \in 1 .. Len(line) /\ line[k] \in Nowaits /\ gate'[k] = gate[k]
      <4>1. k \in 1 .. Len(line)
        BY <1>0, <1>2, <2>2
      <4>2. line'[k] = line[k]
        BY <1>2, <2>2
      <4>3. gate'[k] = gate[k]
        BY <1>0, <1>1, <4>1
      <4> QED
        BY <4>1, <4>2, <4>3
    <3> QED
      BY <3>1 DEF Inv, NowaitInv
  <2> QED
    BY <2>1, <2>2
<1> QED
  BY <1>5, <1>6, <1>7, <1>8, <1>9 DEF Inv

\* The queue starts as an empty line with the first gate open.
LEMMA InitInv == Init => Inv /\ HeadAt(0)
<1> SUFFICES ASSUME Init PROVE Inv /\ HeadAt(0)
  OBVIOUS
<1>1. /\ line = <<>> /\ gate = <<1>> /\ order = <<>> /\ filled = {}
      /\ Len(line) = 0 /\ Len(gate) = 1 /\ Len(order) = 0 /\ gate[1] = 1
      /\ result = [c \in Consumers |-> Idle]
  BY DEF Init
<1>2. TypeOK
  BY <1>1 DEF TypeOK
<1>3. LineInv
  BY <1>1 DEF LineInv
<1>4. HeadAt(0)
  BY <1>1 DEF HeadAt
<1>5. NowaitInv
  BY <1>1 DEF NowaitInv
<1> QED
  BY <1>1, <1>2, <1>3, <1>4, <1>5 DEF Inv

\* Every step keeps the invariant and is a step of the abstract queue, or none.
LEMMA StepInv ==
  ASSUME Inv, [Next]_vars
  PROVE  Inv' /\ [F!Next]_(F!vars)
<1> DEFINE Same == [F!Next]_(F!vars)
<1>0. PICK n \in 0 .. Len(line) : HeadAt(n)
  BY DEF Inv
<1>01. TypeOK /\ Served = n
  BY <1>0, ServedIsHead DEF Inv
<1>00. /\ Served = n /\ TypeOK /\ Len(line) \in Nat /\ Len(order) \in Nat
       /\ line \in Seq(Consumers) /\ order \in Seq(Puts)
       /\ gate \in Seq(0 .. Len(order) + 1) /\ Len(gate) = Len(line) + 1
       /\ result \in [Consumers -> Puts \cup {Idle, Waiting, Empty}]
       /\ filled \subseteq 1 .. Len(order)
  BY <1>01 DEF TypeOK
<1>1. ASSUME NEW p \in Puts, Put(p) PROVE Inv' /\ Same
  <2>1. /\ order' = Append(order, p) /\ Len(order') = Len(order) + 1
        /\ UNCHANGED <<filled, line, gate, result>>
    BY <1>1, <1>00 DEF Put
  <2>2. TypeOK'
    <3>1. order' \in Seq(Puts)
      BY <1>00, <2>1
    <3>2. gate' \in Seq(0 .. Len(order') + 1)
      BY <1>00, <2>1
    <3>3. filled' \subseteq 1 .. Len(order')
      BY <1>00, <2>1
    <3> QED
      BY <1>00, <2>1, <3>1, <3>2, <3>3 DEF TypeOK
  <2>3. HeadAt(n)' /\ LineInv' /\ NowaitInv'
    BY <1>0, <2>1 DEF HeadAt, Inv, LineInv, NowaitInv
  <2>4. Served' = n
    BY <2>2, <2>3, ServedIsHead
  <2>5. F!Accept(p)
    BY <1>1, <1>00, <2>1, <2>4 DEF Put, F!Accept
  <2> QED
    BY <1>00, <2>1, <2>2, <2>3, <2>5 DEF Inv, F!Next
<1>2. ASSUME NEW h \in 1 .. Len(order), OnPut(h) PROVE Inv' /\ Same
  <2>1. filled' = filled \cup {h} /\ UNCHANGED <<order, line, gate, result>>
    BY <1>2 DEF OnPut
  <2>2. TypeOK'
    BY <1>00, <2>1 DEF TypeOK
  <2>3. HeadAt(n)' /\ LineInv' /\ NowaitInv'
    BY <1>0, <2>1 DEF HeadAt, Inv, LineInv, NowaitInv
  <2>4. Served' = n
    BY <2>2, <2>3, ServedIsHead
  <2> QED
    BY <1>00, <2>1, <2>2, <2>3, <2>4 DEF Inv, F!vars
<1>3. ASSUME NEW c \in Consumers, result[c] = Idle, Join(c),
             c \in Nowaits => gate[Len(gate)] # 0
      PROVE  Inv' /\ Same
  <2>1. HeadAt(n)' /\ Inv'
    BY <1>0, <1>3, JoinKeeps DEF Inv
  <2>2. Served' = n
    BY <2>1, ServedIsHead DEF Inv
  <2>3. gate'[n + 1] = gate[n + 1]
    BY <1>00, <1>3 DEF Join
  <2>4. F!Arrive(c)
    BY <1>00, <1>3, <2>2, <2>3 DEF Join, F!Arrive
  <2> QED
    BY <1>3, <2>1, <2>4 DEF F!Next, F!Consumers, Consumers
<1>4. ASSUME NEW c \in Nowaits, result[c] = Idle, GetFuturePending,
             result' = [result EXCEPT ![c] = Empty],
             UNCHANGED <<order, filled, line, gate>>
      PROVE  Inv' /\ Same
  <2>1. c \in Consumers
    BY DEF Consumers
  <2>2. \A k \in 1 .. Len(line) : result'[line[k]] = result[line[k]]
    BY <1>00, <1>4, <2>1 DEF Inv, LineInv
  <2>3. TypeOK'
    BY <1>00, <1>4 DEF TypeOK
  <2>4. HeadAt(n)' /\ LineInv' /\ NowaitInv'
    BY <1>0, <1>4, <2>2 DEF HeadAt, Inv, LineInv, NowaitInv
  <2>5. Served' = n
    BY <2>3, <2>4, ServedIsHead
  <2>6. F!Refuse(c)
    BY <1>00, <1>4, <2>5 DEF F!Refuse
  <2> QED
    BY <1>4, <1>0, <2>3, <2>4, <2>6 DEF Inv, F!Next
<1>5. ASSUME NEW k \in 1 .. Len(line), TakeNode(k) PROVE Inv' /\ Same
  <2>0. /\ result[line[k]] = Waiting /\ gate[k] \in filled
        /\ result' = [result EXCEPT ![line[k]] = order[gate[k]]]
        /\ gate' = [gate EXCEPT ![k + 1] = gate[k] + 1]
        /\ UNCHANGED <<order, filled, line>>
    BY <1>5 DEF TakeNode, NextHole
  <2>1. /\ gate[k] \in 1 .. Len(order) /\ gate[k] # 0
        /\ gate[k] + 1 \in 1 .. Len(order) + 1 /\ order[gate[k]] \in Puts
    BY <1>00, <2>0, SMTT(30)
  <2>2. k = n + 1 /\ HeadAt(k)' /\ Inv'
    BY <1>0, <2>0, <2>1, HeadMoves
  <2>3. Served' = n + 1
    BY <2>2, ServedIsHead DEF Inv
  <2>4. gate'[n + 2] = gate[n + 1] + 1
    BY <1>00, <2>0, <2>2
  <2>5. /\ Served < Len(line) /\ gate[Served + 1] - 1 < Len(order)
        /\ line[Served + 1] = line[k]
        /\ order[gate[Served + 1] - 1 + 1] = order[gate[k]]
    BY <1>00, <2>1, <2>2, SMTT(30)
  <2>6. gate'[Served' + 1] - 1 = gate[Served + 1] - 1 + 1
    <3>1. gate[n + 1] \in Nat
      BY <2>1, <2>2
    <3>2. gate'[Served' + 1] = gate'[n + 2]
      <4>1. Served' + 1 = n + 2
        BY <2>3
      <4> QED
        BY <4>1
    <3>3. gate[Served + 1] = gate[n + 1]
      BY <1>01
    <3> QED
      BY <3>1, <3>2, <3>3, <2>4
  <2>7. F!Serve
    BY <1>00, <2>0, <2>3, <2>5, <2>6 DEF F!Serve
  <2> QED
    BY <2>2, <2>7 DEF F!Next
<1>6. ASSUME NEW k \in 1 .. Len(line), GiveBack(k) PROVE Inv' /\ Same
  <2>0. /\ result[line[k]] = Waiting /\ line[k] \in Nowaits
        /\ result' = [result EXCEPT ![line[k]] = Empty]
        /\ gate' = [gate EXCEPT ![k + 1] = gate[k]]
        /\ UNCHANGED <<order, filled, line>>
    BY <1>6 DEF GiveBack, RestoredHole
  <2>1. gate[k] # 0 /\ gate[k] \in 1 .. Len(order) + 1
    <3>1. gate[k] # 0
      BY <2>0 DEF Inv, NowaitInv
    <3> QED
      BY <1>00, <3>1
  <2>2. k = n + 1 /\ HeadAt(k)' /\ Inv'
    BY <1>0, <2>0, <2>1, HeadMoves
  <2>3. Served' = n + 1
    BY <2>2, ServedIsHead DEF Inv
  <2>4. gate'[n + 2] = gate[n + 1]
    BY <1>00, <2>0, <2>2
  <2>5. Served < Len(line) /\ line[Served + 1] = line[k]
    BY <1>00, <2>2
  <2>6. gate'[Served' + 1] - 1 = gate[Served + 1] - 1
    <3>1. Served' + 1 = n + 2
      BY <2>3
    <3> QED
      BY <1>01, <3>1, <2>4
  <2>7. F!TurnAway
    BY <1>00, <2>0, <2>3, <2>5, <2>6 DEF F!TurnAway
  <2> QED
    BY <2>2, <2>7 DEF F!Next
<1>7. CASE UNCHANGED vars
  <2>1. TypeOK' /\ HeadAt(n)' /\ LineInv' /\ NowaitInv'
    BY <1>0, <1>7 DEF TypeOK, HeadAt, LineInv, NowaitInv, Inv, vars
  <2>2. Served' = n
    BY <2>1, ServedIsHead
  <2> QED
    BY <1>0, <1>00, <1>7, <2>1, <2>2 DEF Inv, F!vars, vars
<1>8. ASSUME NEW c \in Nowaits, GetNowait(c) PROVE Inv' /\ Same
  BY <1>3, <1>4, <1>8 DEF GetNowait, GetFuturePending, Consumers
<1>9. ASSUME NEW c \in Gets, Get(c) PROVE Inv' /\ Same
  BY <1>3, <1>9, QueueAssumption DEF Get, Consumers
<1> QED
  BY <1>1, <1>2, <1>5, <1>6, <1>7, <1>8, <1>9 DEF Next

\* The queue's bookkeeping has its type at every step of every thread.
THEOREM QueueTypeCorrect == Spec => []TypeOK
<1>1. Init => Inv
  BY InitInv
<1>2. Inv /\ [Next]_vars => Inv'
  BY StepInv
<1>3. Inv => TypeOK
  BY DEF Inv
<1> QED
  BY <1>1, <1>2, <1>3, PTL DEF Spec

\* Exactly one consumer is at the head of the line, however get, get_nowait and put
\* interleave.
THEOREM ExactlyOneHead == Spec => []OneHead
<1>1. Init => Inv
  BY InitInv
<1>2. Inv /\ [Next]_vars => Inv'
  BY StepInv
<1>3. Inv => OneHead
  BY DEF Inv, OneHead, HeadAt
<1> QED
  BY <1>1, <1>2, <1>3, PTL DEF Spec

\* The linked list of futures implements the first-in first-out queue.
THEOREM QueueIsFifo == Spec => IsFifo
<1>1. Init => Inv /\ F!Init
  <2> SUFFICES ASSUME Init PROVE Inv /\ F!Init
    OBVIOUS
  <2>1. Inv /\ HeadAt(0)
    BY InitInv
  <2>2. Served = 0
    BY <2>1, ServedIsHead DEF Inv
  <2> QED
    BY <2>1, <2>2 DEF Init, F!Init, F!Consumers, Consumers
<1>2. Inv /\ [Next]_vars => Inv' /\ [F!Next]_(F!vars)
  BY StepInv
<1> QED
  BY <1>1, <1>2, PTL DEF Spec, IsFifo, F!Spec

-----------------------------------------------------------------------------
(* Fragmentation.                                                          *)

\* The place in the arguments at which a piece, or a run of them, ends.
Place(p) == [a |-> p.a, to |-> p.to]
End(P) == Place(P[Len(P)])

\* The pieces of a message or a frame are of consecutive arguments: all but the last go
\* to the end of theirs, all but the first begin with the first byte of theirs.
Run(P, len, c) ==
  \A i \in 1 .. Len(P) :
    /\ P[i].a = P[1].a + i - 1
    /\ i > 1 => P[i].from = 0
    /\ P[i].to <= len[P[i].a]
    /\ i < Len(P) => P[i].a < c /\ P[i].to = len[P[i].a]

\* P begins at the place t.
StartsAt(P, t) == P[1].a = t.a /\ P[1].from = t.to

\* The place at which P ends, when it began at t.
Tip(P, t) == IF P = <<>> THEN t ELSE End(P)

\* A part of the flow, from the place t on: nothing, or a run that begins there.
Part(P, t, len, c) == P = <<>> \/ (Run(P, len, c) /\ StartsAt(P, t))

\* The frames on their way, one after the other from the place t on.
WirePart(w, t, len, c) ==
  \A k \in 1 .. Len(w) :
    /\ Run(w[k].args, len, c)
    /\ StartsAt(w[k].args, IF k = 1 THEN t ELSE End(w[k - 1].args))

WireTip(w, t) == IF w = <<>> THEN t ELSE End(w[Len(w)].args)

\* Where the receiver is when d is its first stream that is not complete.
ReceiverAt(s, d) == [a |-> d, to |-> Received(s[d].chunks)]

Receiving(s, d, len, c) ==
  \A a \in Arguments :
    /\ Consecutive(s[a].chunks, a) /\ Received(s[a].chunks) <= len[a]
    /\ s[a].completed <=> a < d
    /\ a < d => a < c /\ Received(s[a].chunks) = len[a]
    /\ a > d => s[a].chunks = <<>>

\* Where the sender is: at the end of what it has read.
SenderAt(t, len, c, r) ==
  t.a = (IF r = 0 /\ c > 1 THEN c - 1 ELSE c) /\ t.to = len[t.a]

\* Everything between the sender and the receiver, who waits for argument d.
Flow(d, str, w, o, p, len, c, r) ==
  LET t0 == ReceiverAt(str, d)
      t1 == WireTip(w, t0)
      t2 == Tip(o, t1)
  IN  /\ Receiving(str, d, len, c)
      /\ WirePart(w, t0, len, c) /\ Part(o, t1, len, c) /\ Part(p, t2, len, c)
      /\ SenderAt(Tip(p, t2), len, c, r)

Finished ==
  /\ out = NoMessage /\ wire = <<>>
  /\ \A a \in Arguments :
       /\ Consecutive(streams[a].chunks, a) /\ Received(streams[a].chunks) = length[a]
       /\ streams[a].completed

\* What the flags of the messages and the state of the request say.
Flags ==
  /\ read = 0 => \A a \in Arguments : a >= cur => length[a] = 0
  /\ \A a \in Arguments : a > cur => length[a] = 0
  /\ args = <<>> => \/ cur = 1 /\ read = 0 /\ state = "init"
                    \/ state = "completed"
  /\ state = "init" => out = NoMessage /\ wire = <<>> /\ (args # <<>> => args[1].a = 1)
  /\ out # NoMessage /\ out.first => out.args[1].a = 1
  /\ \A k \in 1 .. Len(wire) : wire[k].first => wire[k].args[1].a = 1
  /\ state = "completed" => cur = max_args_num + 1 /\ read = 0 /\ args = <<>>
  /\ out # NoMessage => (out.last <=> state = "completed")
  /\ \A k \in 1 .. Len(wire) :
       wire[k].last <=> state = "completed" /\ k = Len(wire) /\ out = NoMessage

\* All is delivered, or on its way in order.
Flowing ==
  /\ outcome = "ok"
  /\ Flags
  /\ \/ state = "completed" /\ Finished
     \/ /\ state = "completed" /\ out = NoMessage => wire # <<>>
        /\ \E d \in Arguments : Flow(d, streams, wire, out.args, args, length, cur, read)

\* At most one piece of an argument is collected, and one of the argument being read.
Collecting ==
  /\ Len(args) <= (IF read = 0 THEN cur - 1 ELSE cur)
  /\ read # 0 => args # <<>> /\ cur # max_args_num + 1

FragInv == FragTypeOK /\ FramesFit /\ Collecting /\ (~exact => Flowing)

-----------------------------------------------------------------------------
(* One message cut: the loop of fragment.                                  *)

Splits == [kept : Seq(Pieces), rest : Seq(Pieces), space : Nat, exact : BOOLEAN]

\* After n arguments the frame holds one to n pieces that fit, as does the space left.
SplitOK(s, n, sp) ==
  /\ s \in Splits
  /\ Len(s.kept) <= n /\ Len(s.rest) <= n
  /\ IF n = 0 THEN s.space >= key_length ELSE Len(s.kept) >= 1
  /\ Used(s.kept) + s.space <= sp

\* The pieces of P up to the n-th were cut in the m-th, at x.
CutAt(P, K, R, n, m, x) ==
  /\ Len(K) = m /\ Len(R) = n - m + 1
  /\ \A j \in 1 .. m - 1 : K[j] = P[j]
  /\ K[m] = [P[m] EXCEPT !.to = x] /\ R[1] = [P[m] EXCEPT !.from = x]
  /\ \A j \in 2 .. n - m + 1 : R[j] = P[m + j - 1]

\* After n arguments of P none is cut, or they are cut in one place.
CutOnce(s, P, n) ==
  ~s.exact =>
    \/ /\ s.rest = <<>> /\ (n > 0 => s.space > key_length)
       /\ Len(s.kept) = n /\ \A j \in 1 .. n : s.kept[j] = P[j]
    \/ /\ s.rest # <<>> /\ s.space <= key_length
       /\ \E m \in 1 .. n : \E x \in P[m].from .. P[m].to :
            CutAt(P, s.kept, s.rest, n, m, x)

\* A piece added to a frame of at most two takes its size and key_length bytes.
LEMMA UsedAppend ==
  ASSUME NEW K \in Seq(Pieces), Len(K) <= 2, NEW p \in Pieces
  PROVE  Used(Append(K, p)) = Used(K) + key_length + Size(p) /\ Used(K) \in Nat
<1> DEFINE A == Append(K, p)
<1>1. /\ A \in Seq(Pieces) /\ Len(A) = Len(K) + 1 /\ A[Len(K) + 1] = p
      /\ \A i \in 1 .. Len(K) : A[i] = K[i] /\ K[i] \in Pieces
  OBVIOUS
<1>2. \A q \in Pieces : Size(q) \in Nat
  BY DEF Pieces, Size
<1> HIDE DEF A
<1>3. \A P \in Seq(Pieces) :
        /\ Len(P) = 0 => Used(P) = 0
        /\ Len(P) = 1 => Used(P) = 2 + Size(P[1])
        /\ Len(P) = 2 => Used(P) = 2 + Size(P[1]) + 2 + Size(P[2])
        /\ Len(P) = 3 => Used(P) = 2 + Size(P[1]) + 2 + Size(P[2]) + 2 + Size(P[3])
  <2> TAKE P \in Seq(Pieces)
  <2>1. \A i \in 1 .. Len(P) : Size(P[i]) \in Nat
    BY <1>2
  <2>2. Len(P) = 0 => Used(P) = 0
    BY DEF Used
  <2>3. Len(P) = 1 => Used(P) = 2 + Size(P[1])
    BY <2>1 DEF Used, key_length
  <2>4. Len(P) = 2 => Used(P) = 2 + Size(P[1]) + 2 + Size(P[2])
    BY <2>1 DEF Used, key_length
  <2>5. Len(P) = 3 => Used(P) = 2 + Size(P[1]) + 2 + Size(P[2]) + 2 + Size(P[3])
    BY <2>1 DEF Used, key_length
  <2> QED
    BY <2>2, <2>3, <2>4, <2>5
<1>4. CASE Len(K) = 0
  <2>1. A[1] = p /\ Len(A) = 1
    BY <1>1, <1>4
  <2>2. Used(A) = 2 + Size(p) /\ Used(K) = 0
    BY <1>1, <1>3, <1>4, <2>1
  <2> QED
    BY <2>2, <1>2 DEF key_length, A
<1>5. CASE Len(K) = 1
  <2>1. A[1] = K[1] /\ A[2] = p /\ Len(A) = 2 /\ Size(K[1]) \in Nat
    BY <1>1, <1>2, <1>5
  <2>2. Used(A) = 2 + Size(K[1]) + 2 + Size(p) /\ Used(K) = 2 + Size(K[1])
    BY <1>1, <1>3, <1>5, <2>1
  <2> QED
    BY <2>1, <2>2, <1>2 DEF key_length, A
<1>6. CASE Len(K) = 2
  <2>1. A[1] = K[1] /\ A[2] = K[2] /\ A[3] = p /\ Len(A) = 3
        /\ Size(K[1]) \in Nat /\ Size(K[2]) \in Nat
    BY <1>1, <1>2, <1>6
  <2>2. /\ Used(A) = 2 + Size(K[1]) + 2 + Size(K[2]) + 2 + Size(p)
        /\ Used(K) = 2 + Size(K[1]) + 2 + Size(K[2])
    BY <1>1, <1>3, <1>6, <2>1
  <2> QED
    BY <2>1, <2>2, <1>2 DEF key_length, A
<1>7. Len(K) = 0 \/ Len(K) = 1 \/ Len(K) = 2
  <2>1. Len(K) \in Nat
    OBVIOUS
  <2>2. \A i \in Nat : i <= 2 => i = 0 \/ i = 1 \/ i = 2
    OBVIOUS
  <2> QED
    BY <2>1, <2>2
<1> QED
  BY <1>4, <1>5, <1>6, <1>7

\* The parts of a piece that is cut are pieces.
LEMMA CutPieces ==
  ASSUME NEW p \in Pieces, NEW x \in p.from .. p.to
  PROVE  /\ [p EXCEPT !.to = x] \in Pieces /\ [p EXCEPT !.from = x] \in Pieces
         /\ Size([p EXCEPT !.to = x]) = x - p.from
         /\ x \in Nat /\ p.from \in Nat /\ p.to \in Nat /\ Size(p) \in Nat
  BY DEF Pieces, Size

\* The three ways in which an argument is split.
LEMMA SplitArgCases ==
  ASSUME NEW s \in Splits, NEW p \in Pieces
  PROVE  \/ /\ s.space < key_length
            /\ SplitArg(s, p) = [s EXCEPT !.rest = Append(s.rest, p)]
         \/ \E x \in p.from .. p.to :
              /\ s.space >= key_length /\ x = p.from + s.space - key_length
              /\ SplitArg(s, p) =
                   [kept |-> Append(s.kept, [p EXCEPT !.to = x]),
                    rest |-> Append(s.rest, [p EXCEPT !.from = x]),
                    space |-> 0, exact |-> s.exact \/ s.rest # <<>>]
         \/ /\ s.space >= key_length
            /\ \E after \in Nat :
                 /\ after = s.space - key_length - Size(p)
                 /\ \/ /\ after <= key_length
                       /\ SplitArg(s, p) =
                            [kept |-> Append(s.kept, p),
                             rest |-> Append(s.rest, [p EXCEPT !.from = p.to]),
                             space |-> after, exact |-> s.exact \/ s.rest # <<>>]
                    \/ /\ after > key_length
                       /\ SplitArg(s, p) =
                            [kept |-> Append(s.kept, p), rest |-> s.rest,
                             space |-> after, exact |-> s.exact \/ s.rest # <<>>]
<1>1. s.space \in Nat /\ p.from \in Nat /\ p.to \in Nat /\ p.from <= p.to
  BY DEF Splits, Pieces
<1>2. CASE s.space < key_length
  BY <1>2 DEF SplitArg
<1>3. CASE s.space >= key_length /\ s.space - key_length < Size(p)
  <2> DEFINE x == p.from + (s.space - key_length)
  <2>1. x \in p.from .. p.to /\ x = p.from + s.space - key_length
    BY <1>1, <1>3 DEF Size, key_length
  <2>2. SplitArg(s, p) = [kept |-> Append(s.kept, [p EXCEPT !.to = x]),
                          rest |-> Append(s.rest, [p EXCEPT !.from = x]),
                          space |-> 0, exact |-> s.exact \/ s.rest # <<>>]
    BY <1>1, <1>3 DEF SplitArg, Room, key_length
  <2> QED
    BY <2>1, <2>2, <1>3
<1>4. CASE s.space >= key_length /\ ~(s.space - key_length < Size(p))
  <2> DEFINE after == s.space - key_length - Size(p)
  <2>1. after \in Nat /\ Size(p) \in Nat
    BY <1>1, <1>4 DEF Size, key_length
  <2>2. SplitArg(s, p) =
          [kept |-> Append(s.kept, p),
           rest |-> IF after <= key_length THEN Append(s.rest, [p EXCEPT !.from = p.to])
                    ELSE s.rest,
           space |-> after, exact |-> s.exact \/ s.rest # <<>>]
    BY <1>1, <1>4 DEF SplitArg, Room, Boundary, key_length
  <2>3. CASE after <= key_length
    BY <2>1, <2>2, <2>3, <1>4
  <2>4. CASE after > key_length
    <3>1. ~(after <= key_length)
      BY <2>1, <2>4 DEF key_length
    <3> QED
      BY <2>1, <2>2, <2>4, <3>1, <1>4
  <2>5. after <= key_length \/ after > key_length
    BY <2>1 DEF key_length
  <2> QED
    BY <2>3, <2>4, <2>5
<1>5. \/ s.space < key_length
      \/ s.space >= key_length /\ s.space - key_length < Size(p)
      \/ s.space >= key_length /\ ~(s.space - key_length < Size(p))
  BY <1>1 DEF key_length
<1> QED
  BY <1>2, <1>3, <1>4, <1>5


\* An argument more keeps the frame within its bounds.
LEMMA SplitArgFits ==
  ASSUME NEW s, NEW sp \in Nat, NEW n \in 0 .. 2, SplitOK(s, n, sp), NEW p \in Pieces
  PROVE  SplitOK(SplitArg(s, p), n + 1, sp)
<1> DEFINE z == SplitArg(s, p)
<1>1. /\ s \in Splits /\ s.kept \in Seq(Pieces) /\ s.rest \in Seq(Pieces)
      /\ s.space \in Nat /\ s.exact \in BOOLEAN
      /\ Len(s.kept) \in 0 .. n /\ Len(s.rest) \in 0 .. n
      /\ Len(s.kept) <= 2 /\ Used(s.kept) + s.space <= sp
      /\ IF n = 0 THEN s.space >= key_length ELSE Len(s.kept) >= 1
  BY DEF SplitOK, Splits
<1>2. Used(s.kept) \in Nat
  BY <1>1, UsedAppend
<1>3. ASSUME NEW q \in Pieces
      PROVE  /\ Append(s.kept, q) \in Seq(Pieces) /\ Len(Append(s.kept, q)) = Len(s.kept) + 1
             /\ Append(s.rest, q) \in Seq(Pieces) /\ Len(Append(s.rest, q)) = Len(s.rest) + 1
             /\ Used(Append(s.kept, q)) = Used(s.kept) + key_length + Size(q)
             /\ Size(q) \in Nat
  <2>1. Used(Append(s.kept, q)) = Used(s.kept) + key_length + Size(q)
    BY <1>1, UsedAppend
  <2>2. Size(q) \in Nat
    BY DEF Size, Pieces
  <2> QED
    BY <1>1, <2>1, <2>2
<1>4. (s.exact \/ s.rest # <<>>) \in BOOLEAN
  OBVIOUS
<1>5. ASSUME s.space < key_length, z = [s EXCEPT !.rest = Append(s.rest, p)]
      PROVE  SplitOK(z, n + 1, sp)
  <2>1. z.kept = s.kept /\ z.rest = Append(s.rest, p) /\ z.space = s.space /\ z \in Splits
    BY <1>1, <1>3, <1>5 DEF Splits
  <2>2. n # 0
    BY <1>1, <1>5 DEF key_length
  <2> HIDE DEF z
  <2> QED
    BY <1>1, <1>3, <2>1, <2>2 DEF SplitOK
<1>6. ASSUME NEW x \in p.from .. p.to, s.space >= key_length,
             x = p.from + s.space - key_length,
             z = [kept |-> Append(s.kept, [p EXCEPT !.to = x]),
                  rest |-> Append(s.rest, [p EXCEPT !.from = x]),
                  space |-> 0, exact |-> s.exact \/ s.rest # <<>>]
      PROVE  SplitOK(z, n + 1, sp)
  <2> DEFINE q == [p EXCEPT !.to = x]
             r == [p EXCEPT !.from = x]
  <2>1. q \in Pieces /\ r \in Pieces /\ Size(q) = s.space - key_length
    BY <1>1, <1>6, CutPieces DEF key_length
  <2>2. z.kept = Append(s.kept, q) /\ z.rest = Append(s.rest, r) /\ z.space = 0
        /\ z.exact \in BOOLEAN /\ z \in Splits
    <3> HIDE DEF q, r
    <3>1. z = [kept |-> Append(s.kept, q), rest |-> Append(s.rest, r),
               space |-> 0, exact |-> s.exact \/ s.rest # <<>>]
      BY <1>6 DEF q, r
    <3> QED
      BY <1>3, <1>4, <2>1, <3>1, SMTT(30) DEF Splits
  <2> HIDE DEF z, q, r
  <2>3. Used(z.kept) + z.space <= sp
    BY <1>1, <1>2, <1>3, <2>1, <2>2, SMTT(30) DEF key_length
  <2> QED
    BY <1>1, <1>3, <2>1, <2>2, <2>3, SMTT(30) DEF SplitOK
<1>7. ASSUME NEW after \in Nat, s.space >= key_length,
             after = s.space - key_length - Size(p),
             \/ z = [kept |-> Append(s.kept, p),
                     rest |-> Append(s.rest, [p EXCEPT !.from = p.to]),
                     space |-> after, exact |-> s.exact \/ s.rest # <<>>]
             \/ z = [kept |-> Append(s.kept, p), rest |-> s.rest,
                     space |-> after, exact |-> s.exact \/ s.rest # <<>>]
      PROVE  SplitOK(z, n + 1, sp)
  <2> DEFINE r == [p EXCEPT !.from = p.to]
  <2>1. r \in Pieces
    BY CutPieces DEF Pieces
  <2>2. /\ z.kept = Append(s.kept, p) /\ z.space = after
        /\ z.rest = Append(s.rest, r) \/ z.rest = s.rest
        /\ z.exact \in BOOLEAN /\ z \in Splits
    <3> HIDE DEF r
    <3>1. \/ z = [kept |-> Append(s.kept, p), rest |-> Append(s.rest, r),
                  space |-> after, exact |-> s.exact \/ s.rest # <<>>]
          \/ z = [kept |-> Append(s.kept, p), rest |-> s.rest,
                  space |-> after, exact |-> s.exact \/ s.rest # <<>>]
      BY <1>7 DEF r
    <3>2. CASE z = [kept |-> Append(s.kept, p), rest |-> Append(s.rest, r),
                    space |-> after, exact |-> s.exact \/ s.rest # <<>>]
      BY <1>3, <1>4, <2>1, <3>2 DEF Splits
    <3>3. CASE z = [kept |-> Append(s.kept, p), rest |-> s.rest,
                    space |-> after, exact |-> s.exact \/ s.rest # <<>>]
      BY <1>1, <1>3, <1>4, <3>3 DEF Splits
    <3> QED
      BY <3>1, <3>2, <3>3
  <2> HIDE DEF z, r
  <2>3. Used(z.kept) + z.space <= sp
    BY <1>1, <1>2, <1>3, <1>7, <2>2 DEF key_length
  <2> QED
    BY <1>1, <1>3, <2>1, <2>2, <2>3, SMTT(30) DEF SplitOK
<1>8. \/ s.space < key_length /\ z = [s EXCEPT !.rest = Append(s.rest, p)]
      \/ SplitOK(z, n + 1, sp)
  BY <1>1, <1>6, <1>7, SplitArgCases
<1> QED
  BY <1>5, <1>8


\* An argument more leaves the pieces cut in one place at most.
LEMMA SplitArgCuts ==
  ASSUME NEW s \in Splits, NEW P \in Seq(Pieces), NEW n \in 0 .. Len(P) - 1,
         CutOnce(s, P, n), n = 0 => s.space >= key_length
  PROVE  CutOnce(SplitArg(s, P[n + 1]), P, n + 1)
<1> DEFINE p == P[n + 1]
           z == SplitArg(s, p)
           K == s.kept
           R == s.rest
           Uncut == /\ z.rest = <<>> /\ (n + 1 > 0 => z.space > key_length)
                    /\ Len(z.kept) = n + 1 /\ \A j \in 1 .. n + 1 : z.kept[j] = P[j]
           Cut == /\ z.rest # <<>> /\ z.space <= key_length
                  /\ \E m \in 1 .. n + 1 : \E x \in P[m].from .. P[m].to :
                       CutAt(P, z.kept, z.rest, n + 1, m, x)
<1>1. p \in Pieces /\ n \in Nat
  OBVIOUS
<1>2. K \in Seq(Pieces) /\ R \in Seq(Pieces) /\ s.space \in Nat
  BY DEF Splits
<1>3. p.from \in Nat /\ p.to \in p.from .. p.to /\ [p EXCEPT !.to = p.to] = p
  <2> HIDE DEF p
  <2> QED
    BY <1>1 DEF Pieces
<1> SUFFICES ASSUME ~z.exact PROVE Uncut \/ Cut
  BY DEF CutOnce
\* The argument goes to the next frame, after what was cut off an earlier one.
<1>4. ASSUME s.space < key_length, z = [s EXCEPT !.rest = Append(R, p)] PROVE Cut
  <2>1. z.kept = K /\ z.rest = Append(R, p) /\ z.space = s.space /\ z.exact = s.exact
    BY <1>4 DEF Splits
  <2> HIDE DEF z, p
  <2>2. s.space <= key_length /\ ~(s.space > key_length) /\ ~(s.space >= key_length)
    BY <1>2, <1>4 DEF key_length
  <2>3. n > 0 /\ n # 0
    BY <1>1, <2>2
  <2>4. PICK m \in 1 .. n : \E x \in P[m].from .. P[m].to : CutAt(P, K, R, n, m, x)
    BY <2>1, <2>2, <2>3 DEF CutOnce
  <2>5. PICK x \in P[m].from .. P[m].to : CutAt(P, K, R, n, m, x)
    BY <2>4
  <2>6. m \in 1 .. n + 1 /\ Len(R) = n - m + 1
    BY <1>1, <2>5 DEF CutAt
  <2>7. /\ Len(z.rest) = n + 1 - m + 1 /\ z.rest[1] = R[1]
        /\ \A j \in 2 .. n - m + 1 : z.rest[j] = R[j]
        /\ z.rest[n + 1 - m + 1] = p
    BY <1>1, <1>2, <2>1, <2>6, SMTT(30)
  <2>8. \A j \in 2 .. n + 1 - m + 1 : z.rest[j] = P[m + j - 1]
    <3> SUFFICES ASSUME NEW j \in 2 .. n + 1 - m + 1 PROVE z.rest[j] = P[m + j - 1]
      OBVIOUS
    <3>1. CASE j = n + 1 - m + 1
      <4>1. m + j - 1 = n + 1
        BY <1>1, <3>1
      <4> QED
        BY <2>7, <3>1, <4>1 DEF p
    <3>2. CASE j # n + 1 - m + 1
      <4>1. j \in 2 .. n - m + 1
        BY <1>1, <3>2
      <4> QED
        BY <2>5, <2>7, <4>1 DEF CutAt
    <3> QED
      BY <3>1, <3>2
  <2>9. CutAt(P, z.kept, z.rest, n + 1, m, x)
    <3>1. /\ Len(K) = m /\ \A j \in 1 .. m - 1 : K[j] = P[j]
          /\ K[m] = [P[m] EXCEPT !.to = x] /\ R[1] = [P[m] EXCEPT !.from = x]
      BY <2>5 DEF CutAt
    <3>2. z.rest[1] = [P[m] EXCEPT !.from = x] /\ Len(z.rest) = n + 1 - m + 1
      BY <2>7, <3>1
    <3> HIDE DEF K, R
    <3> QED
      BY ONLY <2>1, <2>8, <3>1, <3>2, SMTT(30) DEF CutAt
  <2>10. z.rest # <<>>
    BY <1>1, <2>7
  <2> QED
    BY <2>1, <2>2, <2>5, <2>6, <2>9, <2>10
\* The argument is the first to be cut, at x.
<1>5. ASSUME NEW x \in p.from .. p.to, s.space >= key_length,
             z.kept = Append(K, [p EXCEPT !.to = x]),
             z.rest = Append(R, [p EXCEPT !.from = x]),
             z.space <= key_length, z.exact = (s.exact \/ R # <<>>)
      PROVE  Cut
  <2> HIDE DEF z, p
  <2>1. R = <<>> /\ Len(K) = n /\ \A j \in 1 .. n : K[j] = P[j]
    BY <1>5 DEF CutOnce
  <2>2. Len(z.rest) = 1 /\ z.rest[1] = [p EXCEPT !.from = x] /\ z.rest # <<>>
    BY <1>2, <1>5, <2>1
  <2>3. /\ Len(z.kept) = n + 1 /\ z.kept[n + 1] = [p EXCEPT !.to = x]
        /\ \A j \in 1 .. n : z.kept[j] = P[j]
    BY <1>1, <1>2, <1>5, <2>1
  <2>4. CutAt(P, z.kept, z.rest, n + 1, n + 1, x)
    <3> DEFINE m == n + 1
    <3>1. m - m + 1 = 1 /\ m - 1 = n
      BY <1>1
    <3>2. \A j \in 2 .. m - m + 1 : z.rest[j] = P[m + j - 1]
      BY <1>1
    <3>3. Len(z.rest) = m - m + 1 /\ \A j \in 1 .. m - 1 : z.kept[j] = P[j]
      BY <2>2, <2>3, <3>1
    <3>4. Len(z.kept) = m /\ z.kept[m] = [P[m] EXCEPT !.to = x]
          /\ z.rest[1] = [P[m] EXCEPT !.from = x]
      BY <2>2, <2>3 DEF p
    <3> HIDE DEF m
    <3>5. CutAt(P, z.kept, z.rest, m, m, x)
      BY <3>2, <3>3, <3>4 DEF CutAt
    <3> QED
      BY <3>5 DEF m
  <2> QED
    BY <1>1, <1>5, <2>2, <2>4, SMTT(30) DEF p
\* The argument stays and there is more space than its boundary needs.
<1>6. ASSUME z.kept = Append(K, p), z.rest = R, z.space > key_length,
             z.exact = (s.exact \/ R # <<>>)
      PROVE  Uncut
  <2> HIDE DEF z, p
  <2>1. R = <<>> /\ Len(K) = n /\ \A j \in 1 .. n : K[j] = P[j]
    BY <1>6 DEF CutOnce
  <2>2. /\ Len(z.kept) = n + 1 /\ z.kept[n + 1] = p
        /\ \A j \in 1 .. n : z.kept[j] = P[j]
    BY <1>1, <1>2, <1>6, <2>1
  <2>3. \A j \in 1 .. n + 1 : j \in 1 .. n \/ j = n + 1
    BY <1>1
  <2> QED
    BY <1>6, <2>1, <2>2, <2>3 DEF p
<1>7. \/ s.space < key_length /\ z = [s EXCEPT !.rest = Append(R, p)]
      \/ Uncut \/ Cut
  <2>1. ASSUME NEW x \in p.from .. p.to, s.space >= key_length,
               z = [kept |-> Append(K, [p EXCEPT !.to = x]),
                    rest |-> Append(R, [p EXCEPT !.from = x]),
                    space |-> 0, exact |-> s.exact \/ R # <<>>]
        PROVE  Cut
    <3> HIDE DEF Cut
    <3>1. /\ z.kept = Append(K, [p EXCEPT !.to = x])
          /\ z.rest = Append(R, [p EXCEPT !.from = x])
          /\ z.space = 0 /\ z.exact = (s.exact \/ R # <<>>)
      <4> HIDE DEF p, K, R
      <4> QED
        BY <2>1
    <3>2. z.space <= key_length
      BY <3>1 DEF key_length
    <3> QED
      BY <1>5, <2>1, <3>1, <3>2
  <2>2. ASSUME NEW after \in Nat, s.space >= key_length, after <= key_length,
               z = [kept |-> Append(K, p), rest |-> Append(R, [p EXCEPT !.from = p.to]),
                    space |-> after, exact |-> s.exact \/ R # <<>>]
        PROVE  Cut
    <3> HIDE DEF Cut
    <3>1. /\ z.kept = Append(K, p) /\ z.rest = Append(R, [p EXCEPT !.from = p.to])
          /\ z.space = after /\ z.exact = (s.exact \/ R # <<>>)
      <4> HIDE DEF p, K, R
      <4> QED
        BY <2>2
    <3> QED
      BY <1>3, <1>5, <2>2, <3>1
  <2>3. ASSUME NEW after \in Nat, after > key_length,
               z = [kept |-> Append(K, p), rest |-> R,
                    space |-> after, exact |-> s.exact \/ R # <<>>]
        PROVE  Uncut
    <3> HIDE DEF Uncut
    <3>1. /\ z.kept = Append(K, p) /\ z.rest = R
          /\ z.space = after /\ z.exact = (s.exact \/ R # <<>>)
      <4> HIDE DEF p, K, R
      <4> QED
        BY <2>3
    <3> QED
      BY <1>6, <2>3, <3>1
  <2> HIDE DEF Cut, Uncut
  <2> QED
    BY <1>1, <2>1, <2>2, <2>3, SplitArgCases
<1> QED
  BY <1>4, <1>7


\* What fragment makes of a message.
LEMMA SplitSound ==
  ASSUME NEW P \in Seq(Pieces), Len(P) \in 1 .. 3, NEW sp \in Nat, sp >= key_length
  PROVE  /\ SplitOK(Split(P, sp), Len(P), sp)
         /\ CutOnce(Split(P, sp), P, Len(P))
<1> DEFINE start == [kept |-> <<>>, rest |-> <<>>, space |-> sp, exact |-> FALSE]
           step(s, i) == IF i <= Len(P) THEN SplitArg(s, P[i]) ELSE s
           OK(s, n) == SplitOK(s, n, sp) /\ CutOnce(s, P, n)
<1>1. OK(start, 0)
  <2>1. start \in Splits
    BY DEF Splits
  <2>2. /\ Len(start.kept) = 0 /\ Len(start.rest) = 0 /\ start.rest = <<>>
        /\ start.space = sp /\ Used(start.kept) = 0
    BY DEF Used
  <2> HIDE DEF start
  <2> QED
    BY <2>1, <2>2 DEF SplitOK, CutOnce
<1>2. ASSUME NEW s, NEW n \in 0 .. 2, n < Len(P), OK(s, n)
      PROVE  OK(step(s, n + 1), n + 1)
  <2>1. n \in 0 .. Len(P) - 1 /\ P[n + 1] \in Pieces /\ s \in Splits
        /\ n + 1 <= Len(P) /\ (n = 0 => s.space >= key_length)
    BY <1>2 DEF SplitOK
  <2>2. step(s, n + 1) = SplitArg(s, P[n + 1])
    BY <2>1
  <2>3. SplitOK(SplitArg(s, P[n + 1]), n + 1, sp)
    BY <1>2, <2>1, SplitArgFits
  <2>4. CutOnce(SplitArg(s, P[n + 1]), P, n + 1)
    BY <1>2, <2>1, SplitArgCuts
  <2> QED
    BY <2>2, <2>3, <2>4
<1>3. ASSUME NEW s, NEW i \in 1 .. 3, i > Len(P) PROVE step(s, i) = s
  BY <1>3
<1>4. Split(P, sp) = step(step(step(start, 1), 2), 3)
  BY DEF Split
<1> HIDE DEF start, step, OK
<1>5. OK(step(start, 1), 1)
  <2>1. 0 \in 0 .. 2 /\ 0 < Len(P) /\ 0 + 1 = 1
    OBVIOUS
  <2> QED
    BY <1>1, <1>2, <2>1
<1>6. CASE Len(P) = 1
  <2>1. step(step(start, 1), 2) = step(start, 1)
    BY <1>3, <1>6
  <2>2. step(step(start, 1), 3) = step(start, 1)
    BY <1>3, <1>6
  <2> QED
    BY <1>4, <1>5, <1>6, <2>1, <2>2 DEF OK
<1>7. ASSUME Len(P) > 1 PROVE OK(step(step(start, 1), 2), 2)
  <2>1. 1 \in 0 .. 2 /\ 1 < Len(P) /\ 1 + 1 = 2
    BY <1>7
  <2> QED
    BY <1>5, <1>2, <2>1
<1>8. CASE Len(P) = 2
  <2>1. step(step(step(start, 1), 2), 3) = step(step(start, 1), 2)
    BY <1>3, <1>8
  <2> QED
    BY <1>4, <1>7, <1>8, <2>1 DEF OK
<1>9. CASE Len(P) = 3
  <2>1. 2 \in 0 .. 2 /\ 2 < Len(P) /\ 2 + 1 = 3 /\ Len(P) > 1
    BY <1>9
  <2>2. OK(step(step(step(start, 1), 2), 3), 3)
    BY <1>7, <1>2, <2>1
  <2> QED
    BY <1>4, <1>9, <2>2 DEF OK
<1> QED
  BY <1>6, <1>8, <1>9

-----------------------------------------------------------------------------
(* Runs of pieces, and frames one after the other.                         *)

\* The parts of a run that is cut are runs, the second from where the first ends.
LEMMA CutRuns ==
  ASSUME NEW P \in Seq(Pieces), NEW len \in [Arguments -> Nat], NEW c \in Nat,
         NEW K \in Seq(Pieces), NEW R \in Seq(Pieces), NEW t,
         Run(P, len, c), StartsAt(P, t),
         NEW m \in 1 .. Len(P), NEW x \in P[m].from .. P[m].to,
         CutAt(P, K, R, Len(P), m, x)
  PROVE  /\ Run(K, len, c) /\ StartsAt(K, t)
         /\ Run(R, len, c) /\ StartsAt(R, End(K)) /\ End(R) = End(P)
<1> DEFINE n == Len(P)
<1>1. n \in Nat /\ m <= n /\ Len(K) = m /\ Len(R) = n - m + 1
  BY DEF CutAt
<1>2. \A i \in 1 .. n : P[i] \in Pieces /\ P[i].a \in Arguments
                        /\ P[i].from \in Nat /\ P[i].to \in Nat /\ len[P[i].a] \in Nat
  BY DEF Pieces
<1>3. /\ K[m].a = P[m].a /\ K[m].from = P[m].from /\ K[m].to = x
      /\ R[1].a = P[m].a /\ R[1].from = x /\ R[1].to = P[m].to
      /\ x \in Nat /\ x <= P[m].to
  <2>1. P[m] \in [a : Arguments, from : Nat, to : Nat]
    BY DEF Pieces
  <2>2. K[m] = [P[m] EXCEPT !.to = x] /\ R[1] = [P[m] EXCEPT !.from = x]
    BY DEF CutAt
  <2> QED
    BY <2>1, <2>2
<1>4. \A j \in 1 .. m - 1 : K[j] = P[j]
  BY DEF CutAt
<1>5. \A j \in 2 .. n - m + 1 : R[j] = P[m + j - 1]
  BY DEF CutAt
<1>6. \A i \in 1 .. n :
        /\ P[i].a = P[1].a + i - 1
        /\ i > 1 => P[i].from = 0
        /\ P[i].to <= len[P[i].a]
        /\ i < n => P[i].a < c /\ P[i].to = len[P[i].a]
  BY DEF Run
<1> HIDE DEF n
<1>12. /\ P[m].a = P[1].a + m - 1 /\ P[1].a \in Nat /\ P[m].a \in Nat
       /\ m > 1 => P[m].from = 0
       /\ P[m].to <= len[P[m].a]
       /\ m < n => P[m].a < c /\ P[m].to = len[P[m].a]
       /\ P[m].to \in Nat /\ len[P[m].a] \in Nat
  <2>1. m \in 1 .. n /\ 1 \in 1 .. n
    BY <1>1
  <2>2. P[m].a \in Arguments /\ P[1].a \in Arguments
        /\ P[m].to \in Nat /\ len[P[m].a] \in Nat
    BY <1>2, <2>1
  <2>3. P[m].a \in Nat /\ P[1].a \in Nat
    BY <2>2, SMTT(30) DEF Arguments, max_args_num
  <2> QED
    BY <1>6, <2>1, <2>2, <2>3
<1>7. K[1].a = P[1].a /\ K[1].from = P[1].from
  BY <1>1, <1>3, <1>4
<1>8. Run(K, len, c)
  <2> SUFFICES ASSUME NEW i \in 1 .. m
               PROVE  /\ K[i].a = K[1].a + i - 1
                      /\ i > 1 => K[i].from = 0
                      /\ K[i].to <= len[K[i].a]
                      /\ i < m => K[i].a < c /\ K[i].to = len[K[i].a]
    BY <1>1 DEF Run
  <2>1. CASE i = m
    BY <1>3, <1>7, <1>12, <2>1, SMTT(30)
  <2>2. CASE i # m
    <3>1. K[i] = P[i] /\ i < n /\ i \in 1 .. n
      BY <1>1, <1>4, <2>2
    <3> QED
      BY <1>2, <1>6, <1>7, <3>1
  <2> QED
    BY <2>1, <2>2
<1>9. Run(R, len, c)
  <2> SUFFICES ASSUME NEW i \in 1 .. n - m + 1
               PROVE  /\ R[i].a = R[1].a + i - 1
                      /\ i > 1 => R[i].from = 0
                      /\ R[i].to <= len[R[i].a]
                      /\ i < n - m + 1 => R[i].a < c /\ R[i].to = len[R[i].a]
    BY <1>1 DEF Run
  <2>1. CASE i = 1
    <3>1. i < n - m + 1 => m < n
      BY <1>1, <2>1
    <3>2. i = 1 /\ 1 <= 1 /\ P[m].a + 1 - 1 = P[m].a
      BY <1>12, <2>1
    <3> QED
      BY <1>3, <1>12, <3>1, <3>2, SMTT(30)
  <2>2. CASE i # 1
    <3> DEFINE k == m + i - 1
    <3>1. R[i] = P[k] /\ k \in 1 .. n /\ (i < n - m + 1 => k < n) /\ i > 1 /\ k > 1
      BY <1>1, <1>5, <2>2, SMTT(30)
    <3>2. P[k].a = P[1].a + k - 1 /\ P[m].a = P[1].a + m - 1 /\ P[1].a \in Nat
      BY <1>6, <1>12, <3>1
    <3>3. P[k].a = P[m].a + i - 1
      <4> DEFINE u == P[1].a
      <4>1. u \in Nat /\ P[k].a = u + k - 1 /\ P[m].a = u + m - 1
        BY <3>2
      <4> HIDE DEF u
      <4> QED
        BY <1>1, <4>1
    <3> HIDE DEF k
    <3> QED
      BY <1>2, <1>3, <1>6, <3>1, <3>3
  <2> QED
    BY <2>1, <2>2
<1>10. StartsAt(K, t) /\ StartsAt(R, End(K))
  BY <1>1, <1>3, <1>7 DEF StartsAt, End, Place
<1>11. End(R) = End(P)
  <2>1. CASE n = m
    <3>1. Len(R) = 1
      BY <1>1, <2>1
    <3> QED
      BY <1>3, <2>1, <3>1 DEF End, Place, n
  <2>2. CASE n # m
    <3>1. R[n - m + 1] = P[n]
      <4>1. n - m + 1 \in 2 .. n - m + 1 /\ m + (n - m + 1) - 1 = n
        BY <1>1, <2>2
      <4> QED
        BY <1>5, <4>1
    <3> QED
      BY <1>1, <3>1 DEF End, n
  <2> QED
    BY <2>1, <2>2
<1> QED
  BY <1>8, <1>9, <1>10, <1>11


\* A frame that goes on where the last one ended.
LEMMA WireAppend ==
  ASSUME NEW w \in Seq(Frames), NEW f \in Frames, NEW t, NEW len, NEW c,
         WirePart(w, t, len, c), Run(f.args, len, c), StartsAt(f.args, WireTip(w, t))
  PROVE  WirePart(Append(w, f), t, len, c) /\ WireTip(Append(w, f), t) = End(f.args)
<1> DEFINE v == Append(w, f)
<1>1. /\ v \in Seq(Frames) /\ Len(v) = Len(w) + 1 /\ v[Len(w) + 1] = f
      /\ \A k \in 1 .. Len(w) : v[k] = w[k]
      /\ Len(w) \in Nat /\ v # <<>> /\ (w = <<>> <=> Len(w) = 0)
  OBVIOUS
<1> HIDE DEF v
<1>2. ASSUME NEW k \in 1 .. Len(v)
      PROVE  /\ Run(v[k].args, len, c)
             /\ StartsAt(v[k].args, IF k = 1 THEN t ELSE End(v[k - 1].args))
  <2>1. CASE k = Len(w) + 1
    <3>1. CASE w = <<>>
      <4>1. k = 1 /\ v[k] = f /\ WireTip(w, t) = t
        BY <1>1, <2>1, <3>1 DEF WireTip
      <4> QED
        BY <4>1
    <3>2. CASE w # <<>>
      <4>1. k # 1 /\ v[k] = f /\ k - 1 = Len(w) /\ Len(w) \in 1 .. Len(w)
        BY <1>1, <2>1, <3>2
      <4>2. WireTip(w, t) = End(w[Len(w)].args) /\ v[k - 1] = w[Len(w)]
        BY <1>1, <3>2, <4>1 DEF WireTip
      <4> QED
        BY <4>1, <4>2
    <3> QED
      BY <3>1, <3>2
  <2>2. CASE k # Len(w) + 1
    <3>1. k \in 1 .. Len(w) /\ v[k] = w[k] /\ (k # 1 => v[k - 1] = w[k - 1])
      BY <1>1, <2>2
    <3> QED
      BY <3>1 DEF WirePart
  <2> QED
    BY <2>1, <2>2
<1>3. WirePart(v, t, len, c)
  BY <1>2 DEF WirePart
<1>4. WireTip(v, t) = End(f.args)
  BY <1>1 DEF WireTip
<1> QED
  BY <1>3, <1>4 DEF v

\* The first frame is taken: the others go on from where it ended.
LEMMA WireTake ==
  ASSUME NEW w \in Seq(Frames), w # <<>>, NEW t, NEW len, NEW c, WirePart(w, t, len, c)
  PROVE  /\ Run(Head(w).args, len, c) /\ StartsAt(Head(w).args, t)
         /\ WirePart(Tail(w), End(Head(w).args), len, c)
         /\ WireTip(Tail(w), End(Head(w).args)) = WireTip(w, t)
         /\ Head(w) = w[1] /\ Head(w) \in Frames
<1> DEFINE v == Tail(w)
           h == Head(w)
<1>1. /\ v \in Seq(Frames) /\ Len(v) = Len(w) - 1 /\ h = w[1] /\ h \in Frames
      /\ \A k \in 1 .. Len(v) : v[k] = w[k + 1]
      /\ Len(w) \in Nat /\ Len(w) > 0 /\ (v = <<>> <=> Len(v) = 0)
  <2>1. Len(w) \in Nat /\ Len(w) > 0
    OBVIOUS
  <2>2. v \in Seq(Frames) /\ Len(v) = Len(w) - 1
    OBVIOUS
  <2>3. \A k \in 1 .. Len(v) : v[k] = w[k + 1]
    <3>1. \A k \in 1 .. Len(w) - 1 : Tail(w)[k] = w[k + 1]
      OBVIOUS
    <3> QED
      BY <2>2, <3>1
  <2>4. h = w[1] /\ h \in Frames
    OBVIOUS
  <2>5. v = <<>> <=> Len(v) = 0
    <3> HIDE DEF v
    <3> QED
      BY <2>2, SMTT(30)
  <2> QED
    BY <2>1, <2>2, <2>3, <2>4, <2>5
<1> HIDE DEF v, h
<1>2. Run(h.args, len, c) /\ StartsAt(h.args, t)
  BY <1>1 DEF WirePart
<1>3. ASSUME NEW k \in 1 .. Len(v)
      PROVE  /\ Run(v[k].args, len, c)
             /\ StartsAt(v[k].args, IF k = 1 THEN End(h.args) ELSE End(v[k - 1].args))
  <2>1. /\ v[k] = w[k + 1] /\ k + 1 \in 1 .. Len(w) /\ k + 1 # 1 /\ k + 1 - 1 = k
        /\ IF k = 1 THEN h = w[k] ELSE v[k - 1] = w[k]
    BY <1>1
  <2>2. /\ Run(w[k + 1].args, len, c)
        /\ StartsAt(w[k + 1].args, IF k + 1 = 1 THEN t ELSE End(w[k + 1 - 1].args))
    BY <2>1 DEF WirePart
  <2>3. StartsAt(w[k + 1].args, End(w[k].args))
    BY <2>1, <2>2
  <2> QED
    BY <2>1, <2>2, <2>3
<1>4. WirePart(v, End(h.args), len, c)
  BY <1>3 DEF WirePart
<1>5. WireTip(v, End(h.args)) = WireTip(w, t)
  <2>1. CASE v = <<>>
    <3>1. Len(w) = 1
      BY <1>1, <2>1
    <3> QED
      BY <1>1, <2>1, <3>1 DEF WireTip
  <2>2. CASE v # <<>>
    <3>1. Len(v) \in 1 .. Len(v) /\ Len(v) + 1 = Len(w) /\ w # <<>>
      BY <1>1, <2>2
    <3>2. v[Len(v)] = w[Len(w)]
      BY <1>1, <3>1
    <3> QED
      BY <2>2, <3>1, <3>2 DEF WireTip
  <2> QED
    BY <2>1, <2>2
<1> QED
  BY <1>1, <1>2, <1>4, <1>5 DEF v, h

\* What the sender reads later changes nothing of what was read before.
Grows(len, c, len2, c2) ==
  /\ c <= c2
  /\ \A a \in Arguments : len[a] <= len2[a] /\ (a < c => len2[a] = len[a])

LEMMA RunGrows ==
  ASSUME NEW P \in Seq(Pieces), NEW len \in [Arguments -> Nat], NEW c \in Nat,
         NEW len2 \in [Arguments -> Nat], NEW c2 \in Nat, Grows(len, c, len2, c2),
         Run(P, len, c)
  PROVE  Run(P, len2, c2)
<1> SUFFICES ASSUME NEW i \in 1 .. Len(P)
             PROVE  /\ P[i].a = P[1].a + i - 1
                    /\ i > 1 => P[i].from = 0
                    /\ P[i].to <= len2[P[i].a]
                    /\ i < Len(P) => P[i].a < c2 /\ P[i].to = len2[P[i].a]
  BY DEF Run
<1>1. P[i].a \in Arguments /\ P[i].to \in Nat /\ P[i].a \in Nat
  BY SMTT(30) DEF Pieces, Arguments, max_args_num
<1>2. /\ P[i].a = P[1].a + i - 1
      /\ i > 1 => P[i].from = 0
      /\ P[i].to <= len[P[i].a]
      /\ i < Len(P) => P[i].a < c /\ P[i].to = len[P[i].a]
  BY DEF Run
<1>3. /\ len[P[i].a] \in Nat /\ len2[P[i].a] \in Nat /\ c <= c2
      /\ len[P[i].a] <= len2[P[i].a] /\ (P[i].a < c => len2[P[i].a] = len[P[i].a])
  BY <1>1 DEF Grows
<1> QED
  BY <1>1, <1>2, <1>3

LEMMA PartGrows ==
  ASSUME NEW P \in Seq(Pieces), NEW len \in [Arguments -> Nat], NEW c \in Nat,
         NEW len2 \in [Arguments -> Nat], NEW c2 \in Nat, Grows(len, c, len2, c2),
         NEW t, Part(P, t, len, c)
  PROVE  Part(P, t, len2, c2)
  BY RunGrows DEF Part

LEMMA WireGrows ==
  ASSUME NEW w \in Seq(Frames), NEW len \in [Arguments -> Nat], NEW c \in Nat,
         NEW len2 \in [Arguments -> Nat], NEW c2 \in Nat, Grows(len, c, len2, c2),
         NEW t, WirePart(w, t, len, c)
  PROVE  WirePart(w, t, len2, c2)
<1>1. \A k \in 1 .. Len(w) : w[k].args \in Seq(Pieces)
  BY DEF Frames
<1>2. \A k \in 1 .. Len(w) : Run(w[k].args, len2, c2)
  BY <1>1, RunGrows DEF WirePart
<1> QED
  BY <1>2 DEF WirePart

LEMMA ReceivingGrows ==
  ASSUME NEW s \in [Arguments -> [chunks : Seq(Pieces), completed : BOOLEAN]],
         NEW len \in [Arguments -> Nat], NEW c \in Nat, NEW d \in Arguments,
         NEW len2 \in [Arguments -> Nat], NEW c2 \in Nat, Grows(len, c, len2, c2),
         Receiving(s, d, len, c)
  PROVE  Receiving(s, d, len2, c2)
<1>1. \A a \in Arguments : Received(s[a].chunks) \in Nat /\ a \in Nat
  <2> TAKE a \in Arguments
  <2>1. s[a].chunks \in Seq(Pieces)
    OBVIOUS
  <2>2. CASE s[a].chunks = <<>>
    BY <2>2 DEF Received, Arguments, max_args_num
  <2>3. CASE s[a].chunks # <<>>
    <3>1. s[a].chunks[Len(s[a].chunks)] \in Pieces
      BY <2>1, <2>3
    <3> QED
      BY <2>3, <3>1, SMTT(30) DEF Received, Pieces, Arguments, max_args_num
  <2> QED
    BY <2>2, <2>3
<1> SUFFICES ASSUME NEW a \in Arguments
             PROVE  /\ Consecutive(s[a].chunks, a) /\ Received(s[a].chunks) <= len2[a]
                    /\ s[a].completed <=> a < d
                    /\ a < d => a < c2 /\ Received(s[a].chunks) = len2[a]
                    /\ a > d => s[a].chunks = <<>>
  BY DEF Receiving
<1>2. /\ Consecutive(s[a].chunks, a) /\ Received(s[a].chunks) <= len[a]
      /\ s[a].completed <=> a < d
      /\ a < d => a < c /\ Received(s[a].chunks) = len[a]
      /\ a > d => s[a].chunks = <<>>
  BY DEF Receiving
<1>3. /\ len[a] \in Nat /\ len2[a] \in Nat /\ c <= c2 /\ a \in Nat
      /\ Received(s[a].chunks) \in Nat
      /\ len[a] <= len2[a] /\ (a < c => len2[a] = len[a])
  BY <1>1 DEF Grows
<1> QED
  BY <1>2, <1>3


-----------------------------------------------------------------------------
(* A frame received.                                                       *)

Streams == [Arguments -> [chunks : Seq(Pieces), completed : BOOLEAN]]

\* A piece that goes on where the chunks end.
LEMMA WriteNext ==
  ASSUME NEW s \in [chunks : Seq(Pieces), completed : BOOLEAN], NEW a \in Arguments,
         NEW p \in Pieces, Consecutive(s.chunks, a), p.a = a, p.from = Received(s.chunks)
  PROVE  /\ Write(s, p) \in [chunks : Seq(Pieces), completed : BOOLEAN]
         /\ Write(s, p).completed = s.completed
         /\ Consecutive(Write(s, p).chunks, a) /\ Received(Write(s, p).chunks) = p.to
<1> DEFINE C == s.chunks
           z == Write(s, p)
<1>1. C \in Seq(Pieces) /\ s.completed \in BOOLEAN /\ p.from \in Nat /\ p.to \in Nat
  BY DEF Pieces
<1>2. CASE Size(p) = 0
  <2>1. z = s /\ p.from = p.to
    BY <1>1, <1>2 DEF Write, Size
  <2> QED
    BY <2>1
<1>3. CASE Size(p) # 0
  <2> DEFINE A == Append(C, p)
  <2>1. z = [s EXCEPT !.chunks = A]
    BY <1>3 DEF Write
  <2>2. /\ A \in Seq(Pieces) /\ Len(A) = Len(C) + 1 /\ A[Len(C) + 1] = p /\ A # <<>>
        /\ \A i \in 1 .. Len(C) : A[i] = C[i]
        /\ Len(C) \in Nat /\ (C = <<>> <=> Len(C) = 0)
    BY <1>1
  <2> HIDE DEF A
  <2>3. z.chunks = A /\ z.completed = s.completed
        /\ z \in [chunks : Seq(Pieces), completed : BOOLEAN]
    BY <1>1, <2>1, <2>2
  <2>4. Received(A) = p.to
    BY <2>2 DEF Received
  <2>5. ASSUME NEW i \in 1 .. Len(A)
        PROVE  A[i].a = a /\ A[i].from = IF i = 1 THEN 0 ELSE A[i - 1].to
    <3>1. CASE i = Len(C) + 1
      <4>1. CASE C = <<>>
        BY <2>2, <3>1, <4>1 DEF Received
      <4>2. CASE C # <<>>
        <5>1. i # 1 /\ i - 1 = Len(C) /\ A[i - 1] = C[Len(C)] /\ A[i] = p
          BY <2>2, <3>1, <4>2
        <5> QED
          BY <4>2, <5>1 DEF Received
      <4> QED
        BY <4>1, <4>2
    <3>2. CASE i # Len(C) + 1
      <4>1. i \in 1 .. Len(C) /\ A[i] = C[i] /\ (i # 1 => A[i - 1] = C[i - 1])
        BY <2>2, <3>2
      <4> QED
        BY <4>1 DEF Consecutive
    <3> QED
      BY <3>1, <3>2
  <2>6. Consecutive(A, a)
    BY <2>5 DEF Consecutive
  <2> QED
    BY <2>3, <2>4, <2>6
<1> QED
  BY <1>2, <1>3

\* Written, for any streams.
WrittenTo(s, f, d) ==
  [a \in Arguments |->
    IF a \in d .. d + Len(f.args) - 1
    THEN Write(s[a], f.args[a - d + 1]) ELSE s[a]]

\* What the streams z are after the frame f, whose last piece went to stream e.
FrameWritten(z, s, f, e, len, c) ==
  \A a \in Arguments :
    /\ z[a].completed = s[a].completed
    /\ Consecutive(z[a].chunks, a) /\ Received(z[a].chunks) <= len[a]
    /\ a < e => a < c /\ Received(z[a].chunks) = len[a]
    /\ a = e => Received(z[a].chunks) = End(f.args).to
    /\ a > e => z[a].chunks = <<>>

\* The pieces of a frame that goes on where the receiver is, written to the streams
\* from d to e.
LEMMA WriteFrame ==
  ASSUME NEW s \in Streams, NEW len \in [Arguments -> Nat], NEW c \in Nat,
         NEW d \in Arguments, Receiving(s, d, len, c), NEW f \in Frames,
         Run(f.args, len, c), StartsAt(f.args, ReceiverAt(s, d)),
         NEW z, z = WrittenTo(s, f, d),
         NEW e, e = d + Len(f.args) - 1
  PROVE  /\ e \in Arguments /\ d <= e /\ End(f.args).a = e /\ z \in Streams
         /\ FrameWritten(z, s, f, e, len, c)
<1> DEFINE P == f.args
           n == Len(P)
<1>1. P \in Seq(Pieces) /\ n \in 1 .. 3
  BY DEF Frames, max_args_num
<1>2. \A i \in 1 .. n : P[i] \in Pieces /\ P[i].a \in Arguments /\ P[i].a \in 1 .. 3
                        /\ P[i].to \in Nat
  <2> TAKE i \in 1 .. n
  <2>1. P[i] \in Pieces
    BY <1>1
  <2>2. P[i].a \in Arguments /\ P[i].to \in Nat
    BY <2>1 DEF Pieces
  <2> QED
    BY <2>1, <2>2 DEF Arguments, max_args_num
<1>3. \A i \in 1 .. n :
        /\ P[i].a = P[1].a + i - 1
        /\ i > 1 => P[i].from = 0
        /\ P[i].to <= len[P[i].a]
        /\ i < n => P[i].a < c /\ P[i].to = len[P[i].a]
  BY DEF Run
<1>4. P[1].a = d /\ P[1].from = Received(s[d].chunks)
  BY DEF StartsAt, ReceiverAt
<1>5. s \in [Arguments -> [chunks : Seq(Pieces), completed : BOOLEAN]] /\ d \in 1 .. 3
      /\ Arguments = 1 .. 3
  BY DEF Streams, Arguments, max_args_num
<1> HIDE DEF n, P
<1>6. e \in Arguments /\ d <= e /\ e = d + n - 1 /\ P[n].a = e
  <2>1. n \in 1 .. n /\ n \in Nat
    BY <1>1
  <2>2. P[n].a = d + n - 1 /\ P[n].a \in Arguments
    BY <1>2, <1>3, <1>4, <2>1
  <2>3. e = d + n - 1
    BY DEF n, P
  <2> QED
    BY <1>1, <1>5, <2>2, <2>3, SMTT(30)
<1>7. End(P).a = e /\ End(P).to = P[n].to
  BY <1>6 DEF End, Place, n
<1>8. ASSUME NEW a \in Arguments
      PROVE  /\ z[a] \in [chunks : Seq(Pieces), completed : BOOLEAN]
             /\ z[a].completed = s[a].completed
             /\ Consecutive(z[a].chunks, a) /\ Received(z[a].chunks) <= len[a]
             /\ a < e => a < c /\ Received(z[a].chunks) = len[a]
             /\ a = e => Received(z[a].chunks) = End(P).to
             /\ a > e => z[a].chunks = <<>>
  <2>1. a \in 1 .. 3 /\ e \in 1 .. 3 /\ a \in Nat /\ e \in Nat /\ d \in Nat
    <3>1. a \in 1 .. 3 /\ e \in 1 .. 3
      BY <1>5, <1>6
    <3> QED
      BY <1>5, <3>1
  <2>2. /\ Consecutive(s[a].chunks, a) /\ Received(s[a].chunks) <= len[a]
        /\ a < d => a < c /\ Received(s[a].chunks) = len[a]
        /\ a > d => s[a].chunks = <<>>
    BY DEF Receiving
  <2>3. s[a] \in [chunks : Seq(Pieces), completed : BOOLEAN]
    BY <1>5
  <2>4. CASE a \in d .. e
    <3> DEFINE i == a - d + 1
    <3>1. i \in 1 .. n /\ (i > 1 <=> a > d) /\ (i < n <=> a < e) /\ (a = e => i = n)
          /\ d + i - 1 = a
      <4>1. n \in Nat /\ d <= a /\ a <= e /\ e = d + n - 1
        BY <1>1, <1>6, <2>1, <2>4
      <4>2. i = a - d + 1 /\ n = e - d + 1
        BY <1>1, <2>1, <4>1
      <4> HIDE DEF i
      <4> QED
        BY ONLY <2>1, <4>1, <4>2
    <3>2. z[a] = Write(s[a], P[i])
      BY <1>6, <2>4 DEF P, n, WrittenTo
    <3> HIDE DEF i
    <3>3. P[i] \in Pieces /\ P[i].a = a /\ P[i].to <= len[a]
          /\ (a < e => a < c /\ P[i].to = len[a])
      BY <1>2, <1>3, <1>4, <3>1
    <3>4. P[i].from = Received(s[a].chunks)
      <4>1. CASE a = d
        <5>1. i = 1
          BY <2>1, <3>1, <4>1
        <5> QED
          BY <1>4, <4>1, <5>1
      <4>2. CASE a # d
        <5>1. a > d
          BY <2>1, <2>4, <4>2
        <5> QED
          BY <1>3, <2>2, <3>1, <5>1 DEF Received
      <4> QED
        BY <4>1, <4>2
    <3>5. /\ z[a] \in [chunks : Seq(Pieces), completed : BOOLEAN]
          /\ z[a].completed = s[a].completed
          /\ Consecutive(z[a].chunks, a) /\ Received(z[a].chunks) = P[i].to
      BY <2>2, <2>3, <3>2, <3>3, <3>4, WriteNext
    <3>6. ~(a > e)
      BY <2>1, <2>4
    <3> QED
      BY <1>7, <3>1, <3>3, <3>5, <3>6
  <2>5. CASE a \notin d .. e
    <3>1. z[a] = s[a]
      BY <1>6, <2>5 DEF P, n, WrittenTo
    <3>2. (a < d \/ a > e) /\ a # e /\ (a < e => a < d) /\ (a > e => a > d)
      BY <1>6, <2>1, <2>5, SMTT(30)
    <3> QED
      BY <2>2, <2>3, <3>1, <3>2
  <2> QED
    BY <2>4, <2>5
<1>9. z \in Streams
  BY <1>8 DEF Streams, WrittenTo
<1> QED
  BY <1>6, <1>7, <1>8, <1>9 DEF P, FrameWritten

\* The streams before the last one written are closed: the receiver is where the frame
\* ended.
LEMMA TakeFrame ==
  ASSUME NEW len \in [Arguments -> Nat], NEW c \in Nat, NEW s \in Streams,
         NEW d \in Arguments, Receiving(s, d, len, c), NEW f \in Frames,
         Run(f.args, len, c), StartsAt(f.args, ReceiverAt(s, d)),
         NEW z, z = WrittenTo(s, f, d),
         NEW e, e = d + Len(f.args) - 1, NEW y, y = Close(z, e, f)
  PROVE  /\ e \in Arguments /\ End(f.args).a = e /\ y \in Streams
         /\ ~f.last => Receiving(y, e, len, c) /\ ReceiverAt(y, e) = End(f.args)
         /\ f.last /\ e = 3 /\ End(f.args).to = len[3] =>
              \A a \in Arguments : /\ Consecutive(y[a].chunks, a) /\ y[a].completed
                                   /\ Received(y[a].chunks) = len[a]
<1>1. /\ e \in Arguments /\ d <= e /\ End(f.args).a = e /\ z \in Streams
      /\ \A a \in Arguments :
           /\ z[a].completed = s[a].completed
           /\ Consecutive(z[a].chunks, a) /\ Received(z[a].chunks) <= len[a]
           /\ a < e => a < c /\ Received(z[a].chunks) = len[a]
           /\ a = e => Received(z[a].chunks) = End(f.args).to
           /\ a > e => z[a].chunks = <<>>
  <2>1. /\ e \in Arguments /\ d <= e /\ End(f.args).a = e /\ z \in Streams
        /\ FrameWritten(z, s, f, e, len, c)
    BY WriteFrame
  <2> QED
    BY <2>1 DEF FrameWritten
<1>2. d \in 1 .. 3 /\ e \in 1 .. 3 /\ f.last \in BOOLEAN
  BY <1>1 DEF Arguments, max_args_num, Frames
<1>3. ASSUME NEW a \in Arguments
      PROVE  /\ y[a] \in [chunks : Seq(Pieces), completed : BOOLEAN]
             /\ y[a].chunks = z[a].chunks
             /\ y[a].completed <=> (a < e \/ (f.last /\ a = e))
  <2>1. z[a] \in [chunks : Seq(Pieces), completed : BOOLEAN] /\ a \in 1 .. 3
    BY <1>1 DEF Streams, Arguments, max_args_num
  <2>2. y[a] = [z[a] EXCEPT !.completed = z[a].completed \/ a < e \/ (f.last /\ a = e)]
    BY DEF Close
  <2>3. z[a].completed <=> a < d
    BY <1>1 DEF Receiving
  <2>4. a < d => a < e
    BY <1>1, <1>2, <2>1
  <2>5. (z[a].completed \/ a < e \/ (f.last /\ a = e)) \in BOOLEAN
    OBVIOUS
  <2> QED
    BY <2>1, <2>2, <2>3, <2>4, <2>5
<1>4. y \in Streams
  BY <1>3 DEF Streams, Close
<1>5. ASSUME ~f.last PROVE Receiving(y, e, len, c) /\ ReceiverAt(y, e) = End(f.args)
  <2>1. Receiving(y, e, len, c)
    BY <1>1, <1>3, <1>5 DEF Receiving
  <2>2. Received(y[e].chunks) = End(f.args).to
    BY <1>1, <1>3
  <2> QED
    BY <1>1, <2>1, <2>2 DEF ReceiverAt, End, Place
<1>6. ASSUME f.last, e = 3, End(f.args).to = len[3], NEW a \in Arguments
      PROVE  /\ Consecutive(y[a].chunks, a) /\ y[a].completed
             /\ Received(y[a].chunks) = len[a]
  <2>1. a < e \/ a = e
    BY <1>6 DEF Arguments, max_args_num
  <2> QED
    BY <1>1, <1>3, <1>6, <2>1
<1> QED
  BY <1>1, <1>4, <1>5, <1>6


-----------------------------------------------------------------------------
(* Every step.                                                             *)

\* The first stream that is not complete is one of the three.
LEMMA IncompleteFirst ==
  ASSUME streams \in Streams
  PROVE  /\ Incomplete \in Arguments
         /\ \A d \in Arguments :
              (\A a \in Arguments : streams[a].completed <=> a < d) => Incomplete = d
<1>1. Arguments = 1 .. 3 /\ 1 \in Arguments
  BY DEF Arguments, max_args_num
<1> DEFINE First(a) == ~streams[a].completed /\ \A b \in 1 .. a - 1 : streams[b].completed
<1>2. ASSUME ~ \A a \in Arguments : streams[a].completed
      PROVE  \E a \in Arguments : First(a)
  <2>1. CASE ~streams[1].completed
    <3>1. First(1)
      BY <2>1
    <3> QED
      BY <1>1, <3>1
  <2>2. CASE streams[1].completed /\ ~streams[2].completed
    <3>1. First(2) /\ 2 \in Arguments
      BY <1>1, <2>2
    <3> QED
      BY <3>1
  <2>3. CASE streams[1].completed /\ streams[2].completed
    <3>1. First(3) /\ 3 \in Arguments
      BY <1>1, <1>2, <2>3
    <3> QED
      BY <3>1
  <2> QED
    BY <2>1, <2>2, <2>3
<1>3. Incomplete \in Arguments
  <2>1. CASE \A a \in Arguments : streams[a].completed
    BY <1>1, <2>1 DEF Incomplete
  <2>2. CASE ~ \A a \in Arguments : streams[a].completed
    BY <1>2, <2>2 DEF Incomplete
  <2> QED
    BY <2>1, <2>2
<1>4. ASSUME NEW d \in Arguments, \A a \in Arguments : streams[a].completed <=> a < d
      PROVE  Incomplete = d
  <2>1. d \in 1 .. 3 /\ ~streams[d].completed
    BY <1>1, <1>4
  <2>2. First(d)
    BY <1>1, <1>4, <2>1
  <2>3. \A a \in Arguments : First(a) => a = d
    <3> SUFFICES ASSUME NEW a \in Arguments, First(a) PROVE a = d
      OBVIOUS
    <3>1. a \in 1 .. 3 /\ ~(a < d)
      BY <1>1, <1>4
    <3>2. ~(d < a)
      <4> SUFFICES ASSUME d < a PROVE FALSE
        OBVIOUS
      <4>1. d \in 1 .. a - 1
        BY <2>1, <3>1
      <4> QED
        BY <2>1, <4>1
    <3> QED
      BY <2>1, <3>1, <3>2
  <2>4. Incomplete = CHOOSE a \in Arguments : First(a)
    BY <2>1, <1>4 DEF Incomplete
  <2> HIDE DEF First
  <2> QED
    BY <2>2, <2>3, <2>4
<1> QED
  BY <1>3, <1>4

\* The streams keep their type, whatever is written to them.
LEMMA WrittenType ==
  ASSUME streams \in Streams, NEW f \in Frames, NEW d \in Arguments, NEW e
  PROVE  Written(f, d) \in Streams /\ Close(Written(f, d), e, f) \in Streams
<1> DEFINE z == Written(f, d)
<1>1. f.args \in Seq(Pieces) /\ Arguments = 1 .. 3 /\ Len(f.args) \in Nat
      /\ \A a \in Arguments : streams[a] \in [chunks : Seq(Pieces), completed : BOOLEAN]
  BY DEF Frames, Streams, Arguments, max_args_num
<1>2. ASSUME NEW a \in Arguments PROVE z[a] \in [chunks : Seq(Pieces), completed : BOOLEAN]
  <2>1. CASE a \in d .. d + Len(f.args) - 1
    <3>1. a - d + 1 \in 1 .. Len(f.args)
      BY <1>1, <2>1
    <3>2. f.args[a - d + 1] \in Pieces
      BY <1>1, <3>1
    <3>3. z[a] = Write(streams[a], f.args[a - d + 1])
      BY <2>1 DEF Written
    <3>4. \A s \in [chunks : Seq(Pieces), completed : BOOLEAN] : \A p \in Pieces :
            Write(s, p) \in [chunks : Seq(Pieces), completed : BOOLEAN]
      BY DEF Write
    <3> QED
      BY <1>1, <3>2, <3>3, <3>4, ZenonT(30)
  <2>2. CASE a \notin d .. d + Len(f.args) - 1
    BY <1>1, <2>2 DEF Written
  <2> QED
    BY <2>1, <2>2
<1>3. z \in Streams
  BY <1>2 DEF Streams, Written
<1> HIDE DEF z
<1>4. ASSUME NEW a \in Arguments
      PROVE  Close(z, e, f)[a] \in [chunks : Seq(Pieces), completed : BOOLEAN]
  <2>1. z[a] \in [chunks : Seq(Pieces), completed : BOOLEAN]
    BY <1>3 DEF Streams
  <2>2. Close(z, e, f)[a] =
          [z[a] EXCEPT !.completed = z[a].completed \/ a < e \/ (f.last /\ a = e)]
    BY DEF Close
  <2>3. (z[a].completed \/ a < e \/ (f.last /\ a = e)) \in BOOLEAN
    OBVIOUS
  <2> QED
    BY <2>1, <2>2, <2>3
<1>5. Close(z, e, f) \in Streams
  BY <1>4 DEF Streams, Close
<1> QED
  BY <1>3, <1>5 DEF z

\* What holds whatever is cut where.
FragBase == FragTypeOK /\ FramesFit /\ Collecting

\* The frame that SendFragment writes, and the message it leaves.
LEMMA SentFrame ==
  ASSUME FragBase, out # NoMessage, NEW s, s = Split(out.args, Space(out.first))
  PROVE  /\ out \in Frames /\ out.args \in Seq(Pieces) /\ Len(out.args) \in 1 .. 3
         /\ SplitOK(s, Len(out.args), Space(out.first))
         /\ CutOnce(s, out.args, Len(out.args))
         /\ s.kept \in Seq(Pieces) /\ s.rest \in Seq(Pieces) /\ s.exact \in BOOLEAN
         /\ Len(s.kept) \in 1 .. 3 /\ Len(s.rest) \in 0 .. 3
         /\ Used(s.kept) <= Space(out.first)
         /\ \A b \in BOOLEAN : [args |-> s.kept, first |-> out.first, last |-> b] \in Frames
         /\ s.rest # <<>> =>
              [args |-> s.rest, first |-> FALSE, last |-> out.last] \in Frames
<1>1. out \in Frames
  BY DEF FragBase, FragTypeOK
<1>2. /\ out.args \in Seq(Pieces) /\ Len(out.args) \in 1 .. 3
      /\ out.first \in BOOLEAN /\ out.last \in BOOLEAN
  BY <1>1 DEF Frames, max_args_num
<1>3. Space(out.first) \in Nat /\ Space(out.first) >= key_length
  BY FragmentationAssumption DEF Space
<1>4. SplitOK(s, Len(out.args), Space(out.first)) /\ CutOnce(s, out.args, Len(out.args))
  BY <1>2, <1>3, SplitSound
<1>5. /\ s.kept \in Seq(Pieces) /\ s.rest \in Seq(Pieces) /\ s.exact \in BOOLEAN
      /\ s.space \in Nat
  BY <1>4 DEF SplitOK, Splits
<1>6. Len(s.kept) \in 1 .. 3 /\ Len(s.rest) \in 0 .. 3
      /\ Used(s.kept) + s.space <= Space(out.first)
  <2>1. /\ Len(s.kept) <= Len(out.args) /\ Len(s.rest) <= Len(out.args)
        /\ IF Len(out.args) = 0 THEN s.space >= key_length ELSE Len(s.kept) >= 1
        /\ Used(s.kept) + s.space <= Space(out.first)
    BY <1>4 DEF SplitOK
  <2>2. Len(s.kept) \in Nat /\ Len(s.rest) \in Nat
    BY <1>5
  <2>3. \A i \in 1 .. 3 : \A j, k \in Nat :
          i # 0 /\ (j >= 1 /\ j <= i /\ k <= i => j \in 1 .. 3 /\ k \in 0 .. 3)
    OBVIOUS
  <2> QED
    BY <1>2, <2>1, <2>2, <2>3
<1>7. \A p \in Pieces : Size(p) \in Nat
  BY DEF Pieces, Size
<1>8. Used(s.kept) \in Int
  <2>1. \A i \in 1 .. Len(s.kept) : Size(s.kept[i]) \in Nat
    BY <1>5, <1>7
  <2>2. \A i \in {1, 2, 3} :
          (IF i <= Len(s.kept) THEN key_length + Size(s.kept[i]) ELSE 0) \in Int
    BY <1>5, <2>1 DEF key_length
  <2> QED
    BY <2>2 DEF Used
<1>9. Used(s.kept) <= Space(out.first)
  BY <1>3, <1>5, <1>6, <1>8
<1>10. \A b \in BOOLEAN : [args |-> s.kept, first |-> out.first, last |-> b] \in Frames
  BY <1>2, <1>5, <1>6 DEF Frames, max_args_num
<1>11. s.rest # <<>> => [args |-> s.rest, first |-> FALSE, last |-> out.last] \in Frames
  <2>1. s.rest # <<>> => Len(s.rest) \in 1 .. 3
    BY <1>5, <1>6
  <2> QED
    BY <1>2, <1>5, <2>1 DEF Frames, max_args_num
<1> QED
  BY <1>1, <1>2, <1>4, <1>5, <1>6, <1>9, <1>10, <1>11


LEMMA BaseStep == FragBase /\ FragNext => FragBase'
<1> SUFFICES ASSUME FragBase, FragNext PROVE FragBase'
  OBVIOUS
<1>1. /\ cur \in 1 .. 4 /\ read \in Nat /\ length \in [Arguments -> Nat]
      /\ args \in Seq(Pieces) /\ Len(args) <= 3 /\ Len(args) \in Nat
      /\ state \in {"init", "streaming", "completed"}
      /\ out \in Frames \cup {NoMessage} /\ wire \in Seq(Frames) /\ streams \in Streams
      /\ outcome \in {"ok", "IndexError", "UnexpectedError"} /\ exact \in BOOLEAN
      /\ Arguments = 1 .. 3
      /\ Len(args) <= (IF read = 0 THEN cur - 1 ELSE cur) /\ (read # 0 => args # <<>> /\ cur # 4)
  BY DEF FragBase, FragTypeOK, Collecting, Streams, Arguments, max_args_num
<1>2. /\ NoMessage \in Frames \cup {NoMessage}
      /\ \A b \in BOOLEAN : args # <<>> => RawMessage(args, b) \in Frames
  <2>1. args # <<>> => Len(args) \in 1 .. 3
    <3>1. args \in Seq(Pieces) /\ Len(args) <= 3
      BY <1>1
    <3>2. args # <<>> => Len(args) # 0
      BY <3>1
    <3>3. \A i \in Nat : i # 0 /\ i <= 3 => i \in 1 .. 3
      OBVIOUS
    <3> QED
      BY <1>1, <3>1, <3>2, <3>3
  <2> QED
    BY <1>1, <2>1 DEF RawMessage, Frames, max_args_num
<1>3. ASSUME NEW n \in Nat, cur \in Arguments
      PROVE  /\ ReadChunk(n) \in Pieces
             /\ [length EXCEPT ![cur] = length[cur] + n] \in [Arguments -> Nat]
  BY <1>1, <1>3, SMTT(30) DEF ReadChunk, Piece, Pieces
<1> DEFINE Types == /\ cur' \in 1 .. 4 /\ read' \in Nat /\ length' \in [Arguments -> Nat]
                    /\ args' \in Seq(Pieces) /\ Len(args') <= 3
                    /\ state' \in {"init", "streaming", "completed"}
                    /\ out' \in Frames \cup {NoMessage} /\ wire' \in Seq(Frames)
                    /\ streams' \in Streams
                    /\ outcome' \in {"ok", "IndexError", "UnexpectedError"}
                    /\ exact' \in BOOLEAN
           Collects == /\ Len(args') <= (IF read' = 0 THEN cur' - 1 ELSE cur')
                       /\ read' # 0 => args' # <<>> /\ cur' # 4
<1> SUFFICES Types /\ FramesFit' /\ Collects
  BY DEF FragBase, FragTypeOK, Collecting, Streams, max_args_num
<1>4. wire' = wire => FramesFit'
  BY DEF FragBase, FramesFit
<1>5. ASSUME NEW n \in ChunkSizes \cup {0}, StreamFirst(n) PROVE Types /\ FramesFit' /\ Collects
  <2>1. n \in Nat /\ cur \in Arguments /\ read = 0 /\ cur \in Nat
    BY <1>1, <1>5, FragmentationAssumption DEF StreamFirst
  <2>2. /\ args' = Append(args, ReadChunk(n)) /\ ReadChunk(n) \in Pieces
        /\ length' \in [Arguments -> Nat] /\ read' = 1
        /\ UNCHANGED <<cur, state, out, wire, streams, outcome, exact>>
    BY <1>3, <1>5, <2>1 DEF StreamFirst
  <2>3. args' \in Seq(Pieces) /\ Len(args') = Len(args) + 1 /\ args' # <<>>
    BY <1>1, <2>2
  <2>4. Len(args) <= cur - 1 /\ cur <= 3
    BY <1>1, <2>1
  <2> QED
    BY <1>1, <1>4, <2>1, <2>2, <2>3, <2>4
<1>6. ASSUME NEW n \in ChunkSizes, StreamMore(n) PROVE Types /\ FramesFit' /\ Collects
  <2>1. n \in Nat /\ cur \in Arguments /\ read # 0 /\ read' = read + 1 /\ read' \in Nat
    BY <1>1, <1>6, FragmentationAssumption DEF StreamMore
  <2>2. /\ args' = <<ReadChunk(n)>> /\ ReadChunk(n) \in Pieces
        /\ length' \in [Arguments -> Nat] /\ out' \in Frames \cup {NoMessage}
        /\ state' = "streaming" /\ UNCHANGED <<cur, wire, streams, outcome, exact>>
    BY <1>1, <1>2, <1>3, <1>6, <2>1 DEF StreamMore, Collected
  <2>3. args' \in Seq(Pieces) /\ Len(args') = 1 /\ args' # <<>>
    BY <2>2
  <2> QED
    BY <1>1, <1>4, <2>1, <2>2, <2>3
<1>7. CASE StreamNext
  <2>1. /\ cur \in Arguments /\ read # 0 /\ cur' = cur + 1 /\ read' = 0
        /\ UNCHANGED <<length, args, state, out, wire, streams, outcome, exact>>
    BY <1>1, <1>7 DEF StreamNext
  <2>2. cur' \in 1 .. 4 /\ Len(args) <= cur' - 1
    BY <1>1, <2>1
  <2> QED
    BY <1>1, <1>4, <2>1, <2>2
<1>8. CASE StreamLast
  <2>1. /\ cur \notin Arguments /\ out' = RawMessage(args, TRUE) /\ args # <<>>
        /\ state' = "completed" /\ args' = <<>>
        /\ UNCHANGED <<cur, read, length, wire, streams, outcome, exact>>
    BY <1>8 DEF StreamLast
  <2>2. out' \in Frames \cup {NoMessage}
    BY <1>2, <2>1
  <2>3. args' \in Seq(Pieces) /\ Len(args') = 0 /\ cur = 4 /\ read = 0
    BY <1>1, <2>1
  <2>4. Len(args') <= 3 /\ read' = 0 /\ Len(args') <= cur' - 1 /\ cur' \in 1 .. 4
    BY <2>1, <2>3
  <2>5. Types
    BY <1>1, <2>1, <2>2, <2>3, <2>4
  <2>6. Collects
    BY <2>4
  <2> QED
    BY <1>4, <2>1, <2>5, <2>6
<1>9. CASE SendFragment
  <2> DEFINE s == Split(out.args, Space(out.first))
             f == [args |-> s.kept, first |-> out.first, last |-> out.last /\ ~(s.rest # <<>>)]
  <2>1. /\ out # NoMessage /\ wire' = Append(wire, f)
        /\ out' = IF s.rest # <<>> THEN [args |-> s.rest, first |-> FALSE, last |-> out.last]
                  ELSE NoMessage
        /\ exact' = (exact \/ s.exact)
        /\ UNCHANGED <<cur, read, length, args, state, streams, outcome>>
    BY <1>9 DEF SendFragment
  <2>2. /\ s.exact \in BOOLEAN /\ out.last \in BOOLEAN
        /\ Used(s.kept) <= Space(out.first)
        /\ \A b \in BOOLEAN : [args |-> s.kept, first |-> out.first, last |-> b] \in Frames
        /\ s.rest # <<>> =>
             [args |-> s.rest, first |-> FALSE, last |-> out.last] \in Frames
    BY <2>1, SentFrame DEF Frames
  <2>3. f \in Frames /\ f.args = s.kept /\ f.first = out.first
    BY <2>2
  <2> HIDE DEF f, s
  <2>4. wire' \in Seq(Frames) /\ Len(wire') = Len(wire) + 1 /\ wire'[Len(wire) + 1] = f
        /\ \A k \in 1 .. Len(wire) : wire'[k] = wire[k]
    BY <1>1, <2>1, <2>3
  <2>5. out' \in Frames \cup {NoMessage}
    BY <2>1, <2>2
  <2>6. FramesFit'
    <3> SUFFICES ASSUME NEW k \in 1 .. Len(wire) + 1
                 PROVE  Used(wire'[k].args) <= Space(wire'[k].first)
      BY <2>4 DEF FramesFit
    <3>1. CASE k = Len(wire) + 1
      BY <2>2, <2>3, <2>4, <3>1
    <3>2. CASE k # Len(wire) + 1
      <4>1. k \in 1 .. Len(wire)
        BY <1>1, <3>2
      <4> QED
        BY <1>1, <2>4, <4>1, SMTT(30) DEF FragBase, FramesFit
    <3> QED
      BY <3>1, <3>2
  <2> QED
    BY <1>1, <2>1, <2>2, <2>4, <2>5, <2>6
<1>10. CASE Build
  <2> DEFINE f == Head(wire)
             dst == IF f.first THEN 1 ELSE Incomplete
  <2>1. /\ wire # <<>> /\ wire' = Tail(wire)
        /\ UNCHANGED <<cur, read, length, args, state, out, exact>>
    BY <1>10 DEF Build
  <2>2. f \in Frames /\ wire' \in Seq(Frames) /\ Len(wire') = Len(wire) - 1
        /\ \A k \in 1 .. Len(wire) - 1 : wire'[k] = wire[k + 1]
    BY <1>1, <2>1
  <2>3. dst \in Arguments
    BY <1>1, IncompleteFirst
  <2>4. streams' \in Streams /\ outcome' \in {"ok", "IndexError", "UnexpectedError"}
    <3>1. Written(f, dst) \in Streams
          /\ \A e : Close(Written(f, dst), e, f) \in Streams
      BY <1>1, <2>2, <2>3, WrittenType
    <3>2. \/ outcome' = "UnexpectedError" /\ UNCHANGED streams
          \/ outcome' = "IndexError" /\ streams' = Written(f, dst)
          \/ /\ UNCHANGED outcome
             /\ streams' = Close(Written(f, dst), dst + Len(f.args) - 1, f)
      BY <1>10 DEF Build
    <3> HIDE DEF f, dst
    <3> QED
      BY <1>1, <3>1, <3>2
  <2>5. FramesFit'
    <3> SUFFICES ASSUME NEW k \in 1 .. Len(wire) - 1
                 PROVE  Used(wire'[k].args) <= Space(wire'[k].first)
      BY <2>2 DEF FramesFit
    <3>1. k + 1 \in 1 .. Len(wire) /\ wire'[k] = wire[k + 1]
      BY <1>1, <2>2
    <3> QED
      BY <1>1, <3>1 DEF FragBase, FramesFit
  <2> HIDE DEF f, dst
  <2> QED
    BY <1>1, <2>1, <2>2, <2>4, <2>5
<1> QED
  BY <1>5, <1>6, <1>7, <1>8, <1>9, <1>10 DEF FragNext


-----------------------------------------------------------------------------
(* The flow, as long as no argument ends exactly at the boundary.          *)

\* A run that ends with an argument goes on with the next one.
LEMMA RunAppend ==
  ASSUME NEW P \in Seq(Pieces), P # <<>>, NEW q \in Pieces,
         NEW len \in [Arguments -> Nat], NEW c \in Nat, NEW t,
         Run(P, len, c), StartsAt(P, t),
         End(P).a < c, End(P).to = len[End(P).a],
         q.a = End(P).a + 1, q.from = 0, q.to <= len[q.a]
  PROVE  Run(Append(P, q), len, c) /\ StartsAt(Append(P, q), t)
         /\ End(Append(P, q)) = Place(q)
<1> DEFINE A == Append(P, q)
           n == Len(P)
<1>1. /\ A \in Seq(Pieces) /\ Len(A) = n + 1 /\ A[n + 1] = q /\ n \in Nat /\ n >= 1
      /\ \A i \in 1 .. n : A[i] = P[i]
  OBVIOUS
<1>2. End(P).a = P[n].a /\ End(P).to = P[n].to
  BY DEF End, Place
<1> HIDE DEF A, n
<1>3. A[1] = P[1] /\ n \in 1 .. n
  BY <1>1
<1>4. P[n].a \in Nat /\ P[n].a = P[1].a + n - 1 /\ P[1].a \in Nat
  <2>1. P[n] \in Pieces /\ P[1] \in Pieces
    BY <1>1 DEF n
  <2>2. P[n].a = P[1].a + n - 1
    BY <1>3 DEF Run, n
  <2> QED
    BY <2>1, <2>2, SMTT(30) DEF Pieces, Arguments, max_args_num
<1>5. ASSUME NEW i \in 1 .. n + 1
      PROVE  /\ A[i].a = A[1].a + i - 1
             /\ i > 1 => A[i].from = 0
             /\ A[i].to <= len[A[i].a]
             /\ i < n + 1 => A[i].a < c /\ A[i].to = len[A[i].a]
  <2>1. CASE i = n + 1
    <3>1. P[n].a + 1 = P[1].a + i - 1
      BY <1>1, <1>4, <2>1
    <3>2. A[i] = q /\ ~(i < n + 1)
      BY <1>1, <2>1
    <3> QED
      BY <1>2, <1>3, <3>1, <3>2
  <2>2. CASE i # n + 1
    <3>1. i \in 1 .. n /\ A[i] = P[i]
      BY <1>1, <2>2
    <3>2. /\ P[i].a = P[1].a + i - 1
          /\ i > 1 => P[i].from = 0
          /\ P[i].to <= len[P[i].a]
          /\ i < n => P[i].a < c /\ P[i].to = len[P[i].a]
      BY <3>1 DEF Run, n
    <3>3. i = n \/ i < n
      BY <1>1, <3>1
    <3> QED
      BY <1>2, <1>3, <3>1, <3>2, <3>3
  <2> QED
    BY <2>1, <2>2
<1>6. Run(A, len, c)
  BY <1>1, <1>5 DEF Run
<1>7. StartsAt(A, t) /\ End(A) = Place(q)
  BY <1>1, <1>3 DEF StartsAt, End
<1> QED
  BY <1>6, <1>7 DEF A

\* A single piece.
LEMMA RunOne ==
  ASSUME NEW p \in Pieces, NEW len \in [Arguments -> Nat], NEW c, p.to <= len[p.a]
  PROVE  Run(<<p>>, len, c) /\ End(<<p>>) = Place(p) /\ <<p>>[1] = p
<1>1. Len(<<p>>) = 1 /\ <<p>>[1] = p
  OBVIOUS
<1>2. p.a \in Nat
  BY DEF Pieces, Arguments, max_args_num
<1> DEFINE A == <<p>>
<1> HIDE DEF A
<1>3. Len(A) = 1 /\ A[1] = p
  BY <1>1 DEF A
<1>4. \A i \in 1 .. Len(A) : i = 1 /\ ~(i > 1) /\ ~(i < Len(A)) /\ p.a = p.a + i - 1
  BY <1>2, <1>3
<1>5. Run(A, len, c)
  BY <1>3, <1>4 DEF Run
<1> QED
  BY <1>3, <1>5 DEF A, End

\* The receiver waits for argument d.
Ready(d) ==
  /\ FragBase /\ outcome = "ok" /\ Flags
  /\ state = "completed" /\ out = NoMessage => wire # <<>>
  /\ Flow(d, streams, wire, out.args, args, length, cur, read)

\* What FragBase says of the types.
LEMMA BaseTypes ==
  ASSUME FragBase
  PROVE  /\ cur \in 1 .. 4 /\ cur \in Nat /\ read \in Nat /\ length \in [Arguments -> Nat]
         /\ args \in Seq(Pieces) /\ out.args \in Seq(Pieces)
         /\ out # NoMessage => out \in Frames /\ out.args # <<>>
         /\ out = NoMessage => out.args = <<>>
         /\ wire \in Seq(Frames) /\ streams \in Streams
         /\ Arguments = 1 .. 3
<1>1. /\ cur \in 1 .. 4 /\ read \in Nat /\ length \in [Arguments -> Nat]
      /\ args \in Seq(Pieces) /\ out \in Frames \cup {NoMessage}
      /\ wire \in Seq(Frames) /\ streams \in Streams
  BY DEF FragBase, FragTypeOK, Streams, max_args_num
<1>2. out \in Frames => out.args \in Seq(Pieces) /\ out.args # <<>>
  BY DEF Frames
<1>3. out = NoMessage => out.args = <<>> /\ out.args \in Seq(Pieces)
  BY DEF NoMessage
<1> QED
  BY <1>1, <1>2, <1>3 DEF Arguments, max_args_num

\* The chunk that is read next.
LEMMA ReadTypes ==
  ASSUME FragBase, cur \in Arguments, NEW n \in Nat,
         NEW len2, len2 = [length EXCEPT ![cur] = length[cur] + n]
  PROVE  /\ ReadChunk(n) \in Pieces /\ ReadChunk(n).a = cur
         /\ ReadChunk(n).from = length[cur] /\ ReadChunk(n).to = len2[cur]
         /\ len2 \in [Arguments -> Nat] /\ Grows(length, cur, len2, cur)
         /\ \A a \in Arguments : a # cur => len2[a] = length[a]
<1>1. length \in [Arguments -> Nat] /\ cur \in Nat
  BY BaseTypes
<1>2. /\ len2 \in [Arguments -> Nat] /\ len2[cur] = length[cur] + n
      /\ \A a \in Arguments : a # cur => len2[a] = length[a]
  BY <1>1
<1>3. Grows(length, cur, len2, cur)
  <2> SUFFICES ASSUME NEW a \in Arguments
               PROVE  length[a] <= len2[a] /\ (a < cur => len2[a] = length[a])
    BY <1>1 DEF Grows
  <2>1. length[a] \in Nat /\ a \in Nat
    BY <1>1 DEF Arguments, max_args_num
  <2>2. CASE a = cur
    BY <1>1, <1>2, <2>1, <2>2
  <2>3. CASE a # cur
    BY <1>1, <1>2, <2>1, <2>3
  <2> QED
    BY <2>2, <2>3
<1>4. ReadChunk(n) \in Pieces /\ ReadChunk(n).a = cur /\ ReadChunk(n).from = length[cur]
      /\ ReadChunk(n).to = length[cur] + n
  BY <1>1 DEF ReadChunk, Piece, Pieces
<1> QED
  BY <1>2, <1>3, <1>4


LEMMA FlowStreamFirst ==
  ASSUME NEW d \in Arguments, Ready(d), NEW n \in Nat, StreamFirst(n)
  PROVE  Flowing'
<1> DEFINE q == ReadChunk(n)
           t0 == ReceiverAt(streams, d)
           t1 == WireTip(wire, t0)
<1>1. /\ out = NoMessage /\ cur \in Arguments /\ read = 0 /\ args' = Append(args, q)
      /\ length' = [length EXCEPT ![cur] = length[cur] + n] /\ read' = 1
      /\ cur' = cur /\ state' = state /\ out' = out /\ wire' = wire
      /\ streams' = streams /\ outcome' = outcome
  BY DEF StreamFirst
<1>2. FragBase /\ Flags /\ outcome = "ok"
  BY DEF Ready
<1>3. /\ cur \in 1 .. 4 /\ cur \in Nat /\ length \in [Arguments -> Nat]
      /\ args \in Seq(Pieces) /\ out.args = <<>>
      /\ wire \in Seq(Frames) /\ streams \in Streams /\ Arguments = 1 .. 3
  BY <1>1, <1>2, BaseTypes
<1>4. /\ q \in Pieces /\ q.a = cur /\ q.from = length[cur] /\ q.to = length'[cur]
      /\ length' \in [Arguments -> Nat] /\ Grows(length, cur, length', cur)
      /\ \A a \in Arguments : a # cur => length'[a] = length[a]
  BY <1>1, <1>2, ReadTypes
<1> HIDE DEF q
<1>5. /\ Receiving(streams, d, length, cur) /\ WirePart(wire, t0, length, cur)
      /\ Part(args, t1, length, cur) /\ SenderAt(Tip(args, t1), length, cur, 0)
  BY <1>1, <1>3 DEF Ready, Flow, Tip
<1>6. Receiving(streams, d, length', cur)
  BY <1>3, <1>4, <1>5, ReceivingGrows DEF Streams
<1>7. WirePart(wire, t0, length', cur)
  BY <1>3, <1>4, <1>5, WireGrows
<1>8. q.from = 0
  BY <1>1, <1>2, <1>3, <1>4 DEF Flags
<1>9. /\ Run(args', length', cur) /\ StartsAt(args', t1) /\ End(args') = Place(q)
      /\ args' # <<>> /\ args'[1] = IF args = <<>> THEN q ELSE args[1]
  <2>1. args' # <<>> /\ args'[1] = IF args = <<>> THEN q ELSE args[1]
    BY <1>1, <1>3, <1>4, SMTT(30)
  <2>2. q.to <= length'[q.a]
    <3>1. length'[cur] \in Nat
      BY <1>1, <1>4
    <3>2. \A i \in Nat : i <= i
      OBVIOUS
    <3> QED
      BY <1>4, <3>1, <3>2
  <2>3. CASE args = <<>>
    <3>1. cur = 1 /\ wire = <<>>
      <4>1. state # "completed"
        BY <1>1, <1>2, <1>3 DEF Flags, max_args_num
      <4> QED
        BY <1>2, <2>3, <4>1 DEF Flags
    <3>2. t1.a = 1 /\ t1.to = length[1]
      BY <1>5, <2>3, <3>1 DEF SenderAt, Tip
    <3>3. args' = <<q>>
      BY <1>1, <1>4, <2>3
    <3>4. Run(<<q>>, length', cur) /\ End(<<q>>) = Place(q) /\ <<q>>[1] = q
      BY <1>4, <2>2, RunOne
    <3>5. StartsAt(args', t1)
      BY <1>4, <3>1, <3>2, <3>3, <3>4 DEF StartsAt
    <3> QED
      BY <2>1, <3>3, <3>4, <3>5
  <2>4. CASE args # <<>>
    <3>1. cur > 1
      <4>1. Len(args) <= cur - 1
        BY <1>1, <1>2 DEF FragBase, Collecting
      <4>2. Len(args) \in Nat /\ Len(args) # 0
        BY <1>3, <2>4
      <4> QED
        BY <1>3, <4>1, <4>2
    <3>2. End(args).a = cur - 1 /\ End(args).to = length[cur - 1]
      BY <1>5, <2>4, <3>1 DEF SenderAt, Tip
    <3>3. cur - 1 \in Arguments /\ cur - 1 # cur /\ cur - 1 < cur /\ cur = cur - 1 + 1
      BY <1>1, <1>3, <3>1
    <3>4. Run(args, length', cur) /\ StartsAt(args, t1)
      BY <1>3, <1>4, <1>5, <2>4, RunGrows DEF Part
    <3>5. End(args).a < cur /\ End(args).to = length'[End(args).a] /\ q.a = End(args).a + 1
      BY <1>4, <3>2, <3>3
    <3> HIDE DEF t1
    <3>6. Run(Append(args, q), length', cur) /\ StartsAt(Append(args, q), t1)
          /\ End(Append(args, q)) = Place(q)
      BY <1>3, <1>4, <1>8, <2>2, <2>4, <3>4, <3>5, RunAppend
    <3> QED
      BY <1>1, <2>1, <3>6
  <2> QED
    BY <2>3, <2>4
<1>10. Flow(d, streams, wire, out.args, args', length', cur, 1)
  <2>1. Part(args', t1, length', cur) /\ Tip(args', t1) = Place(q)
    BY <1>9 DEF Part, Tip
  <2>2. SenderAt(Place(q), length', cur, 1)
    BY <1>4 DEF SenderAt, Place
  <2> QED
    BY <1>3, <1>6, <1>7, <2>1, <2>2 DEF Flow, Part, Tip
<1>11. Flags'
  <2>1. \A a \in Arguments : a > cur => length'[a] = 0
    <3> SUFFICES ASSUME NEW a \in Arguments, a > cur PROVE length'[a] = 0
      OBVIOUS
    <3>1. a # cur
      BY <1>3
    <3> QED
      BY <1>2, <1>4, <3>1 DEF Flags
  <2>2. state # "completed"
    BY <1>1, <1>2, <1>3 DEF Flags, max_args_num
  <2>3. state = "init" => out = NoMessage /\ wire = <<>> /\ args'[1].a = 1
    <3>1. CASE args = <<>>
      BY <1>2, <1>4, <1>9, <2>2, <3>1 DEF Flags
    <3>2. CASE args # <<>>
      BY <1>2, <1>9, <3>2 DEF Flags
    <3> QED
      BY <3>1, <3>2
  <2>4. \A k \in 1 .. Len(wire) : /\ wire[k].first => wire[k].args[1].a = 1
                                  /\ wire[k].last <=> state = "completed" /\ k = Len(wire) /\ out = NoMessage
    BY <1>2 DEF Flags
  <2> QED
    BY <1>1, <1>9, <2>1, <2>2, <2>3, <2>4 DEF Flags
<1>12. ~(state' = "completed" /\ out' = NoMessage /\ wire' = <<>>)
  BY <1>1, <1>2, <1>3 DEF Flags, max_args_num
<1> QED
  BY <1>1, <1>2, <1>10, <1>11, <1>12 DEF Flowing

LEMMA FlowStreamMore ==
  ASSUME NEW d \in Arguments, Ready(d), NEW n \in Nat, StreamMore(n)
  PROVE  Flowing'
<1> DEFINE q == ReadChunk(n)
           t0 == ReceiverAt(streams, d)
           t1 == WireTip(wire, t0)
<1>1. /\ out = NoMessage /\ cur \in Arguments /\ read # 0 /\ read \in Nat /\ args' = <<q>>
      /\ length' = [length EXCEPT ![cur] = length[cur] + n] /\ read' = read + 1
      /\ out' = RawMessage(args, FALSE) /\ state' = "streaming"
      /\ cur' = cur /\ wire' = wire /\ streams' = streams /\ outcome' = outcome
  BY BaseTypes DEF StreamMore, Collected, Ready
<1>2. FragBase /\ Flags /\ outcome = "ok"
  BY DEF Ready
<1>3. /\ cur \in 1 .. 4 /\ cur \in Nat /\ length \in [Arguments -> Nat]
      /\ args \in Seq(Pieces) /\ out.args = <<>>
      /\ wire \in Seq(Frames) /\ streams \in Streams /\ Arguments = 1 .. 3
  BY <1>1, <1>2, BaseTypes
<1>4. /\ q \in Pieces /\ q.a = cur /\ q.from = length[cur] /\ q.to = length'[cur]
      /\ length' \in [Arguments -> Nat] /\ Grows(length, cur, length', cur)
      /\ \A a \in Arguments : a # cur => length'[a] = length[a]
  BY <1>1, <1>2, ReadTypes
<1> HIDE DEF q
<1>5. /\ Receiving(streams, d, length, cur) /\ WirePart(wire, t0, length, cur)
      /\ Part(args, t1, length, cur) /\ SenderAt(Tip(args, t1), length, cur, read)
      /\ args # <<>>
  BY <1>1, <1>2, <1>3 DEF Ready, Flow, Tip, FragBase, Collecting
<1>6. Receiving(streams, d, length', cur)
  BY <1>3, <1>4, <1>5, ReceivingGrows DEF Streams
<1>7. WirePart(wire, t0, length', cur)
  BY <1>3, <1>4, <1>5, WireGrows
<1>8. Part(args, t1, length', cur)
  BY <1>3, <1>4, <1>5, PartGrows
<1>9. /\ out'.args = args /\ out'.first = (state = "init") /\ out'.last = FALSE
      /\ out' # NoMessage
  BY <1>1, <1>5 DEF RawMessage, NoMessage
<1>10. Flow(d, streams, wire, out'.args, args', length', cur, read + 1)
  <2>1. End(args).a = cur /\ End(args).to = length[cur] /\ Tip(args, t1) = End(args)
    BY <1>1, <1>5 DEF SenderAt, Tip
  <2>2. q.to <= length'[q.a]
    <3>1. length'[cur] \in Nat
      BY <1>1, <1>4
    <3>2. \A i \in Nat : i <= i
      OBVIOUS
    <3> QED
      BY <1>4, <3>1, <3>2
  <2>3. Run(<<q>>, length', cur) /\ End(<<q>>) = Place(q) /\ <<q>>[1] = q
    BY <1>4, <2>2, RunOne
  <2>4. Part(args', End(args), length', cur) /\ Tip(args', End(args)) = Place(q)
    BY <1>1, <1>4, <2>1, <2>3 DEF Part, Tip, StartsAt
  <2>5. SenderAt(Place(q), length', cur, read + 1)
    BY <1>1, <1>4 DEF SenderAt, Place
  <2> QED
    BY <1>6, <1>7, <1>8, <1>9, <2>1, <2>4, <2>5 DEF Flow
<1>11. Flags'
  <2>1. \A a \in Arguments : a > cur => length'[a] = 0
    <3> SUFFICES ASSUME NEW a \in Arguments, a > cur PROVE length'[a] = 0
      OBVIOUS
    <3>1. a # cur
      BY <1>3
    <3> QED
      BY <1>2, <1>4, <3>1 DEF Flags
  <2>2. state # "completed"
    BY <1>1, <1>2, <1>3 DEF Flags, max_args_num
  <2>3. out'.first => out'.args[1].a = 1
    BY <1>2, <1>5, <1>9 DEF Flags
  <2>4. \A k \in 1 .. Len(wire) : (wire[k].first => wire[k].args[1].a = 1) /\ ~wire[k].last
    BY <1>2, <2>2 DEF Flags
  <2>5. read' # 0 /\ args' # <<>>
    BY <1>1
  <2> QED
    BY <1>1, <1>9, <2>1, <2>3, <2>4, <2>5 DEF Flags
<1> QED
  BY <1>1, <1>2, <1>10, <1>11 DEF Flowing

LEMMA FlowStreamNext ==
  ASSUME NEW d \in Arguments, Ready(d), StreamNext
  PROVE  Flowing'
<1> DEFINE t0 == ReceiverAt(streams, d)
           t1 == WireTip(wire, t0)
<1>1. /\ out = NoMessage /\ cur \in Arguments /\ read # 0 /\ cur' = cur + 1 /\ read' = 0
      /\ args' = args /\ length' = length /\ out' = out /\ state' = state
      /\ wire' = wire /\ streams' = streams /\ outcome' = outcome
  BY BaseTypes DEF StreamNext, Ready
<1>2. FragBase /\ Flags /\ outcome = "ok"
  BY DEF Ready
<1>3. /\ cur \in 1 .. 4 /\ cur \in Nat /\ cur + 1 \in Nat /\ length \in [Arguments -> Nat]
      /\ args \in Seq(Pieces) /\ out.args = <<>>
      /\ wire \in Seq(Frames) /\ streams \in Streams /\ Arguments = 1 .. 3
  BY <1>1, <1>2, BaseTypes
<1>4. Grows(length, cur, length, cur + 1)
  BY <1>3 DEF Grows
<1>5. /\ Receiving(streams, d, length, cur) /\ WirePart(wire, t0, length, cur)
      /\ Part(args, t1, length, cur) /\ SenderAt(Tip(args, t1), length, cur, read)
      /\ args # <<>>
  BY <1>1, <1>2, <1>3 DEF Ready, Flow, Tip, FragBase, Collecting
<1>6. Receiving(streams, d, length, cur + 1)
  BY <1>3, <1>4, <1>5, ReceivingGrows DEF Streams
<1>7. WirePart(wire, t0, length, cur + 1)
  BY <1>3, <1>4, <1>5, WireGrows
<1>8. Part(args, t1, length, cur + 1)
  BY <1>3, <1>4, <1>5, PartGrows
<1>9. SenderAt(Tip(args, t1), length, cur + 1, 0)
  <2>1. cur + 1 > 1 /\ cur + 1 - 1 = cur
    BY <1>3
  <2> DEFINE t == Tip(args, t1)
  <2>2. t.a = cur /\ t.to = length[t.a]
    BY <1>1, <1>5 DEF SenderAt
  <2> HIDE DEF t
  <2> DEFINE c == cur + 1
  <2>3. c > 1 /\ c - 1 = cur
    BY <1>3
  <2> HIDE DEF c
  <2>4. SenderAt(t, length, c, 0)
    BY <2>2, <2>3 DEF SenderAt
  <2> QED
    BY <2>4 DEF t, c
<1>10. Flow(d, streams, wire, out.args, args, length, cur + 1, 0)
  BY <1>3, <1>6, <1>7, <1>8, <1>9 DEF Flow, Part, Tip
<1>11. Flags'
  <2>1. \A a \in Arguments : (a >= cur + 1 => length[a] = 0) /\ (a > cur + 1 => length[a] = 0)
    <3> SUFFICES ASSUME NEW a \in Arguments, a >= cur + 1 \/ a > cur + 1 PROVE length[a] = 0
      OBVIOUS
    <3>1. a > cur
      BY <1>3
    <3> QED
      BY <1>2, <3>1 DEF Flags
  <2>2. state # "completed"
    BY <1>1, <1>2, <1>3 DEF Flags, max_args_num
  <2>3. state = "init" => out = NoMessage /\ wire = <<>> /\ (args # <<>> => args[1].a = 1)
    BY <1>2 DEF Flags
  <2>4. \A k \in 1 .. Len(wire) : (wire[k].first => wire[k].args[1].a = 1) /\ ~wire[k].last
    BY <1>2, <2>2 DEF Flags
  <2> QED
    BY <1>1, <1>5, <2>1, <2>2, <2>3, <2>4 DEF Flags
<1>12. state # "completed"
  BY <1>1, <1>2, <1>3 DEF Flags, max_args_num
<1> QED
  BY <1>1, <1>2, <1>10, <1>11, <1>12 DEF Flowing

LEMMA FlowStreamLast ==
  ASSUME NEW d \in Arguments, Ready(d), StreamLast
  PROVE  Flowing'
<1> DEFINE t0 == ReceiverAt(streams, d)
           t1 == WireTip(wire, t0)
<1>1. /\ out = NoMessage /\ cur \notin Arguments /\ args # <<>> /\ out' = RawMessage(args, TRUE)
      /\ args' = <<>> /\ state' = "completed" /\ cur' = cur /\ read' = read
      /\ length' = length /\ wire' = wire /\ streams' = streams /\ outcome' = outcome
  BY DEF StreamLast
<1>2. FragBase /\ Flags /\ outcome = "ok"
  BY DEF Ready
<1>3. cur \in 1 .. 4 /\ read \in Nat /\ out.args = <<>> /\ Arguments = 1 .. 3 /\ cur = 4
  BY <1>1, <1>2, BaseTypes
<1>4. /\ Receiving(streams, d, length, cur) /\ WirePart(wire, t0, length, cur)
      /\ Part(args, t1, length, cur) /\ SenderAt(Tip(args, t1), length, cur, read)
  BY <1>3 DEF Ready, Flow, Tip
<1>5. /\ out'.args = args /\ out'.first = (state = "init") /\ out'.last = TRUE
      /\ out' # NoMessage
  BY <1>1 DEF RawMessage, NoMessage
<1>6. Flow(d, streams, wire, out'.args, <<>>, length, cur, read)
  BY <1>4, <1>5 DEF Flow, Part, Tip
<1>7. Flags'
  <2>1. state # "completed" /\ read = 0
    BY <1>1, <1>2, <1>3 DEF Flags, FragBase, Collecting, max_args_num
  <2>2. out'.first => out'.args[1].a = 1
    BY <1>1, <1>2, <1>5 DEF Flags
  <2>3. \A k \in 1 .. Len(wire) : (wire[k].first => wire[k].args[1].a = 1) /\ ~wire[k].last
    BY <1>2, <2>1 DEF Flags
  <2>4. /\ read = 0 => \A a \in Arguments : a >= cur => length[a] = 0
        /\ \A a \in Arguments : a > cur => length[a] = 0
    BY <1>2 DEF Flags
  <2>5. /\ read' = 0 /\ cur' = max_args_num + 1 /\ state' # "init"
        /\ out'.last <=> state' = "completed"
        /\ \A k \in 1 .. Len(wire') : wire'[k].last <=>
             state' = "completed" /\ k = Len(wire') /\ out' = NoMessage
    <3>1. read' = 0 /\ cur' = max_args_num + 1
      BY <1>1, <1>3, <2>1 DEF max_args_num
    <3>2. state' # "init" /\ (out'.last <=> state' = "completed")
      BY <1>1, <1>5
    <3>3. \A k \in 1 .. Len(wire') : wire'[k].last <=>
             state' = "completed" /\ k = Len(wire') /\ out' = NoMessage
      BY <1>1, <1>5, <2>3
    <3> QED
      BY <3>1, <3>2, <3>3
  <2>6. /\ read' = 0 => \A a \in Arguments : a >= cur' => length'[a] = 0
        /\ \A a \in Arguments : a > cur' => length'[a] = 0
        /\ \A k \in 1 .. Len(wire') : wire'[k].first => wire'[k].args[1].a = 1
    BY <1>1, <2>3, <2>4
  <2> QED
    BY <1>1, <2>2, <2>5, <2>6 DEF Flags
<1> QED
  BY <1>1, <1>2, <1>5, <1>6, <1>7 DEF Flowing


LEMMA FlowSendFragment ==
  ASSUME NEW d \in Arguments, Ready(d), SendFragment, ~exact'
  PROVE  Flowing'
<1> DEFINE s == Split(out.args, Space(out.first))
           P == out.args
           f == [args |-> s.kept, first |-> out.first, last |-> out.last /\ ~(s.rest # <<>>)]
           t0 == ReceiverAt(streams, d)
           t1 == WireTip(wire, t0)
           t2 == Tip(P, t1)
<1>1. /\ out # NoMessage /\ wire' = Append(wire, f)
      /\ out' = IF s.rest # <<>> THEN [args |-> s.rest, first |-> FALSE, last |-> out.last]
                ELSE NoMessage
      /\ exact' = (exact \/ s.exact)
      /\ cur' = cur /\ read' = read /\ length' = length /\ args' = args /\ state' = state
      /\ streams' = streams /\ outcome' = outcome
  BY DEF SendFragment
<1>2. FragBase /\ Flags /\ outcome = "ok" /\ ~s.exact
  BY <1>1 DEF Ready
<1>3. /\ cur \in Nat /\ length \in [Arguments -> Nat] /\ wire \in Seq(Frames)
      /\ P \in Seq(Pieces) /\ P # <<>>
  BY <1>1, <1>2, BaseTypes
<1>4. /\ Len(P) \in 1 .. 3 /\ CutOnce(s, P, Len(P))
      /\ s.kept \in Seq(Pieces) /\ s.rest \in Seq(Pieces) /\ Len(s.kept) \in 1 .. 3
      /\ out.last \in BOOLEAN /\ out.first \in BOOLEAN
      /\ \A b \in BOOLEAN : [args |-> s.kept, first |-> out.first, last |-> b] \in Frames
  BY <1>1, <1>2, SentFrame DEF Frames
<1>5. /\ Receiving(streams, d, length, cur) /\ WirePart(wire, t0, length, cur)
      /\ Run(P, length, cur) /\ StartsAt(P, t1) /\ t2 = End(P)
      /\ Part(args, t2, length, cur) /\ SenderAt(Tip(args, t2), length, cur, read)
  BY <1>3 DEF Ready, Flow, Part, Tip
<1>6. /\ f \in Frames /\ f.args = s.kept /\ f.first = out.first
      /\ f.last = (out.last /\ s.rest = <<>>)
  BY <1>4
<1> HIDE DEF s, P, f
<1>7. /\ Run(f.args, length, cur) /\ StartsAt(f.args, t1) /\ f.args[1].a = P[1].a
      /\ Part(out'.args, End(f.args), length, cur) /\ Tip(out'.args, End(f.args)) = t2
  <2>1. CASE s.rest = <<>>
    <3>1. Len(s.kept) = Len(P) /\ \A j \in 1 .. Len(P) : s.kept[j] = P[j]
      BY <1>2, <1>4, <2>1 DEF CutOnce
    <3>2. s.kept = P
      BY <1>3, <1>4, <3>1, SeqEqual
    <3>3. out'.args = <<>>
      BY <1>1, <2>1 DEF NoMessage
    <3> HIDE DEF t1
    <3> QED
      BY <1>5, <1>6, <3>2, <3>3 DEF Part, Tip
  <2>2. CASE s.rest # <<>>
    <3>1. PICK m \in 1 .. Len(P) : \E x \in P[m].from .. P[m].to :
                 CutAt(P, s.kept, s.rest, Len(P), m, x)
      BY <1>2, <1>4, <2>2 DEF CutOnce
    <3>2. PICK x \in P[m].from .. P[m].to : CutAt(P, s.kept, s.rest, Len(P), m, x)
      BY <3>1
    <3> HIDE DEF t1, t2
    <3>3. /\ Run(s.kept, length, cur) /\ StartsAt(s.kept, t1)
          /\ Run(s.rest, length, cur) /\ StartsAt(s.rest, End(s.kept))
          /\ End(s.rest) = End(P)
      BY <1>3, <1>4, <1>5, <3>2, CutRuns
    <3>4. out'.args = s.rest
      BY <1>1, <2>2
    <3>5. s.kept[1].a = P[1].a
      BY <1>5, <3>3 DEF StartsAt
    <3> QED
      BY <1>5, <1>6, <2>2, <3>3, <3>4, <3>5 DEF Part, Tip
  <2> QED
    BY <2>1, <2>2
<1>8. WirePart(wire', t0, length, cur) /\ WireTip(wire', t0) = End(f.args)
  BY <1>1, <1>3, <1>5, <1>6, <1>7, WireAppend
<1>9. Flow(d, streams, wire', out'.args, args, length, cur, read)
  <2> HIDE DEF t0
  <2>1. Part(args, Tip(out'.args, WireTip(wire', t0)), length, cur)
        /\ SenderAt(Tip(args, Tip(out'.args, WireTip(wire', t0))), length, cur, read)
        /\ Part(out'.args, WireTip(wire', t0), length, cur)
    <3> HIDE DEF t2
    <3> QED
      BY <1>5, <1>7, <1>8
  <2> QED
    BY <1>5, <1>8, <2>1 DEF Flow, t0
<1>10. /\ Len(wire') = Len(wire) + 1 /\ wire'[Len(wire) + 1] = f /\ wire' # <<>>
       /\ \A k \in 1 .. Len(wire) : wire'[k] = wire[k]
       /\ Len(wire) \in Nat
  BY <1>1, <1>3, <1>6
<1>11. Flags'
  <2>1. /\ read' = 0 => \A a \in Arguments : a >= cur' => length'[a] = 0
        /\ \A a \in Arguments : a > cur' => length'[a] = 0
        /\ args' = <<>> => \/ cur' = 1 /\ read' = 0 /\ state' = "init"
                           \/ state' = "completed"
        /\ state' # "init"
        /\ state' = "completed" => cur' = max_args_num + 1 /\ read' = 0 /\ args' = <<>>
    BY <1>1, <1>2 DEF Flags
  <2>2. /\ out' # NoMessage => s.rest # <<>> /\ out'.last = out.last /\ ~out'.first
        /\ out' = NoMessage <=> s.rest = <<>>
    BY <1>1 DEF NoMessage
  <2>3. out' # NoMessage => (out'.last <=> state' = "completed")
    BY <1>1, <1>2, <2>2 DEF Flags
  <2>4. \A k \in 1 .. Len(wire') :
          /\ wire'[k].first => wire'[k].args[1].a = 1
          /\ wire'[k].last <=> state' = "completed" /\ k = Len(wire') /\ out' = NoMessage
    <3> SUFFICES ASSUME NEW k \in 1 .. Len(wire) + 1
                 PROVE  /\ wire'[k].first => wire'[k].args[1].a = 1
                        /\ wire'[k].last <=> /\ state' = "completed" /\ k = Len(wire) + 1
                                             /\ out' = NoMessage
      BY <1>10
    <3>1. CASE k = Len(wire) + 1
      <4>1. wire'[k] = f
        BY <1>10, <3>1
      <4>2. out.first => P[1].a = 1
        BY <1>1, <1>2 DEF Flags, P
      <4>3. out.last <=> state = "completed"
        BY <1>1, <1>2 DEF Flags
      <4> QED
        BY <1>1, <1>6, <1>7, <2>2, <3>1, <4>1, <4>2, <4>3
    <3>2. CASE k # Len(wire) + 1
      <4>1. k \in 1 .. Len(wire) /\ wire'[k] = wire[k]
        BY <1>10, <3>2
      <4>2. (wire[k].first => wire[k].args[1].a = 1) /\ ~wire[k].last
        BY <1>1, <1>2, <4>1 DEF Flags
      <4> QED
        BY <3>2, <4>1, <4>2
    <3> QED
      BY <3>1, <3>2
  <2> QED
    BY <2>1, <2>2, <2>3, <2>4 DEF Flags
<1> QED
  BY <1>1, <1>2, <1>9, <1>10, <1>11 DEF Flowing

LEMMA FlowBuild ==
  ASSUME NEW d \in Arguments, Ready(d), Build
  PROVE  Flowing'
<1> DEFINE f == Head(wire)
           dst == IF f.first THEN 1 ELSE Incomplete
           e == d + Len(f.args) - 1
           t0 == ReceiverAt(streams, d)
           t1 == WireTip(wire, t0)
           t2 == Tip(out.args, t1)
<1>1. /\ wire # <<>> /\ wire' = Tail(wire)
      /\ cur' = cur /\ read' = read /\ length' = length /\ args' = args /\ state' = state
      /\ out' = out
      /\ IF streams[dst].completed
         THEN outcome' = "UnexpectedError" /\ UNCHANGED streams
         ELSE IF dst + Len(f.args) - 1 > max_args_num
         THEN outcome' = "IndexError" /\ streams' = Written(f, dst)
         ELSE /\ streams' = Close(Written(f, dst), dst + Len(f.args) - 1, f)
              /\ UNCHANGED outcome
  BY DEF Build
<1>2. FragBase /\ Flags /\ outcome = "ok"
  BY DEF Ready
<1>3. /\ cur \in Nat /\ length \in [Arguments -> Nat] /\ wire \in Seq(Frames)
      /\ streams \in Streams /\ Arguments = 1 .. 3
  BY <1>1, <1>2, BaseTypes
<1>4. /\ Receiving(streams, d, length, cur) /\ WirePart(wire, t0, length, cur)
      /\ Part(out.args, t1, length, cur)
      /\ Part(args, t2, length, cur) /\ SenderAt(Tip(args, t2), length, cur, read)
  BY DEF Ready, Flow
<1>5. /\ Run(f.args, length, cur) /\ StartsAt(f.args, t0) /\ f = wire[1] /\ f \in Frames
      /\ WirePart(wire', End(f.args), length, cur)
      /\ WireTip(wire', End(f.args)) = t1
  <2> HIDE DEF t0
  <2> QED
    BY <1>1, <1>3, <1>4, WireTake
<1>6. /\ Len(wire') = Len(wire) - 1 /\ Len(wire) \in Nat /\ Len(wire) # 0
      /\ wire' \in Seq(Frames)
      /\ \A k \in 1 .. Len(wire) - 1 : wire'[k] = wire[k + 1]
  BY <1>1, <1>3
<1>7. dst = d
  <2>1. CASE f.first
    <3>1. 1 \in 1 .. Len(wire)
      BY <1>6
    <3>2. f.args[1].a = 1
      BY <1>2, <1>5, <2>1, <3>1 DEF Flags
    <3> QED
      BY <1>5, <2>1, <3>2 DEF StartsAt, ReceiverAt
  <2>2. CASE ~f.first
    BY <1>3, <1>4, <2>2, IncompleteFirst DEF Receiving
  <2> QED
    BY <2>1, <2>2
<1>8. Written(f, d) = WrittenTo(streams, f, d)
  BY DEF Written, WrittenTo
<1> DEFINE y == Close(Written(f, d), e, f)
<1>9. /\ e \in Arguments /\ End(f.args).a = e
      /\ y \in Streams
      /\ ~f.last => Receiving(y, e, length, cur) /\ ReceiverAt(y, e) = End(f.args)
      /\ f.last /\ e = 3 /\ End(f.args).to = length[3] =>
           \A a \in Arguments : /\ Consecutive(y[a].chunks, a) /\ y[a].completed
                                /\ Received(y[a].chunks) = length[a]
  <2> DEFINE z == Written(f, d)
  <2>1. e = d + Len(f.args) - 1
    OBVIOUS
  <2> HIDE DEF f, z, e, t0
  <2>2. z = WrittenTo(streams, f, d)
    BY <1>8 DEF z
  <2>3. StartsAt(f.args, ReceiverAt(streams, d))
    BY <1>5 DEF t0
  <2>4. y = Close(z, e, f)
    BY DEF z
  <2> HIDE DEF y
  <2>5. /\ length \in [Arguments -> Nat] /\ cur \in Nat /\ streams \in Streams
        /\ f \in Frames /\ Receiving(streams, d, length, cur) /\ Run(f.args, length, cur)
    BY <1>3, <1>4, <1>5
  <2> QED
    BY ONLY d \in Arguments, <2>1, <2>2, <2>3, <2>4, <2>5, TakeFrame
<1>10. streams' = y /\ outcome' = outcome
  <2>1. ~streams[d].completed
    BY <1>3, <1>4 DEF Receiving
  <2>2. ~(e > max_args_num)
    BY <1>3, <1>9 DEF max_args_num
  <2> HIDE DEF dst, f
  <2> QED
    BY <1>1, <1>7, <2>1, <2>2
<1> HIDE DEF y, f, dst
<1>11. Flags'
  <2>1. /\ read' = 0 => \A a \in Arguments : a >= cur' => length'[a] = 0
        /\ \A a \in Arguments : a > cur' => length'[a] = 0
        /\ args' = <<>> => \/ cur' = 1 /\ read' = 0 /\ state' = "init"
                           \/ state' = "completed"
        /\ state' # "init"
        /\ out' # NoMessage /\ out'.first => out'.args[1].a = 1
        /\ state' = "completed" => cur' = max_args_num + 1 /\ read' = 0 /\ args' = <<>>
        /\ out' # NoMessage => (out'.last <=> state' = "completed")
    BY <1>1, <1>2 DEF Flags
  <2>2. \A k \in 1 .. Len(wire') :
          /\ wire'[k].first => wire'[k].args[1].a = 1
          /\ wire'[k].last <=> state' = "completed" /\ k = Len(wire') /\ out' = NoMessage
    <3> SUFFICES ASSUME NEW k \in 1 .. Len(wire')
                 PROVE  /\ wire'[k].first => wire'[k].args[1].a = 1
                        /\ wire'[k].last <=> state' = "completed" /\ k = Len(wire') /\ out' = NoMessage
      OBVIOUS
    <3>1. /\ k + 1 \in 1 .. Len(wire) /\ wire'[k] = wire[k + 1]
          /\ k + 1 = Len(wire) <=> k = Len(wire')
      BY <1>6
    <3>2. /\ wire[k + 1].first => wire[k + 1].args[1].a = 1
          /\ wire[k + 1].last <=> state = "completed" /\ k + 1 = Len(wire) /\ out = NoMessage
      BY <1>2, <3>1 DEF Flags
    <3> QED
      BY <1>1, <3>1, <3>2
  <2> QED
    BY <2>1, <2>2 DEF Flags
<1>12. f.last <=> state = "completed" /\ 1 = Len(wire) /\ out = NoMessage
  <2>1. 1 \in 1 .. Len(wire)
    BY <1>6
  <2> QED
    BY <1>2, <1>5, <2>1 DEF Flags
<1>13. CASE ~f.last
  <2>1. Flow(e, y, wire', out.args, args, length, cur, read)
    <3> HIDE DEF t0, t1, e
    <3>1. ReceiverAt(y, e) = End(f.args)
      BY <1>9, <1>13
    <3>2. Receiving(y, e, length, cur)
      BY <1>9, <1>13
    <3> QED
      BY <1>4, <1>5, <3>1, <3>2 DEF Flow, t2
  <2>2. state = "completed" /\ out = NoMessage => wire' # <<>>
    BY <1>6, <1>12, <1>13
  <2> QED
    BY <1>1, <1>2, <1>9, <1>10, <1>11, <2>1, <2>2 DEF Flowing
<1>14. CASE f.last
  <2>1. state = "completed" /\ Len(wire) = 1 /\ out = NoMessage
    BY <1>12, <1>14
  <2>2. args = <<>> /\ cur = 4 /\ read = 0 /\ out.args = <<>>
    BY <1>2, <2>1 DEF Flags, max_args_num, NoMessage
  <2>3. wire' = <<>>
    BY <1>6, <2>1
  <2>4. t1 = End(f.args)
    BY <1>5, <2>3 DEF WireTip
  <2>5. End(f.args).a = 3 /\ End(f.args).to = length[3]
    <3> HIDE DEF t1
    <3>1. Tip(args, t2) = End(f.args)
      BY <2>2, <2>4 DEF Tip
    <3>2. SenderAt(End(f.args), length, 4, 0)
      BY <1>4, <2>2, <3>1
    <3> QED
      BY <3>2 DEF SenderAt
  <2>6. \A a \in Arguments : /\ Consecutive(y[a].chunks, a) /\ y[a].completed
                             /\ Received(y[a].chunks) = length[a]
    BY <1>9, <1>14, <2>5
  <2>7. Finished'
    BY <1>1, <1>10, <2>1, <2>3, <2>6 DEF Finished
  <2> QED
    BY <1>1, <1>2, <1>10, <1>11, <2>1, <2>7 DEF Flowing
<1> QED
  BY <1>13, <1>14


LEMMA FragInitInv == FragInit => FragInv
<1> SUFFICES ASSUME FragInit PROVE FragInv
  OBVIOUS
<1>1. /\ cur = 1 /\ read = 0 /\ length = [a \in Arguments |-> 0] /\ args = <<>>
      /\ state = "init" /\ out = NoMessage /\ wire = <<>> /\ outcome = "ok" /\ exact = FALSE
      /\ streams = [a \in Arguments |-> [chunks |-> <<>>, completed |-> FALSE]]
      /\ out.args = <<>> /\ Arguments = 1 .. 3
  BY DEF FragInit, NoMessage, Arguments, max_args_num
<1>2. FragTypeOK /\ FramesFit /\ Collecting
  <2>1. <<>> \in Seq(Pieces) /\ <<>> \in Seq(Frames) /\ Len(args) = 0 /\ DOMAIN wire = {}
    BY <1>1
  <2>2. streams \in [Arguments -> [chunks : Seq(Pieces), completed : BOOLEAN]]
    BY <1>1, <2>1
  <2>3. FragTypeOK
    <3>1. cur \in 1 .. max_args_num + 1 /\ read \in Nat /\ length \in [Arguments -> Nat]
      BY <1>1 DEF max_args_num
    <3>2. args \in Seq(Pieces) /\ Len(args) <= max_args_num
      BY <1>1, <2>1 DEF max_args_num
    <3>3. out \in Frames \cup {NoMessage} /\ wire \in Seq(Frames)
      BY <1>1, <2>1
    <3> QED
      BY <1>1, <2>2, <3>1, <3>2, <3>3 DEF FragTypeOK
  <2>4. FramesFit /\ Collecting
    BY <1>1, <2>1 DEF FramesFit, Collecting
  <2> QED
    BY <2>3, <2>4
<1>3. Flags
  <2>1. Len(wire) = 0 /\ 1 .. 0 = {}
    BY <1>1
  <2> QED
    BY <1>1, <2>1 DEF Flags
<1>4. Flow(1, streams, wire, out.args, args, length, cur, read)
  <2>1. \A a \in Arguments : streams[a].chunks = <<>> /\ ~streams[a].completed
    BY <1>1
  <2>2. Receiving(streams, 1, length, cur)
    <3> SUFFICES ASSUME NEW a \in Arguments
                 PROVE  /\ Consecutive(streams[a].chunks, a)
                        /\ Received(streams[a].chunks) <= length[a]
                        /\ streams[a].completed <=> a < 1
                        /\ ~(a < 1)
                        /\ streams[a].chunks = <<>>
      BY DEF Receiving
    <3>1. Len(streams[a].chunks) = 0 /\ length[a] = 0 /\ ~(a < 1)
      BY <1>1, <2>1
    <3>2. Consecutive(streams[a].chunks, a) /\ Received(streams[a].chunks) = 0
      BY <2>1, <3>1 DEF Consecutive, Received
    <3> QED
      BY <2>1, <3>1, <3>2
  <2>3. ReceiverAt(streams, 1).a = 1 /\ ReceiverAt(streams, 1).to = 0
    BY <1>1, <2>1 DEF ReceiverAt, Received
  <2>4. SenderAt(ReceiverAt(streams, 1), length, cur, read)
    BY <1>1, <2>3 DEF SenderAt
  <2>5. Len(wire) = 0
    BY <1>1
  <2> QED
    BY <1>1, <2>2, <2>4, <2>5 DEF Flow, WirePart, WireTip, Part, Tip
<1> QED
  BY <1>1, <1>2, <1>3, <1>4 DEF FragInv, Flowing

LEMMA FragStepInv == FragInv /\ [FragNext]_fragVars => FragInv'
<1> SUFFICES ASSUME FragInv, [FragNext]_fragVars PROVE FragInv'
  OBVIOUS
<1>1. CASE FragNext
  <2>1. FragBase'
    BY <1>1, BaseStep DEF FragInv, FragBase
  <2>2. ASSUME ~exact' PROVE Flowing'
    <3>1. ~exact
      BY <1>1, <2>2 DEF FragNext, StreamFirst, StreamMore, StreamNext, StreamLast,
                        SendFragment, Build
    <3>2. Flowing /\ FragBase
      BY <3>1 DEF FragInv, FragBase
    \* Nothing happens once all is delivered.
    <3>3. ~(state = "completed" /\ Finished)
      <4> SUFFICES ASSUME state = "completed", Finished PROVE FALSE
        OBVIOUS
      <4>1. cur = 4 /\ args = <<>> /\ out = NoMessage /\ wire = <<>>
        BY <3>2 DEF Flowing, Flags, Finished, max_args_num
      <4>2. cur \notin Arguments
        BY <4>1 DEF Arguments, max_args_num
      <4> QED
        BY <1>1, <4>1, <4>2 DEF FragNext, StreamFirst, StreamMore, StreamNext, StreamLast,
                                SendFragment, Build
    <3>4. PICK d \in Arguments : Ready(d)
      BY <3>2, <3>3 DEF Flowing, Ready
    <3>5. ASSUME NEW n \in ChunkSizes \cup {0} PROVE n \in Nat
      BY FragmentationAssumption
    <3>6. CASE \E n \in ChunkSizes \cup {0} : StreamFirst(n)
      BY <3>4, <3>5, <3>6, FlowStreamFirst
    <3>7. CASE \E n \in ChunkSizes : StreamMore(n)
      BY <3>4, <3>5, <3>7, FlowStreamMore
    <3>8. CASE StreamNext
      BY <3>4, <3>8, FlowStreamNext
    <3>9. CASE StreamLast
      BY <3>4, <3>9, FlowStreamLast
    <3>10. CASE SendFragment
      BY <2>2, <3>4, <3>10, FlowSendFragment
    <3>11. CASE Build
      BY <3>4, <3>11, FlowBuild
    <3> QED
      BY <1>1, <3>6, <3>7, <3>8, <3>9, <3>10, <3>11 DEF FragNext
  <2> QED
    BY <2>1, <2>2 DEF FragInv, FragBase
<1>2. CASE UNCHANGED fragVars
  BY <1>2 DEF fragVars, FragInv, FragTypeOK, FramesFit, Collecting, Flowing, Flags, Finished
<1> QED
  BY <1>1, <1>2

\* Every frame that fragment cuts fits, and holds one to three pieces, for arguments of
\* any length, read in chunks of any size, and frames of any size.
THEOREM FramesStaySound == FragSpec => []FramesAreSound
<1>1. FragInv => FramesAreSound
  BY DEF FragInv, FramesAreSound
<1> QED
  BY <1>1, FragInitInv, FragStepInv, PTL DEF FragSpec

\* The pieces of a call arrive in the streams of their arguments, in order and without
\* gap, and all of them do, unless an argument ends key_length bytes before the end of its
\* frame: for arguments, chunks and frames of any size and every interleaving of sender
\* and receiver.
THEOREM ArgumentsAlwaysArrive == FragSpec => []ArgumentsArrive
<1>1. FragInv => ArgumentsArrive
  <2> SUFFICES ASSUME FragInv, ~exact
               PROVE  EachInItsStream /\ (Sent => \A a \in Arguments : streams[a].completed)
    BY DEF ArgumentsArrive, ArriveUnlessExact, AllArriveUnlessExact
  <2>1. Flowing /\ FragBase
    BY DEF FragInv, FragBase
  <2>2. /\ cur \in 1 .. 4 /\ length \in [Arguments -> Nat] /\ streams \in Streams
        /\ Arguments = 1 .. 3
    BY <2>1, BaseTypes
  <2>3. CASE state = "completed" /\ Finished
    <3>1. cur = 4
      BY <2>1, <2>3 DEF Flowing, Flags, max_args_num
    <3>2. ASSUME NEW a \in Arguments
          PROVE  /\ Consecutive(streams[a].chunks, a) /\ streams[a].completed
                 /\ Received(streams[a].chunks) <= length[a]
                 /\ a < cur /\ Received(streams[a].chunks) = length[a]
      <4>1. /\ Consecutive(streams[a].chunks, a) /\ streams[a].completed
            /\ Received(streams[a].chunks) = length[a]
        BY <2>3 DEF Finished
      <4>2. length[a] \in Nat /\ a < cur
        BY <2>2, <3>1
      <4>3. \A i \in Nat : i <= i
        OBVIOUS
      <4> QED
        BY <4>1, <4>2, <4>3
    <3> QED
      BY <2>1, <3>2 DEF EachInItsStream, Flowing
  <2>4. ASSUME NEW d \in Arguments, Ready(d)
        PROVE  EachInItsStream /\ ~Sent
    <3>1. Receiving(streams, d, length, cur) /\ outcome = "ok"
      BY <2>4 DEF Ready, Flow
    <3>2. EachInItsStream
      BY <3>1 DEF EachInItsStream, Receiving
    <3>3. ASSUME Sent PROVE FALSE
      <4>1. cur # 1 /\ args = <<>> /\ out = NoMessage /\ wire = <<>>
        BY <2>2, <3>3 DEF Sent
      <4>2. state = "completed"
        BY <2>4, <4>1 DEF Ready, Flags
      <4> QED
        BY <2>4, <4>1, <4>2 DEF Ready
    <3> QED
      BY <3>2, <3>3
  <2> QED
    BY <2>1, <2>3, <2>4 DEF Flowing, Ready
<1> QED
  BY <1>1, FragInitInv, FragStepInv, PTL DEF FragSpec

-----------------------------------------------------------------------------
(* Frames on the stream: where each of those not yet read begins.          *)

Sequence(s) == \E S : s \in Seq(S)

\* The frames are bytes, and their sizes fit.
Framed(frames) ==
  /\ Sequence(frames)
  /\ \A i \in 1 .. Len(frames) :
       frames[i].body \in Seq(Bytes) /\ size_width + Len(frames[i].body) <= MaxSize

\* The j-th byte of frame i is byte pos[i] + j of the stream, for the frames after the first
\* f, unless it was read, which leaves pos[i] + j < 1, or lost.
Laid(pos, str, frames, f, base) ==
  /\ pos[f + 1] = base
  /\ \A i \in f + 1 .. Len(frames) + 1 : pos[i] \in Int /\ pos[i] <= pos[Len(frames) + 1]
  /\ \A i \in f + 1 .. Len(frames) :
       /\ pos[i + 1] = pos[i] + Len(frames[i].body) + 2
       /\ \A j \in 1 .. Len(frames[i].body) + 2 :
            pos[i] + j \in 1 .. Len(str) => str[pos[i] + j] = Frame(frames[i].body)[j]
  /\ Len(str) <= pos[Len(frames) + 1]

LEMMA SequenceFacts ==
  ASSUME NEW s, Sequence(s)
  PROVE  /\ Len(s) \in Nat /\ DOMAIN s = 1 .. Len(s)
         /\ \A x : /\ Sequence(Append(s, x)) /\ Len(Append(s, x)) = Len(s) + 1
                   /\ Append(s, x)[Len(s) + 1] = x
                   /\ \A i \in 1 .. Len(s) : Append(s, x)[i] = s[i]
         /\ s # <<>> => /\ Sequence(Tail(s)) /\ Len(Tail(s)) = Len(s) - 1 /\ Head(s) = s[1]
                        /\ Len(s) >= 1 /\ \A i \in 1 .. Len(s) - 1 : Tail(s)[i] = s[i + 1]
<1>1. PICK S : s \in Seq(S)
  BY DEF Sequence
<1>2. Len(s) \in Nat /\ DOMAIN s = 1 .. Len(s)
  BY <1>1
<1>3. ASSUME NEW x
      PROVE  /\ Sequence(Append(s, x)) /\ Len(Append(s, x)) = Len(s) + 1
             /\ Append(s, x)[Len(s) + 1] = x
             /\ \A i \in 1 .. Len(s) : Append(s, x)[i] = s[i]
  <2>1. s \in Seq(S \cup {x}) /\ x \in S \cup {x}
    BY <1>1, <1>2, SeqDef
  <2>2. Append(s, x) \in Seq(S \cup {x})
    BY <2>1
  <2>3. /\ Len(Append(s, x)) = Len(s) + 1 /\ Append(s, x)[Len(s) + 1] = x
        /\ \A i \in 1 .. Len(s) : Append(s, x)[i] = s[i]
    BY <2>1
  <2> QED
    BY <2>2, <2>3 DEF Sequence
<1>4. ASSUME s # <<>>
      PROVE  /\ Sequence(Tail(s)) /\ Len(Tail(s)) = Len(s) - 1 /\ Head(s) = s[1]
             /\ Len(s) >= 1 /\ \A i \in 1 .. Len(s) - 1 : Tail(s)[i] = s[i + 1]
  <2>1. Tail(s) \in Seq(S)
    BY <1>1, <1>4
  <2>2. /\ Len(Tail(s)) = Len(s) - 1 /\ Head(s) = s[1]
        /\ Len(s) >= 1 /\ \A i \in 1 .. Len(s) - 1 : Tail(s)[i] = s[i + 1]
    BY <1>1, <1>4
  <2> QED
    BY <2>1, <2>2 DEF Sequence
<1> QED
  BY <1>2, <1>3, <1>4

\* The two bytes of a size, and the size they are read as.
LEMMA SizeBytes ==
  ASSUME NEW n \in Nat, n <= MaxSize
  PROVE  /\ WriteSize(n) \in Seq(Bytes) /\ Len(WriteSize(n)) = 2
         /\ 256 * WriteSize(n)[1] + WriteSize(n)[2] = n
<1> DEFINE a == n \div 256
           b == n % 256
<1>1. a \in Bytes /\ b \in Bytes /\ 256 * a + b = n
  BY DEF Bytes, MaxSize
<1>2. WriteSize(n) = <<a, b>>
  BY DEF WriteSize
<1> HIDE DEF a, b
<1>3. \A x, y \in Bytes : <<x, y>> \in Seq(Bytes) /\ Len(<<x, y>>) = 2 /\ <<x, y>>[1] = x /\ <<x, y>>[2] = y
  OBVIOUS
<1> QED
  BY <1>1, <1>2, <1>3

\* What a concatenation consists of.
Joined(w, u, v, m, k) ==
  /\ w \in Seq(Bytes) /\ Len(w) = m + k
  /\ \A i \in 1 .. m : w[i] = u[i]
  /\ \A j \in 1 .. k : w[m + j] = v[j]

LEMMA ConcatFacts ==
  ASSUME NEW u \in Seq(Bytes), NEW v \in Seq(Bytes)
  PROVE  Joined(u \o v, u, v, Len(u), Len(v))
<1>1. /\ u \o v \in Seq(Bytes) /\ Len(u \o v) = Len(u) + Len(v) /\ Len(u) \in Nat /\ Len(v) \in Nat
      /\ \A i \in 1 .. Len(u) + Len(v) : (u \o v)[i] = IF i <= Len(u) THEN u[i] ELSE v[i - Len(u)]
  BY ConcatProperties
<1>2. \A i \in 1 .. Len(u) : i \in 1 .. Len(u) + Len(v) /\ i <= Len(u)
  BY <1>1
<1>3. \A j \in 1 .. Len(v) : /\ Len(u) + j \in 1 .. Len(u) + Len(v) /\ ~(Len(u) + j <= Len(u))
                             /\ (Len(u) + j) - Len(u) = j
  BY <1>1
<1> QED
  BY <1>1, <1>2, <1>3 DEF Joined

\* The size of a frame and the bytes behind it.
LEMMA FrameFacts ==
  ASSUME NEW body \in Seq(Bytes), size_width + Len(body) <= MaxSize
  PROVE  /\ Frame(body) \in Seq(Bytes) /\ Len(Frame(body)) = Len(body) + 2 /\ Len(body) \in Nat
         /\ 256 * Frame(body)[1] + Frame(body)[2] = Len(body) + 2
         /\ \A j \in 1 .. Len(body) : Frame(body)[j + 2] = body[j]
<1>1. Len(body) \in Nat /\ size_width + Len(body) = Len(body) + 2
  BY DEF size_width
<1>2. PICK w : /\ w = WriteSize(size_width + Len(body)) /\ w \in Seq(Bytes) /\ Len(w) = 2
               /\ 256 * w[1] + w[2] = Len(body) + 2
  BY <1>1, SizeBytes
<1>3. Frame(body) = w \o body
  BY <1>2 DEF Frame
<1>4. Len(w) = 2 /\ w \in Seq(Bytes) /\ 2 \in Nat
  BY <1>2
<1>5. /\ Frame(body) \in Seq(Bytes) /\ Len(Frame(body)) = 2 + Len(body)
      /\ \A i \in 1 .. 2 : Frame(body)[i] = w[i]
      /\ \A j \in 1 .. Len(body) : Frame(body)[2 + j] = body[j]
  <2>1. Joined(Frame(body), w, body, 2, Len(body))
    <3>1. Joined(w \o body, w, body, Len(w), Len(body))
      BY <1>4, ConcatFacts, Zenon
    <3> QED
      BY <1>3, <1>4, <3>1, Zenon
  <2> QED
    BY <2>1 DEF Joined
<1>6. \A j \in 1 .. Len(body) : 2 + j = j + 2
  BY <1>1
<1>7. Len(Frame(body)) = Len(body) + 2 /\ 1 \in 1 .. 2 /\ 2 \in 1 .. 2
  BY <1>1, <1>5
<1> QED
  BY <1>1, <1>2, <1>5, <1>6, <1>7

\* The first n bytes of the stream, and what follows its first d.
LEMMA LaidCut ==
  ASSUME NEW pos, NEW str \in Seq(Bytes), NEW frames, Sequence(frames), NEW f \in 0 .. Len(frames), NEW base \in Int,
         Laid(pos, str, frames, f, base), NEW n \in 0 .. Len(str)
  PROVE  /\ Laid(pos, SubSeq(str, 1, n), frames, f, base)
         /\ SubSeq(str, 1, n) \in Seq(Bytes) /\ Len(SubSeq(str, 1, n)) = n
<1> DEFINE s == SubSeq(str, 1, n)
<1>1. /\ Len(s) = n /\ s \in Seq(Bytes) /\ n \in Nat /\ Len(str) \in Nat /\ n <= Len(str)
      /\ \A i \in 1 .. n : s[i] = str[i]
  OBVIOUS
<1> HIDE DEF s
<1>2. Len(frames) \in Nat
  BY SequenceFacts
<1>3. Len(s) <= pos[Len(frames) + 1]
  <2>1. Len(str) <= pos[Len(frames) + 1] /\ pos[Len(frames) + 1] \in Int
    BY <1>2 DEF Laid
  <2> QED
    BY <1>1, <2>1
<1>4. ASSUME NEW i \in f + 1 .. Len(frames), NEW j \in 1 .. Len(frames[i].body) + 2,
             pos[i] + j \in 1 .. Len(s)
      PROVE  s[pos[i] + j] = Frame(frames[i].body)[j]
  <2>1. pos[i] + j \in 1 .. Len(str)
    BY <1>1, <1>4
  <2> QED
    BY <1>1, <1>4, <2>1 DEF Laid
<1>5. Laid(pos, s, frames, f, base)
  BY <1>3, <1>4 DEF Laid
<1> QED
  BY <1>1, <1>5 DEF s

LEMMA LaidDrop ==
  ASSUME NEW pos, NEW str \in Seq(Bytes), NEW frames, Framed(frames), NEW f \in 0 .. Len(frames), NEW base \in Int,
         Laid(pos, str, frames, f, base), NEW d \in 0 .. Len(str)
  PROVE  \E p : /\ Laid(p, SubSeq(str, d + 1, Len(str)), frames, f, base - d)
                /\ p[Len(frames) + 1] = pos[Len(frames) + 1] - d
                /\ SubSeq(str, d + 1, Len(str)) \in Seq(Bytes)
                /\ Len(SubSeq(str, d + 1, Len(str))) = Len(str) - d
<1> DEFINE s == SubSeq(str, d + 1, Len(str))
           p == [i \in f + 1 .. Len(frames) + 1 |-> pos[i] - d]
<1>1. /\ Len(s) = Len(str) - d /\ s \in Seq(Bytes) /\ d \in Nat /\ Len(str) \in Nat /\ d <= Len(str)
      /\ \A i \in 1 .. Len(str) - d : s[i] = str[d + i]
  <2>1. \A i \in 1 .. Len(str) - d : d + 1 + i - 1 = d + i
    OBVIOUS
  <2> QED
    BY <2>1
<1>2. \A i \in f + 1 .. Len(frames) + 1 : p[i] = pos[i] - d
  OBVIOUS
<1> HIDE DEF s, p
<1>3. Len(frames) \in Nat /\ f + 1 \in f + 1 .. Len(frames) + 1
      /\ Len(frames) + 1 \in f + 1 .. Len(frames) + 1
  BY SequenceFacts DEF Framed
<1>4. \A i \in f + 1 .. Len(frames) + 1 : pos[i] \in Int /\ pos[i] <= pos[Len(frames) + 1]
  BY DEF Laid
<1>5. ASSUME NEW i \in f + 1 .. Len(frames) + 1
      PROVE  p[i] \in Int /\ p[i] <= p[Len(frames) + 1]
  <2>1. \A a, b \in Int : a <= b => a - d \in Int /\ a - d <= b - d
    OBVIOUS
  <2> QED
    BY <1>2, <1>3, <1>4, <2>1
<1>6. p[f + 1] = base - d /\ p[Len(frames) + 1] = pos[Len(frames) + 1] - d
  BY <1>2, <1>3 DEF Laid
<1>7. Len(s) <= p[Len(frames) + 1]
  <2>1. Len(str) <= pos[Len(frames) + 1] /\ pos[Len(frames) + 1] \in Int
    BY <1>3, <1>4 DEF Laid
  <2> QED
    BY <1>1, <1>6, <2>1
<1>8. ASSUME NEW i \in f + 1 .. Len(frames)
      PROVE  /\ p[i + 1] = p[i] + Len(frames[i].body) + 2
             /\ \A j \in 1 .. Len(frames[i].body) + 2 :
                  p[i] + j \in 1 .. Len(s) => s[p[i] + j] = Frame(frames[i].body)[j]
  <2>1. i \in f + 1 .. Len(frames) + 1 /\ i + 1 \in f + 1 .. Len(frames) + 1 /\ i \in 1 .. Len(frames)
    BY <1>3
  <2>2. p[i] = pos[i] - d /\ p[i + 1] = pos[i + 1] - d /\ pos[i] \in Int
    BY <1>2, <1>4, <2>1
  <2>3. Len(frames[i].body) \in Nat
    BY <2>1 DEF Framed
  <2>4. p[i + 1] = p[i] + Len(frames[i].body) + 2
    <3>1. pos[i + 1] = pos[i] + Len(frames[i].body) + 2
      BY DEF Laid
    <3>2. \A a \in Int : \A b \in Nat : (a + b + 2) - d = (a - d) + b + 2
      OBVIOUS
    <3> QED
      BY <2>2, <2>3, <3>1, <3>2
  <2>5. ASSUME NEW j \in 1 .. Len(frames[i].body) + 2, p[i] + j \in 1 .. Len(s)
        PROVE  s[p[i] + j] = Frame(frames[i].body)[j]
    <3>1. p[i] + j \in 1 .. Len(str) - d /\ d + (p[i] + j) = pos[i] + j /\ pos[i] + j \in 1 .. Len(str)
      <4>1. \A a \in Int : /\ d + ((a - d) + j) = a + j
                           /\ (a - d) + j \in 1 .. Len(str) - d => a + j \in 1 .. Len(str)
        BY <1>1, <2>3
      <4>2. p[i] + j \in 1 .. Len(str) - d
        BY <1>1, <2>5
      <4> QED
        BY <2>2, <4>1, <4>2
    <3>2. s[p[i] + j] = str[pos[i] + j]
      BY <1>1, <3>1
    <3> QED
      BY <3>1, <3>2 DEF Laid
  <2> QED
    BY <2>4, <2>5
<1>9. Laid(p, s, frames, f, base - d)
  BY <1>5, <1>6, <1>7, <1>8 DEF Laid
<1> QED
  BY <1>1, <1>6, <1>9 DEF s

\* A frame has been read.
LEMMA LaidNext ==
  ASSUME NEW pos, NEW str \in Seq(Bytes), NEW frames, Framed(frames), NEW f \in 0 .. Len(frames), NEW base \in Int,
         Laid(pos, str, frames, f, base), f < Len(frames)
  PROVE  Laid(pos, str, frames, f + 1, base + Len(frames[f + 1].body) + 2)
<1>1. Len(frames) \in Nat
  BY SequenceFacts DEF Framed
<1>2. f + 1 \in f + 1 .. Len(frames)
  BY <1>1
<1>3. pos[f + 2] = base + Len(frames[f + 1].body) + 2
  <2>1. f + 1 + 1 = f + 2
    OBVIOUS
  <2> QED
    BY <1>2, <2>1 DEF Laid
<1>4. /\ \A i \in f + 2 .. Len(frames) : i \in f + 1 .. Len(frames)
      /\ \A i \in f + 2 .. Len(frames) + 1 : i \in f + 1 .. Len(frames) + 1
      /\ (f + 1) + 1 = f + 2
  BY <1>1
<1> QED
  BY <1>3, <1>4 DEF Laid

\* A frame is sent.
LEMMA LaidAppend ==
  ASSUME NEW pos, NEW str \in Seq(Bytes), NEW frames, Framed(frames), NEW f \in 0 .. Len(frames), NEW base \in Int,
         Laid(pos, str, frames, f, base), Len(str) = pos[Len(frames) + 1],
         NEW x, x.body \in Seq(Bytes), size_width + Len(x.body) <= MaxSize
  PROVE  \E p : /\ Laid(p, str \o Frame(x.body), Append(frames, x), f, base)
                /\ p[Len(frames) + 2] = Len(str \o Frame(x.body))
                /\ str \o Frame(x.body) \in Seq(Bytes)
<1> DEFINE n == Len(frames)
           s == str \o Frame(x.body)
           fs == Append(frames, x)
           p == [i \in f + 1 .. n + 2 |-> IF i <= n + 1 THEN pos[i] ELSE pos[n + 1] + Len(x.body) + 2]
<1>0. \A i \in f + 1 .. Len(frames) :
         /\ pos[i + 1] = pos[i] + Len(frames[i].body) + 2
         /\ \A j \in 1 .. Len(frames[i].body) + 2 :
              pos[i] + j \in 1 .. Len(str) => str[pos[i] + j] = Frame(frames[i].body)[j]
  BY DEF Laid
<1>10. n = Len(frames)
  OBVIOUS
<1>1. /\ n \in Nat /\ Len(fs) = n + 1 /\ fs[n + 1] = x
      /\ \A i \in 1 .. n : fs[i] = frames[i]
  BY SequenceFacts DEF Framed
<1>2. /\ Frame(x.body) \in Seq(Bytes) /\ Len(Frame(x.body)) = Len(x.body) + 2 /\ Len(x.body) \in Nat
  BY FrameFacts
<1>3. /\ s \in Seq(Bytes) /\ Len(str) \in Nat /\ Len(s) = Len(str) + Len(x.body) + 2
      /\ \A i \in 1 .. Len(str) : s[i] = str[i]
      /\ \A j \in 1 .. Len(x.body) + 2 : s[Len(str) + j] = Frame(x.body)[j]
  <2>1. Len(str) \in Nat /\ Len(x.body) + 2 \in Nat
    BY <1>2
  <2>2. \A a, b \in Nat : a + (b + 2) = a + b + 2
    OBVIOUS
  <2>3. s = str \o Frame(x.body)
    OBVIOUS
  <2> HIDE DEF s
  <2>4. /\ s \in Seq(Bytes) /\ Len(s) = Len(str) + (Len(x.body) + 2)
        /\ \A i \in 1 .. Len(str) : s[i] = str[i]
        /\ \A j \in 1 .. Len(x.body) + 2 : s[Len(str) + j] = Frame(x.body)[j]
    <3>1. Joined(s, str, Frame(x.body), Len(str), Len(x.body) + 2)
      <4>1. Joined(str \o Frame(x.body), str, Frame(x.body), Len(str), Len(Frame(x.body)))
        BY <1>2, ConcatFacts, Zenon
      <4> QED
        BY <1>2, <2>3, <4>1, Zenon
    <3> QED
      BY <3>1 DEF Joined
  <2> QED
    BY <1>2, <2>1, <2>2, <2>4
<1>4. /\ \A i \in f + 1 .. n + 1 : p[i] = pos[i]
      /\ p[n + 2] = pos[n + 1] + Len(x.body) + 2
  BY <1>1
<1> HIDE DEF n, s, fs, p
<1>5. \A i \in f + 1 .. n + 1 : pos[i] \in Int /\ pos[i] <= pos[n + 1]
  BY DEF Laid, n
<1>6. p[n + 2] = Len(s) /\ pos[n + 1] = Len(str)
  BY <1>3, <1>4 DEF n
<1>7. ASSUME NEW i \in f + 1 .. Len(fs) + 1
      PROVE  p[i] \in Int /\ p[i] <= p[Len(fs) + 1]
  <2>1. Len(fs) + 1 = n + 2 /\ (i = n + 2 \/ i \in f + 1 .. n + 1)
    BY <1>1
  <2>2. Len(s) \in Int /\ pos[n + 1] <= Len(s) /\ pos[n + 1] \in Int
    BY <1>2, <1>3, <1>6, SMTT(30)
  <2>3. CASE i = n + 2
    BY <1>6, <2>1, <2>2, <2>3
  <2>4. CASE i \in f + 1 .. n + 1
    <3>1. p[i] = pos[i] /\ pos[i] \in Int /\ pos[i] <= pos[n + 1]
      BY <1>4, <1>5, <2>4
    <3> QED
      BY <1>6, <2>1, <2>2, <3>1
  <2> QED
    BY <2>1, <2>3, <2>4
<1>8. ASSUME NEW i \in f + 1 .. Len(fs)
      PROVE  /\ p[i + 1] = p[i] + Len(fs[i].body) + 2
             /\ \A j \in 1 .. Len(fs[i].body) + 2 :
                  p[i] + j \in 1 .. Len(s) => s[p[i] + j] = Frame(fs[i].body)[j]
  <2>1. i = n + 1 \/ i \in f + 1 .. n
    BY <1>1
  <2>2. CASE i = n + 1
    <3>1. fs[i] = x /\ p[i] = Len(str) /\ p[i + 1] = Len(str) + Len(x.body) + 2
      <4>1. n + 1 + 1 = n + 2 /\ n + 1 \in f + 1 .. n + 1
        BY <1>1 DEF n
      <4> QED
        BY <1>1, <1>4, <1>6, <2>2, <4>1
    <3> QED
      BY <1>3, <3>1
  <2>3. CASE i \in f + 1 .. n
    <3>1. i \in 1 .. n /\ i \in f + 1 .. n + 1 /\ i + 1 \in f + 1 .. n + 1 /\ fs[i] = frames[i]
      BY <1>1, <2>3
    <3>2. p[i] = pos[i] /\ p[i + 1] = pos[i + 1] /\ pos[i] \in Int /\ pos[i + 1] \in Int
          /\ pos[i + 1] <= Len(str)
      BY <1>4, <1>5, <1>6, <3>1
    <3>3. Len(frames[i].body) \in Nat
      BY <3>1 DEF Framed, n
    <3>4. pos[i + 1] = pos[i] + Len(frames[i].body) + 2
      BY <1>0, <1>10, <2>3
    <3>5. ASSUME NEW j \in 1 .. Len(fs[i].body) + 2, p[i] + j \in 1 .. Len(s)
          PROVE  s[p[i] + j] = Frame(fs[i].body)[j]
      <4>1. j \in 1 .. Len(frames[i].body) + 2 /\ pos[i] + j \in 1 .. Len(str)
        <5>1. p[i] + j \in 1 .. Len(s) /\ j \in 1 .. Len(frames[i].body) + 2
          BY <3>1, <3>5
        <5>2. pos[i] + j >= 1
          BY <3>2, <5>1
        <5>3. pos[i] + j <= pos[i + 1]
          <6>1. \A a \in Int : \A b \in Nat : \A k \in 1 .. b + 2 : a + k <= a + b + 2
            OBVIOUS
          <6> QED
            BY <3>2, <3>3, <3>4, <5>1, <6>1
        <5>4. pos[i] + j \in Int /\ pos[i + 1] \in Int /\ Len(str) \in Int
          <6>1. j \in Int
            BY <3>3, <5>1
          <6> QED
            BY <1>3, <3>2, <6>1, SMTT(30)
        <5>5. \A a, b, c \in Int : 1 <= a /\ a <= b /\ b <= c => a \in 1 .. c
          OBVIOUS
        <5> QED
          BY <3>2, <5>1, <5>2, <5>3, <5>4, <5>5
      <4>2. str[pos[i] + j] = Frame(frames[i].body)[j]
        BY <1>0, <1>10, <2>3, <4>1
      <4> QED
        BY <1>3, <3>1, <3>2, <4>1, <4>2
    <3> QED
      BY <3>1, <3>2, <3>4, <3>5
  <2> QED
    BY <2>1, <2>2, <2>3
<1>9. Laid(p, s, fs, f, base)
  <2>1. p[f + 1] = base
    <3>1. f + 1 \in f + 1 .. n + 1
      BY <1>1 DEF n
    <3> QED
      BY <1>4, <3>1 DEF Laid
  <2>2. Len(s) <= p[Len(fs) + 1]
    <3>1. Len(fs) + 1 = n + 2 /\ Len(s) \in Int
      BY <1>1, <1>2, <1>3
    <3> QED
      BY <1>6, <3>1
  <2> QED
    BY <1>7, <1>8, <2>1, <2>2 DEF Laid
<1> QED
  BY <1>3, <1>6, <1>9 DEF n, s, fs

\* The stream holds what follows the first f frames, from the size of the next one or, when
\* that is known, from its body; all of it, unless the stream was closed.
StreamHolds(pos, f, frames, str, sz, closed) ==
  /\ str \in Seq(Bytes) /\ Laid(pos, str, frames, f, IF sz = 0 THEN 0 ELSE -2)
  /\ ~closed => Len(str) = pos[Len(frames) + 1]
  /\ sz # 0 => f < Len(frames) /\ sz = size_width + Len(frames[f + 1].body)
Unread(f, frames, str, sz, closed) == \E pos : StreamHolds(pos, f, frames, str, sz, closed)

LEMMA UnreadFits ==
  ASSUME NEW frames, Framed(frames), NEW f \in 0 .. Len(frames), NEW str, NEW sz, NEW closed,
         Unread(f, frames, str, sz, closed)
  PROVE  str \in Seq(Bytes) /\ sz \in 0 .. MaxSize
<1>1. PICK pos : StreamHolds(pos, f, frames, str, sz, closed)
  BY DEF Unread
<1>2. str \in Seq(Bytes)
  BY <1>1 DEF StreamHolds
<1>3. CASE sz = 0
  <2>1. 0 \in 0 .. MaxSize
    BY DEF MaxSize
  <2> QED
    BY <1>2, <1>3, <2>1
<1>4. CASE sz # 0
  <2>1. f < Len(frames) /\ sz = size_width + Len(frames[f + 1].body)
    BY <1>1, <1>4 DEF StreamHolds
  <2>2. f + 1 \in 1 .. Len(frames)
    BY <2>1, SequenceFacts DEF Framed
  <2>3. Len(frames[f + 1].body) \in Nat /\ size_width + Len(frames[f + 1].body) <= MaxSize
    BY <2>2 DEF Framed
  <2>4. sz \in Nat /\ MaxSize \in Nat
    BY <2>1, <2>3 DEF size_width, MaxSize
  <2> QED
    BY <1>2, <2>1, <2>3, <2>4
<1> QED
  BY <1>3, <1>4

\* _enqueue
LEMMA UnreadSent ==
  ASSUME NEW frames, Framed(frames), NEW f \in 0 .. Len(frames), NEW str, NEW sz, NEW closed,
         Unread(f, frames, str, sz, closed), ~closed,
         NEW x, x.body \in Seq(Bytes), size_width + Len(x.body) <= MaxSize
  PROVE  Unread(f, Append(frames, x), str \o Frame(x.body), sz, closed)
<1>1. PICK pos : StreamHolds(pos, f, frames, str, sz, closed)
  BY DEF Unread
<1> DEFINE base == IF sz = 0 THEN 0 ELSE -2
           n == Len(frames)
           fs == Append(frames, x)
<1>2. base \in Int
  OBVIOUS
<1>3. str \in Seq(Bytes) /\ Laid(pos, str, frames, f, base) /\ Len(str) = pos[Len(frames) + 1]
  BY <1>1 DEF StreamHolds
<1> HIDE DEF base
<1>4. PICK p : /\ Laid(p, str \o Frame(x.body), Append(frames, x), f, base)
               /\ p[Len(frames) + 2] = Len(str \o Frame(x.body))
               /\ str \o Frame(x.body) \in Seq(Bytes)
  BY <1>2, <1>3, LaidAppend
<1>5. n \in Nat /\ Len(fs) = n + 1 /\ \A i \in 1 .. n : fs[i] = frames[i]
  BY SequenceFacts DEF Framed
<1>6. sz # 0 => f < Len(fs) /\ sz = size_width + Len(fs[f + 1].body)
  <2>1. sz # 0 => f < n /\ sz = size_width + Len(frames[f + 1].body)
    BY <1>1 DEF StreamHolds
  <2>2. f < n => f + 1 \in 1 .. n /\ f < Len(fs)
    BY <1>5
  <2> QED
    BY <1>5, <2>1, <2>2
<1>7. Len(str \o Frame(x.body)) = p[Len(fs) + 1]
  <2>1. Len(fs) + 1 = n + 2
    BY <1>5
  <2> QED
    BY <1>4, <2>1
<1>8. StreamHolds(p, f, fs, str \o Frame(x.body), sz, closed)
  BY <1>4, <1>6, <1>7 DEF StreamHolds, base
<1> QED
  BY <1>8 DEF Unread

\* The stream is closed.
LEMMA UnreadLost ==
  ASSUME NEW frames, Framed(frames), NEW f \in 0 .. Len(frames), NEW str, NEW sz, NEW closed,
         Unread(f, frames, str, sz, closed), NEW n \in 0 .. Len(str)
  PROVE  Unread(f, frames, SubSeq(str, 1, n), sz, TRUE)
<1>1. PICK pos : StreamHolds(pos, f, frames, str, sz, closed)
  BY DEF Unread
<1> DEFINE base == IF sz = 0 THEN 0 ELSE -2
<1>2. base \in Int /\ str \in Seq(Bytes) /\ Laid(pos, str, frames, f, base) /\ Sequence(frames)
  BY <1>1 DEF StreamHolds, Framed
<1> HIDE DEF base
<1>3. Laid(pos, SubSeq(str, 1, n), frames, f, base) /\ SubSeq(str, 1, n) \in Seq(Bytes)
  BY <1>2, LaidCut
<1>4. StreamHolds(pos, f, frames, SubSeq(str, 1, n), sz, TRUE)
  BY <1>1, <1>3 DEF StreamHolds, base
<1> QED
  BY <1>4 DEF Unread

\* on_read_size
LEMMA UnreadSize ==
  ASSUME NEW frames, Framed(frames), NEW f \in 0 .. Len(frames), NEW str, NEW closed,
         Unread(f, frames, str, 0, closed), Len(str) >= size_width
  PROVE  Unread(f, frames, SubSeq(str, size_width + 1, Len(str)), SizeOf(str), closed)
<1>1. PICK pos : StreamHolds(pos, f, frames, str, 0, closed)
  BY DEF Unread
<1>2. str \in Seq(Bytes) /\ Laid(pos, str, frames, f, 0) /\ (~closed => Len(str) = pos[Len(frames) + 1])
  BY <1>1 DEF StreamHolds
<1>3. Len(str) \in Nat /\ 2 \in 0 .. Len(str) /\ Len(str) >= 2 /\ Len(frames) \in Nat
  BY <1>2, SequenceFacts DEF size_width, Framed
<1>4. pos[f + 1] = 0 /\ Len(str) <= pos[Len(frames) + 1]
  BY <1>2 DEF Laid
<1>5. f < Len(frames)
  <2>1. f # Len(frames)
    BY <1>3, <1>4
  <2> QED
    BY <1>3, <2>1
<1> DEFINE b == frames[f + 1].body
<1>6. f + 1 \in f + 1 .. Len(frames) /\ f + 1 \in 1 .. Len(frames)
  BY <1>3, <1>5
<1>7. b \in Seq(Bytes) /\ size_width + Len(b) <= MaxSize
  BY <1>6 DEF Framed
<1>8. 256 * Frame(b)[1] + Frame(b)[2] = Len(b) + 2 /\ Len(b) \in Nat
  BY <1>7, FrameFacts
<1>9. \A j \in 1 .. Len(b) + 2 : 0 + j \in 1 .. Len(str) => str[0 + j] = Frame(b)[j]
  BY <1>2, <1>4, <1>6 DEF Laid
<1> HIDE DEF b
<1>10. str[1] = Frame(b)[1] /\ str[2] = Frame(b)[2]
  <2>1. 1 \in 1 .. Len(b) + 2 /\ 2 \in 1 .. Len(b) + 2 /\ 0 + 1 = 1 /\ 0 + 2 = 2
        /\ 1 \in 1 .. Len(str) /\ 2 \in 1 .. Len(str)
    BY <1>3, <1>8
  <2> QED
    BY <1>9, <2>1
<1>11. SizeOf(str) = size_width + Len(b) /\ SizeOf(str) # 0
  <2>1. SizeOf(str) = Len(b) + 2
    BY <1>8, <1>10 DEF SizeOf
  <2>2. Len(b) + 2 = 2 + Len(b) /\ Len(b) + 2 # 0
    BY <1>8
  <2> QED
    BY <2>1, <2>2 DEF size_width
<1> DEFINE d == 2
           z == 0
           s == SubSeq(str, d + 1, Len(str))
<1>12. PICK p : /\ Laid(p, s, frames, f, z - d)
                /\ p[Len(frames) + 1] = pos[Len(frames) + 1] - d
                /\ s \in Seq(Bytes) /\ Len(s) = Len(str) - d
  <2>1. d \in 0 .. Len(str) /\ z \in Int /\ Laid(pos, str, frames, f, z)
    BY <1>2, <1>3
  <2> HIDE DEF d, z
  <2> QED
    BY <1>2, <2>1, LaidDrop
<1> HIDE DEF s
<1>13. StreamHolds(p, f, frames, s, SizeOf(str), closed)
  <2>1. 0 - 2 = -2
    OBVIOUS
  <2>2. ~closed => Len(s) = p[Len(frames) + 1]
    BY <1>2, <1>12
  <2>3. Laid(p, s, frames, f, IF SizeOf(str) = 0 THEN 0 ELSE -2)
    BY <1>11, <1>12, <2>1
  <2> QED
    BY <1>5, <1>11, <1>12, <2>2, <2>3 DEF StreamHolds, b
<1>14. Unread(f, frames, s, SizeOf(str), closed)
  BY <1>13 DEF Unread
<1> QED
  BY <1>14 DEF s, size_width

\* on_body
LEMMA UnreadBody ==
  ASSUME NEW frames, Framed(frames), NEW f \in 0 .. Len(frames), NEW str, NEW sz, NEW closed,
         Unread(f, frames, str, sz, closed), sz # 0, Len(str) >= sz - size_width
  PROVE  /\ f < Len(frames) /\ SubSeq(str, 1, sz - size_width) = frames[f + 1].body
         /\ Unread(f + 1, frames, SubSeq(str, sz - size_width + 1, Len(str)), 0, closed)
<1>1. PICK pos : StreamHolds(pos, f, frames, str, sz, closed)
  BY DEF Unread
<1> DEFINE b == frames[f + 1].body
           k == Len(b)
           s == SubSeq(str, k + 1, Len(str))
<1>2. str \in Seq(Bytes) /\ Laid(pos, str, frames, f, -2) /\ (~closed => Len(str) = pos[Len(frames) + 1])
      /\ f < Len(frames) /\ sz = size_width + k
  BY <1>1 DEF StreamHolds
<1>3. Len(frames) \in Nat /\ f + 1 \in f + 1 .. Len(frames) /\ f + 1 \in 1 .. Len(frames)
  <2>1. Len(frames) \in Nat
    BY SequenceFacts DEF Framed
  <2> QED
    BY <1>2, <2>1
<1>4. b \in Seq(Bytes) /\ size_width + Len(b) <= MaxSize
  BY <1>3 DEF Framed
<1>5. k \in Nat /\ \A j \in 1 .. k : Frame(b)[j + 2] = b[j]
  BY <1>4, FrameFacts
<1>6. \A j \in 1 .. k + 2 : -2 + j \in 1 .. Len(str) => str[-2 + j] = Frame(b)[j]
  <2>1. pos[f + 1] = -2
    BY <1>2 DEF Laid
  <2> QED
    BY <1>2, <1>3, <2>1 DEF Laid
<1> HIDE DEF b, k
<1>7. sz - size_width = k /\ Len(str) \in Nat /\ k \in 0 .. Len(str)
  BY <1>2, <1>5 DEF size_width
<1>8. SubSeq(str, 1, k) = b
  <2>1. /\ SubSeq(str, 1, k) \in Seq(Bytes) /\ Len(SubSeq(str, 1, k)) = k
        /\ \A j \in 1 .. k : SubSeq(str, 1, k)[j] = str[j]
    BY <1>2, <1>7
  <2>2. ASSUME NEW j \in 1 .. k
        PROVE  str[j] = b[j]
    <3>1. j + 2 \in 1 .. k + 2 /\ -2 + (j + 2) = j /\ j \in 1 .. Len(str)
      BY <1>7
    <3> QED
      BY <1>5, <1>6, <3>1
  <2>3. Len(b) = k
    BY DEF k
  <2> DEFINE c == SubSeq(str, 1, k)
  <2>4. c \in Seq(Bytes) /\ Len(c) = Len(b) /\ \A j \in 1 .. Len(b) : c[j] = b[j]
    BY <2>1, <2>2, <2>3
  <2> HIDE DEF c
  <2>5. c = b
    BY <1>4, <2>4, SeqEqual
  <2> QED
    BY <2>5 DEF c
<1>9. PICK p : /\ Laid(p, s, frames, f, -2 - k)
               /\ p[Len(frames) + 1] = pos[Len(frames) + 1] - k
               /\ s \in Seq(Bytes) /\ Len(s) = Len(str) - k
  <2>1. -2 \in Int
    OBVIOUS
  <2> QED
    BY <1>2, <1>7, <2>1, LaidDrop
<1> HIDE DEF s
<1>10. Laid(p, s, frames, f + 1, 0)
  <2>1. -2 - k \in Int /\ -2 - k + k + 2 = 0
    BY <1>5
  <2>2. Laid(p, s, frames, f + 1, -2 - k + k + 2)
    BY <1>2, <1>9, <2>1, LaidNext DEF k, b
  <2> QED
    BY <2>1, <2>2
<1>11. StreamHolds(p, f + 1, frames, s, 0, closed)
  <2>1. ~closed => Len(s) = p[Len(frames) + 1]
    BY <1>2, <1>9
  <2> QED
    BY <1>9, <1>10, <2>1 DEF StreamHolds
<1>12. Unread(f + 1, frames, s, 0, closed)
  BY <1>11 DEF Unread
<1> QED
  BY <1>2, <1>7, <1>8, <1>12 DEF s, b

-----------------------------------------------------------------------------
(* Checksums: what the factories hold for a call.                          *)

\* Frame i is a part of the call.
OfCall(frames, id, i) ==
  frames[i].message.type \in CHECKSUM_MSG_TYPES /\ frames[i].message.id = id

\* What a factory holds for the call: nothing, or a sum.
Slot(sums, id) == IF id \in DOMAIN sums THEN <<sums[id]>> ELSE <<>>
SlotSum(slot) == IF slot = <<>> THEN <<0>> ELSE slot[1]
NextSlot(m) == IF m.body.flags = 0 THEN <<>> ELSE <<m.body.checksum[2]>>

\* h[i][id]: what a factory holds for the call after the first i frames.
Held(h, frames) ==
  \A id \in Ids :
    /\ h[0][id] = <<>>
    /\ \A i \in 1 .. Len(frames) :
         h[i][id] = IF OfCall(frames, id, i) THEN NextSlot(frames[i].message) ELSE h[i - 1][id]

\* A part of a call: what it carries can be made bytes of.
Formed(m) ==
  /\ {"flags", "checksum", "args"} \subseteq DOMAIN m.body
  /\ \A i \in DOMAIN m.body.args : AsBytes(m.body.args[i]) \in Seq(Bytes)

\* What it is read as says the same, and has the same sum.
LEMMA ReadSame ==
  ASSUME NEW m, Formed(m)
  PROVE  /\ AsRead(m).type = m.type /\ AsRead(m).id = m.id
         /\ NextSlot(AsRead(m)) = NextSlot(m)
         /\ \A sums : After(sums, AsRead(m)) = After(sums, m)
         /\ \A previous : verify_checksum(m, previous) => verify_checksum(AsRead(m), previous)
<1> DEFINE b == m.body
           r == AsRead(m)
<1>1. /\ r.type = m.type /\ r.id = m.id
      /\ r.body = [a \in DOMAIN b |->
                     CASE a = "headers" -> HeadersAsText(b[a])
                       [] a = "args" -> ArgsAsBytes(b[a])
                       [] OTHER -> b[a]]
  BY DEF AsRead, Message
<1>2. {"flags", "checksum", "args"} \subseteq DOMAIN b
  BY DEF Formed
<1> HIDE DEF r, b
<1>3. /\ r.body.flags = b.flags /\ r.body.checksum = b.checksum
      /\ r.body.args = ArgsAsBytes(b.args)
  BY <1>1, <1>2
<1>4. ArgsAsBytes(ArgsAsBytes(b.args)) = ArgsAsBytes(b.args)
  <2>1. ASSUME NEW i \in DOMAIN b.args PROVE AsBytes(AsBytes(b.args[i])) = AsBytes(b.args[i])
    <3>1. AsBytes(b.args[i]) \in Seq(Bytes)
      BY DEF Formed, b
    <3>2. ASSUME NEW s \in Seq(Bytes), s # <<>> PROVE s[1] # -1
      <4>1. Len(s) \in Nat /\ Len(s) # 0
        BY <3>2, EmptySeq
      <4>2. s[1] \in Bytes
        BY <4>1, ElementOfSeq
      <4>3. \A n \in 0 .. 255 : n # -1
        OBVIOUS
      <4> QED
        BY <4>2, <4>3 DEF Bytes
    <3> QED
      BY <3>1, <3>2 DEF AsBytes, IsOdd
  <2> QED
    BY <2>1 DEF ArgsAsBytes
<1>5. \A t, csum : compute_checksum(t, r.body.args, csum) = compute_checksum(t, b.args, csum)
  BY <1>3, <1>4 DEF compute_checksum
<1> QED
  BY <1>1, <1>3, <1>5 DEF NextSlot, After, verify_checksum, b, r

\* The checksum of each part continues the sum held.
Summed(h, frames) ==
  \A i \in 1 .. Len(frames) :
    LET m == frames[i].message IN
    m.type \in CHECKSUM_MSG_TYPES =>
      m.id \in Ids /\ Formed(m) /\ verify_checksum(m, SlotSum(h[i - 1][m.id]))

\* The sender holds it for the calls it has not given up.
OutHeld(h, frames, sums, parts) ==
  /\ parts \in [Ids -> Nat] /\ DOMAIN sums \subseteq Ids
  /\ \A id \in Ids : parts[id] # 0 =>
       /\ Slot(sums, id) = h[Len(frames)][id]
       /\ parts[id] > Len(Calls[id]) => h[Len(frames)][id] = <<>>

\* The receiver holds it for the calls no part of which was damaged.
Undamaged(frames, id, g) == \A i \in 1 .. g : OfCall(frames, id, i) => ~frames[i].damaged
InHeld(h, g, frames, sums) ==
  /\ DOMAIN sums \subseteq Ids
  /\ \A id \in Ids : Undamaged(frames, id, g) => Slot(sums, id) = h[g][id]

SumsHold(h, g, frames, insums, outsums, parts) ==
  Held(h, frames) /\ Summed(h, frames) /\ OutHeld(h, frames, outsums, parts) /\ InHeld(h, g, frames, insums)
Sums(g, frames, insums, outsums, parts) == \E h : SumsHold(h, g, frames, insums, outsums, parts)

LEMMA SlotSumOf ==
  ASSUME NEW sums, NEW id
  PROVE  SumOf(sums, id) = SlotSum(Slot(sums, id))
<1>1. \A x : <<x>> # <<>> /\ <<x>>[1] = x
  OBVIOUS
<1> QED
  BY <1>1 DEF SumOf, SlotSum, Slot

LEMMA SlotWithout ==
  ASSUME NEW sums, NEW id
  PROVE  /\ DOMAIN Without(sums, id) \subseteq DOMAIN sums
         /\ \A j : Slot(Without(sums, id), j) = IF j = id THEN <<>> ELSE Slot(sums, j)
<1>1. /\ DOMAIN Without(sums, id) = DOMAIN sums \ {id}
      /\ \A j \in DOMAIN sums \ {id} : Without(sums, id)[j] = sums[j]
  BY DEF Without
<1>2. ASSUME NEW j
      PROVE  Slot(Without(sums, id), j) = IF j = id THEN <<>> ELSE Slot(sums, j)
  <2>1. CASE j = id
    BY <1>1, <2>1 DEF Slot
  <2>2. CASE j # id /\ j \in DOMAIN sums
    BY <1>1, <2>2 DEF Slot
  <2>3. CASE j # id /\ j \notin DOMAIN sums
    BY <1>1, <2>3 DEF Slot
  <2> QED
    BY <2>1, <2>2, <2>3
<1> QED
  BY <1>1, <1>2

LEMMA SlotAfter ==
  ASSUME NEW sums, NEW m
  PROVE  /\ DOMAIN After(sums, m) \subseteq DOMAIN sums \cup {m.id}
         /\ \A j : Slot(After(sums, m), j) = IF j = m.id THEN NextSlot(m) ELSE Slot(sums, j)
<1>1. CASE m.body.flags = 0
  <2>1. After(sums, m) = Without(sums, m.id) /\ NextSlot(m) = <<>>
    BY <1>1 DEF After, NextSlot
  <2> QED
    BY <2>1, SlotWithout
<1>2. CASE m.body.flags # 0
  <2> DEFINE c == m.body.checksum[2]
             id == m.id
             w == With(sums, id, c)
  <2>1. After(sums, m) = w /\ NextSlot(m) = <<c>>
    BY <1>2 DEF After, NextSlot
  <2> HIDE DEF c, id
  <2>2. /\ DOMAIN w = DOMAIN sums \cup {id} /\ w[id] = c
        /\ \A j \in DOMAIN sums : j # id => w[j] = sums[j]
    BY DEF With
  <2> HIDE DEF w
  <2>3. ASSUME NEW j
        PROVE  Slot(w, j) = IF j = id THEN <<c>> ELSE Slot(sums, j)
    <3>1. CASE j = id
      BY <2>2, <3>1 DEF Slot
    <3>2. CASE j # id /\ j \in DOMAIN sums
      BY <2>2, <3>2 DEF Slot
    <3>3. CASE j # id /\ j \notin DOMAIN sums
      BY <2>2, <3>3 DEF Slot
    <3> QED
      BY <3>1, <3>2, <3>3
  <2> QED
    BY <2>1, <2>2, <2>3 DEF id
<1> QED
  BY <1>1, <1>2

\* generate_checksum: what verify_checksum looks for.
Continues(m, id, k, previous) ==
  /\ m.type \in CHECKSUM_MSG_TYPES /\ m.id = id /\ Formed(m)
  /\ m.body.flags = 0 <=> k = Len(Calls[id])
  /\ verify_checksum(m, previous)

LEMMA Generated ==
  ASSUME NEW id \in Ids, NEW k \in 1 .. Len(Calls[id]), NEW previous
  PROVE  Continues(generate_checksum(Calls[id][k], previous), id, k, previous)
<1> DEFINE c == Calls[id][k]
           b == c.body
           t == c.type
           m == generate_checksum(c, previous)
           v == <<b.checksum[1], compute_checksum(b.checksum[1], b.args, previous)>>
<1>1. /\ c = Message(t, id, b) /\ t \in CHECKSUM_MSG_TYPES
      /\ b = [a \in DOMAIN b |-> b[a]]
      /\ {"flags", "checksum", "args"} \subseteq DOMAIN b
      /\ b.flags = 0 <=> k = Len(Calls[id])
      /\ \A a \in DOMAIN b.args : AsBytes(b.args[a]) \in Seq(Bytes)
  BY CallsAssumption
<1>2. m = [c EXCEPT !.body.checksum = v]
  BY <1>1 DEF generate_checksum
<1> HIDE DEF c, b, t, v
<1>3. c = [type |-> t, id |-> id, body |-> b]
  BY <1>1 DEF Message
<1>4. m = [type |-> t, id |-> id, body |-> [b EXCEPT !.checksum = v]]
  BY <1>2, <1>3
<1>5. m.type = t /\ m.id = id /\ m.body = [b EXCEPT !.checksum = v]
  BY <1>4
<1>6. m.body.flags = b.flags /\ m.body.args = b.args /\ m.body.checksum = v
  <2> DEFINE e == [b EXCEPT !.checksum = v]
  <2>1. e.flags = b.flags /\ e.args = b.args /\ e.checksum = v
    BY <1>1
  <2> QED
    BY <1>5, <2>1
<1>61. Formed(m)
  <2>1. DOMAIN m.body = DOMAIN b
    BY <1>5
  <2> QED
    BY <1>1, <1>6, <2>1 DEF Formed
<1>7. v[1] = b.checksum[1] /\ v[2] = compute_checksum(b.checksum[1], b.args, previous)
  BY DEF v
<1>8. verify_checksum(m, previous)
  BY <1>6, <1>7 DEF verify_checksum
<1> QED
  <2>1. Continues(m, id, k, previous)
    BY <1>1, <1>5, <1>6, <1>61, <1>8 DEF Continues
  <2> QED
    BY <2>1 DEF c

\* One frame more.
Longer(h, h2, frames, m) ==
  /\ \A i \in 0 .. Len(frames) : h2[i] = h[i]
  /\ \A id \in Ids :
       h2[Len(frames) + 1][id] =
         IF m.type \in CHECKSUM_MSG_TYPES /\ m.id = id THEN NextSlot(m) ELSE h[Len(frames)][id]

LEMMA HeldSent ==
  ASSUME NEW frames, Sequence(frames), NEW x, NEW h, Held(h, frames), Summed(h, frames),
         NEW m, m = x.message,
         m.type \in CHECKSUM_MSG_TYPES =>
           m.id \in Ids /\ Formed(m) /\ verify_checksum(m, SlotSum(h[Len(frames)][m.id]))
  PROVE  \E h2 : /\ Held(h2, Append(frames, x)) /\ Summed(h2, Append(frames, x))
                 /\ Longer(h, h2, frames, m)
<1> DEFINE n == Len(frames)
           fs == Append(frames, x)
           new == [id \in Ids |-> IF m.type \in CHECKSUM_MSG_TYPES /\ m.id = id THEN NextSlot(m) ELSE h[n][id]]
           h2 == [i \in 0 .. n + 1 |-> IF i <= n THEN h[i] ELSE new]
<1>1. /\ n \in Nat /\ Len(fs) = n + 1 /\ fs[n + 1] = x
      /\ \A i \in 1 .. n : fs[i] = frames[i]
  BY SequenceFacts
<1>2. n = Len(frames)
  OBVIOUS
<1>3. \A id \in Ids : new[id] = IF m.type \in CHECKSUM_MSG_TYPES /\ m.id = id THEN NextSlot(m) ELSE h[n][id]
  OBVIOUS
<1> HIDE DEF n, new, fs
<1>4. (\A i \in 0 .. n : h2[i] = h[i]) /\ h2[n + 1] = new
  BY <1>1
<1> HIDE DEF h2
<1>5. Longer(h, h2, frames, m)
  BY <1>2, <1>3, <1>4 DEF Longer
<1>6. ASSUME NEW id \in Ids, NEW i \in 1 .. Len(fs)
      PROVE  h2[i][id] = IF OfCall(fs, id, i) THEN NextSlot(fs[i].message) ELSE h2[i - 1][id]
  <2>1. i \in 1 .. n \/ i = n + 1
    BY <1>1
  <2>2. CASE i \in 1 .. n
    <3>1. i \in 0 .. n /\ i - 1 \in 0 .. n /\ fs[i] = frames[i]
      BY <1>1, <2>2
    <3>2. h2[i] = h[i] /\ h2[i - 1] = h[i - 1]
      BY <1>4, <3>1
    <3>3. h[i][id] = IF OfCall(frames, id, i) THEN NextSlot(frames[i].message) ELSE h[i - 1][id]
      BY <1>2, <2>2 DEF Held
    <3> QED
      BY <3>1, <3>2, <3>3 DEF OfCall
  <2>3. CASE i = n + 1
    <3>1. i - 1 = n /\ n \in 0 .. n /\ fs[i].message = m
      BY <1>1, <2>3
    <3>2. h2[i][id] = IF m.type \in CHECKSUM_MSG_TYPES /\ m.id = id THEN NextSlot(m) ELSE h[n][id]
      BY <1>3, <1>4, <2>3
    <3>3. h2[i - 1] = h[n]
      BY <1>4, <3>1
    <3> QED
      BY <3>1, <3>2, <3>3 DEF OfCall
  <2> QED
    BY <2>1, <2>2, <2>3
<1>7. Held(h2, fs)
  <2>1. \A id \in Ids : h2[0][id] = <<>>
    <3>1. h2[0] = h[0]
      BY <1>1, <1>4
    <3> QED
      BY <3>1 DEF Held
  <2> QED
    BY <1>6, <2>1 DEF Held
<1>8. Summed(h2, fs)
  <2>1. ASSUME NEW i \in 1 .. Len(fs), fs[i].message.type \in CHECKSUM_MSG_TYPES
        PROVE  /\ fs[i].message.id \in Ids /\ Formed(fs[i].message)
               /\ verify_checksum(fs[i].message, SlotSum(h2[i - 1][fs[i].message.id]))
    <3>1. i \in 1 .. n \/ i = n + 1
      BY <1>1
    <3>2. CASE i \in 1 .. n
      <4>1. i - 1 \in 0 .. n /\ fs[i] = frames[i]
        BY <1>1, <3>2
      <4>2. h2[i - 1] = h[i - 1]
        BY <1>4, <4>1
      <4> QED
        BY <1>2, <2>1, <3>2, <4>1, <4>2 DEF Summed
    <3>3. CASE i = n + 1
      <4>1. i - 1 = n /\ n \in 0 .. n /\ fs[i].message = m
        BY <1>1, <3>3
      <4>2. h2[i - 1] = h[n]
        BY <1>4, <4>1
      <4> QED
        BY <1>2, <2>1, <4>1, <4>2
    <3> QED
      BY <3>1, <3>2, <3>3
  <2> QED
    BY <2>1 DEF Summed
<1> QED
  BY <1>5, <1>7, <1>8 DEF fs

LEMMA InSent ==
  ASSUME NEW frames, Sequence(frames), NEW x, NEW h, NEW h2, NEW m, Longer(h, h2, frames, m),
         NEW g \in 0 .. Len(frames), NEW sums, InHeld(h, g, frames, sums)
  PROVE  InHeld(h2, g, Append(frames, x), sums)
<1> DEFINE fs == Append(frames, x)
<1>1. \A i \in 1 .. Len(frames) : fs[i] = frames[i]
  BY SequenceFacts
<1>2. h2[g] = h[g] /\ \A i \in 1 .. g : i \in 1 .. Len(frames)
  BY DEF Longer
<1>3. \A id : Undamaged(fs, id, g) => Undamaged(frames, id, g)
  BY <1>1, <1>2 DEF Undamaged, OfCall
<1> QED
  BY <1>2, <1>3 DEF InHeld

\* A part of a call is sent.
LEMMA SumsSent ==
  ASSUME NEW frames, Sequence(frames), NEW x, NEW g \in 0 .. Len(frames), NEW insums, NEW outsums, NEW parts,
         Sums(g, frames, insums, outsums, parts),
         NEW id \in Ids, parts[id] \in 1 .. Len(Calls[id]),
         x.message = generate_checksum(Calls[id][parts[id]], SumOf(outsums, id))
  PROVE  Sums(g, Append(frames, x), insums, After(outsums, x.message), [parts EXCEPT ![id] = @ + 1])
<1>1. PICK h : SumsHold(h, g, frames, insums, outsums, parts)
  BY DEF Sums
<1>2. /\ Held(h, frames) /\ Summed(h, frames) /\ OutHeld(h, frames, outsums, parts)
      /\ InHeld(h, g, frames, insums)
  BY <1>1 DEF SumsHold
<1> DEFINE k == parts[id]
           m == x.message
           n == Len(frames)
           fs == Append(frames, x)
           ps == [parts EXCEPT ![id] = @ + 1]
           outs == After(outsums, m)
<1>3. /\ m.type \in CHECKSUM_MSG_TYPES /\ m.id = id /\ Formed(m)
      /\ m.body.flags = 0 <=> k = Len(Calls[id])
      /\ verify_checksum(m, SumOf(outsums, id))
  <2>1. Continues(m, id, k, SumOf(outsums, id))
    BY Generated
  <2> QED
    BY <2>1 DEF Continues
<1>4. k \in Nat /\ k # 0 /\ Len(Calls[id]) \in Nat /\ k <= Len(Calls[id])
  BY CallsAssumption
<1>5. SumOf(outsums, id) = SlotSum(h[n][id])
  BY <1>2, <1>4, SlotSumOf DEF OutHeld
<1>6. PICK h2 : Held(h2, fs) /\ Summed(h2, fs) /\ Longer(h, h2, frames, m)
  BY <1>2, <1>3, <1>5, HeldSent
<1>7. InHeld(h2, g, fs, insums)
  BY <1>2, <1>6, InSent
<1>8. parts \in [Ids -> Nat] /\ DOMAIN outsums \subseteq Ids
  BY <1>2 DEF OutHeld
<1>9. ps \in [Ids -> Nat] /\ ps[id] = k + 1 /\ \A j \in Ids : j # id => ps[j] = parts[j]
  BY <1>4, <1>8
<1>10. Len(fs) = n + 1
  BY SequenceFacts
<1>11. /\ DOMAIN outs \subseteq DOMAIN outsums \cup {id}
       /\ \A j : Slot(outs, j) = IF j = id THEN NextSlot(m) ELSE Slot(outsums, j)
  BY <1>3, SlotAfter
<1>12. \A j \in Ids : h2[n + 1][j] = IF j = id THEN NextSlot(m) ELSE h[n][j]
  BY <1>3, <1>6 DEF Longer
<1> HIDE DEF k, m, n, fs, ps, outs
<1>13. ASSUME NEW j \in Ids, ps[j] # 0
       PROVE  /\ Slot(outs, j) = h2[Len(fs)][j]
              /\ ps[j] > Len(Calls[j]) => h2[Len(fs)][j] = <<>>
  <2>1. CASE j = id
    <3>1. Slot(outs, j) = NextSlot(m) /\ h2[Len(fs)][j] = NextSlot(m)
      BY <1>10, <1>11, <1>12, <2>1
    <3>2. ps[j] > Len(Calls[j]) => k = Len(Calls[id])
      BY <1>4, <1>9, <2>1
    <3>3. k = Len(Calls[id]) => NextSlot(m) = <<>>
      BY <1>3 DEF NextSlot
    <3> QED
      BY <3>1, <3>2, <3>3
  <2>2. CASE j # id
    <3>1. Slot(outs, j) = Slot(outsums, j) /\ h2[Len(fs)][j] = h[n][j] /\ ps[j] = parts[j]
      BY <1>9, <1>10, <1>11, <1>12, <2>2
    <3>2. Slot(outsums, j) = h[n][j] /\ (parts[j] > Len(Calls[j]) => h[n][j] = <<>>)
      BY <1>2, <1>13, <3>1 DEF OutHeld, n
    <3> QED
      BY <3>1, <3>2
  <2> QED
    BY <2>1, <2>2
<1>14. OutHeld(h2, fs, outs, ps)
  BY <1>8, <1>9, <1>11, <1>13 DEF OutHeld
<1>15. SumsHold(h2, g, fs, insums, outs, ps)
  BY <1>6, <1>7, <1>14 DEF SumsHold
<1> QED
  BY <1>15 DEF Sums, fs, ps, outs, m

\* The call is given up.
LEMMA SumsGivenUp ==
  ASSUME NEW frames, Sequence(frames), NEW g, NEW insums, NEW outsums, NEW parts,
         Sums(g, frames, insums, outsums, parts),
         NEW id \in Ids, NEW m, m.id = id
  PROVE  Sums(g, frames, insums, After(outsums, m), [parts EXCEPT ![id] = 0])
<1>1. PICK h : SumsHold(h, g, frames, insums, outsums, parts)
  BY DEF Sums
<1>2. /\ Held(h, frames) /\ Summed(h, frames) /\ OutHeld(h, frames, outsums, parts)
      /\ InHeld(h, g, frames, insums)
  BY <1>1 DEF SumsHold
<1> DEFINE ps == [parts EXCEPT ![id] = 0]
           outs == After(outsums, m)
<1>3. parts \in [Ids -> Nat] /\ DOMAIN outsums \subseteq Ids
  BY <1>2 DEF OutHeld
<1>4. ps \in [Ids -> Nat] /\ ps[id] = 0 /\ \A j \in Ids : j # id => ps[j] = parts[j]
  BY <1>3
<1>5. /\ DOMAIN outs \subseteq DOMAIN outsums \cup {id}
      /\ \A j : Slot(outs, j) = IF j = id THEN NextSlot(m) ELSE Slot(outsums, j)
  BY SlotAfter
<1> HIDE DEF ps, outs
<1>6. ASSUME NEW j \in Ids, ps[j] # 0
      PROVE  /\ Slot(outs, j) = h[Len(frames)][j]
             /\ ps[j] > Len(Calls[j]) => h[Len(frames)][j] = <<>>
  <2>1. j # id /\ ps[j] = parts[j] /\ Slot(outs, j) = Slot(outsums, j)
    BY <1>4, <1>5, <1>6
  <2> QED
    BY <1>2, <1>6, <2>1 DEF OutHeld
<1>7. OutHeld(h, frames, outs, ps)
  BY <1>3, <1>4, <1>5, <1>6 DEF OutHeld
<1>8. SumsHold(h, g, frames, insums, outs, ps)
  BY <1>2, <1>7 DEF SumsHold
<1> QED
  BY <1>8 DEF Sums, ps, outs

\* A message that is no part of a call is sent.
LEMMA SumsOther ==
  ASSUME NEW frames, Sequence(frames), NEW x, NEW g \in 0 .. Len(frames), NEW insums, NEW outsums, NEW parts,
         Sums(g, frames, insums, outsums, parts), x.message.type \notin CHECKSUM_MSG_TYPES
  PROVE  Sums(g, Append(frames, x), insums, outsums, parts)
<1>1. PICK h : SumsHold(h, g, frames, insums, outsums, parts)
  BY DEF Sums
<1>2. /\ Held(h, frames) /\ Summed(h, frames) /\ OutHeld(h, frames, outsums, parts)
      /\ InHeld(h, g, frames, insums)
  BY <1>1 DEF SumsHold
<1> DEFINE fs == Append(frames, x)
<1>3. PICK h2 : Held(h2, fs) /\ Summed(h2, fs) /\ Longer(h, h2, frames, x.message)
  BY <1>2, HeldSent
<1>4. InHeld(h2, g, fs, insums)
  BY <1>2, <1>3, InSent
<1>5. Len(fs) = Len(frames) + 1
  BY SequenceFacts
<1> HIDE DEF fs
<1>6. \A j \in Ids : h2[Len(fs)][j] = h[Len(frames)][j]
  BY <1>3, <1>5 DEF Longer
<1>7. OutHeld(h2, fs, outsums, parts)
  BY <1>2, <1>6 DEF OutHeld
<1>8. SumsHold(h2, g, fs, insums, outsums, parts)
  BY <1>3, <1>4, <1>7 DEF SumsHold
<1> QED
  BY <1>8 DEF Sums, fs

\* _on_message and verify_message: what is made of an item of the queue.
CallItem(item) == item.err = Ok /\ item.value.type \in CHECKSUM_MSG_TYPES
Verified(item, sums) == verify_checksum(item.value, SumOf(sums, item.value.id))
SumsWith(item, sums) ==
  IF ~CallItem(item) THEN sums
  ELSE IF Verified(item, sums) THEN After(sums, item.value) ELSE Without(sums, item.value.id)
ResultOf(item, sums) ==
  IF CallItem(item) /\ ~Verified(item, sums) THEN Fail("InvalidChecksumError")
  ELSE [err |-> item.err, value |-> item.value, rest |-> None]

\* What the k-th frame may come to.
Outcome(frames, k, r) ==
  /\ r.err # StreamClosed.err
  /\ ~frames[k].damaged =>
       \/ r.err = Ok /\ r.value = AsRead(frames[k].message)
       \/ /\ r.err = "InvalidChecksumError"
          /\ \E j \in 1 .. k : OfCall(frames, frames[k].message.id, j) /\ frames[j].damaged

LEMMA ResultFields ==
  ASSUME NEW item, NEW sums
  PROVE  IF CallItem(item) /\ ~Verified(item, sums) THEN ResultOf(item, sums).err = "InvalidChecksumError"
         ELSE ResultOf(item, sums).err = item.err /\ ResultOf(item, sums).value = item.value
<1>1. CASE CallItem(item) /\ ~Verified(item, sums)
  BY <1>1 DEF ResultOf, Fail
<1>2. CASE ~(CallItem(item) /\ ~Verified(item, sums))
  BY <1>2 DEF ResultOf
<1> QED
  BY <1>1, <1>2

LEMMA SumsReceived ==
  ASSUME NEW frames, Sequence(frames), NEW g \in 0 .. Len(frames), g < Len(frames),
         NEW insums, NEW outsums, NEW parts, Sums(g, frames, insums, outsums, parts),
         ReadsBack(frames[g + 1].message, frames[g + 1].body, frames[g + 1].damaged),
         NEW item, item = BodyRead(frames[g + 1].body)
  PROVE  /\ Sums(g + 1, frames, SumsWith(item, insums), outsums, parts)
         /\ Outcome(frames, g + 1, ResultOf(item, insums))
<1>1. PICK h : SumsHold(h, g, frames, insums, outsums, parts)
  BY DEF Sums
<1>2. /\ Held(h, frames) /\ Summed(h, frames) /\ OutHeld(h, frames, outsums, parts)
      /\ InHeld(h, g, frames, insums)
  BY <1>1 DEF SumsHold
<1> DEFINE k == g + 1
           m == frames[k].message
           v == item.value
           ins == SumsWith(item, insums)
           r == ResultOf(item, insums)
<1>3. k \in 1 .. Len(frames) /\ k - 1 = g
  BY SequenceFacts
<1>4. /\ item.err # StreamClosed.err
      /\ ~frames[k].damaged => item.err = Ok /\ v = AsRead(m)
      /\ item.err = Ok => v.type = m.type /\ v.id = m.id
  BY DEF ReadsBack
<1>5. \/ r.err = "InvalidChecksumError" /\ CallItem(item) /\ ~Verified(item, insums)
      \/ r.err = item.err /\ r.value = v /\ ~(CallItem(item) /\ ~Verified(item, insums))
  BY ResultFields
<1>6. m.type \in CHECKSUM_MSG_TYPES =>
        m.id \in Ids /\ Formed(m) /\ verify_checksum(m, SlotSum(h[g][m.id]))
  BY <1>2, <1>3 DEF Summed
<1>7. \A id \in Ids : h[k][id] = IF OfCall(frames, id, k) THEN NextSlot(m) ELSE h[g][id]
  BY <1>2, <1>3 DEF Held
<1>8. \A id : Undamaged(frames, id, k) => Undamaged(frames, id, g) /\ (OfCall(frames, id, k) => ~frames[k].damaged)
  <2>1. \A i \in 1 .. g : i \in 1 .. k
    OBVIOUS
  <2>2. k \in 1 .. k
    BY <1>3
  <2> QED
    BY <2>1, <2>2 DEF Undamaged
<1>9. DOMAIN insums \subseteq Ids /\ \A id \in Ids : Undamaged(frames, id, g) => Slot(insums, id) = h[g][id]
  BY <1>2 DEF InHeld
<1> HIDE DEF v, m, k, r, ins
\* A part of a call no earlier part of which was damaged is accepted.
<1>10. ASSUME CallItem(item), ~frames[k].damaged, Undamaged(frames, m.id, g)
       PROVE  Verified(item, insums)
  <2>1. /\ v = AsRead(m) /\ v.id = m.id /\ m.type \in CHECKSUM_MSG_TYPES /\ m.id \in Ids
        /\ Formed(m) /\ verify_checksum(m, SlotSum(h[g][m.id]))
    BY <1>4, <1>6, <1>10 DEF CallItem, v
  <2>2. SumOf(insums, m.id) = SlotSum(h[g][m.id])
    BY <1>9, <1>10, <2>1, SlotSumOf
  <2>3. verify_checksum(AsRead(m), SumOf(insums, m.id))
    BY <2>1, <2>2, ReadSame
  <2> QED
    BY <2>1, <2>3 DEF Verified, v
<1>11. Outcome(frames, k, r)
  <2>1. r.err # StreamClosed.err
    <3>1. StreamClosed.err = "StreamClosedError"
      BY DEF StreamClosed, Fail
    <3>2. CASE r.err = "InvalidChecksumError"
      BY <3>1, <3>2
    <3>3. CASE r.err = item.err
      BY <1>4, <3>3
    <3> QED
      BY <1>5, <3>2, <3>3
  <2>2. ASSUME ~frames[k].damaged
        PROVE  \/ r.err = Ok /\ r.value = AsRead(frames[k].message)
               \/ /\ r.err = "InvalidChecksumError"
                  /\ \E j \in 1 .. k : OfCall(frames, frames[k].message.id, j) /\ frames[j].damaged
    <3>1. CASE r.err = item.err /\ r.value = v
      BY <1>4, <2>2, <3>1 DEF m
    <3>2. CASE r.err = "InvalidChecksumError" /\ CallItem(item) /\ ~Verified(item, insums)
      <4>1. ~Undamaged(frames, m.id, g)
        BY <1>10, <2>2, <3>2
      <4>2. PICK j \in 1 .. g : OfCall(frames, m.id, j) /\ frames[j].damaged
        BY <4>1 DEF Undamaged
      <4>3. j \in 1 .. k
        BY DEF k
      <4> QED
        BY <3>2, <4>2, <4>3 DEF m
    <3> QED
      BY <1>5, <3>1, <3>2
  <2> QED
    BY <2>1, <2>2 DEF Outcome
<1>12. DOMAIN ins \subseteq Ids
  <2>1. CASE ~CallItem(item)
    BY <1>9, <2>1 DEF ins, SumsWith
  <2>2. CASE CallItem(item)
    <3>1. v.id \in Ids
      BY <1>4, <1>6, <2>2 DEF CallItem, v
    <3>2. /\ DOMAIN After(insums, v) \subseteq DOMAIN insums \cup {v.id}
          /\ DOMAIN Without(insums, v.id) \subseteq DOMAIN insums
      BY SlotAfter, SlotWithout
    <3>3. ins = After(insums, v) \/ ins = Without(insums, v.id)
      BY <2>2 DEF ins, SumsWith, v
    <3> QED
      BY <1>9, <3>1, <3>2, <3>3
  <2> QED
    BY <2>1, <2>2
<1>13. ASSUME NEW id \in Ids, Undamaged(frames, id, k)
       PROVE  Slot(ins, id) = h[k][id]
  <2>1. Slot(insums, id) = h[g][id] /\ (OfCall(frames, id, k) => ~frames[k].damaged)
    BY <1>8, <1>9, <1>13
  <2>2. CASE OfCall(frames, id, k)
    <3>1. m.type \in CHECKSUM_MSG_TYPES /\ m.id = id /\ ~frames[k].damaged
      BY <2>1, <2>2 DEF OfCall, m
    <3>2. v = AsRead(m) /\ CallItem(item) /\ Formed(m)
      BY <1>4, <1>6, <3>1 DEF CallItem, v
    <3>3. Verified(item, insums)
      BY <1>8, <1>10, <1>13, <3>1, <3>2
    <3>4. ins = After(insums, m)
      BY <3>2, <3>3, ReadSame DEF ins, SumsWith, v
    <3>5. Slot(ins, id) = NextSlot(m)
      BY <3>1, <3>4, SlotAfter
    <3> QED
      BY <1>7, <2>2, <3>5
  <2>3. CASE ~OfCall(frames, id, k)
    <3>1. h[k][id] = h[g][id]
      BY <1>7, <2>3
    <3>2. CASE ~CallItem(item)
      BY <2>1, <3>1, <3>2 DEF ins, SumsWith
    <3>3. CASE CallItem(item)
      <4>1. v.id # id
        BY <1>4, <2>3, <3>3 DEF CallItem, OfCall, v, m
      <4>2. ins = After(insums, v) \/ ins = Without(insums, v.id)
        BY <3>3 DEF ins, SumsWith, v
      <4>3. /\ Slot(After(insums, v), id) = Slot(insums, id)
            /\ Slot(Without(insums, v.id), id) = Slot(insums, id)
        BY <4>1, SlotAfter, SlotWithout
      <4> QED
        BY <2>1, <3>1, <4>2, <4>3
    <3> QED
      BY <3>2, <3>3
  <2> QED
    BY <2>2, <2>3
<1>14. InHeld(h, k, frames, ins)
  BY <1>12, <1>13 DEF InHeld
<1>15. SumsHold(h, k, frames, ins, outsums, parts)
  BY <1>2, <1>14 DEF SumsHold
<1> QED
  BY <1>11, <1>15 DEF Sums, k, r, ins

-----------------------------------------------------------------------------
(* Results: the frames read are in the queue or have been got.             *)

\* Of the first f frames, which were read, the first g have been got and the others are in
\* the queue, followed by the errors of a stream that has ended, the first of which is the
\* last that is got.
Items(f, g, frames, gots, q, waits, stuck) ==
  /\ Sequence(gots) /\ Sequence(q) /\ f \in 0 .. Len(frames) /\ g \in 0 .. f
  /\ \A k \in 1 .. g : Outcome(frames, k, gots[k])
  /\ \/ /\ Len(gots) = g /\ f - g <= Len(q)
        /\ \A i \in 1 .. Len(q) : q[i] = IF i <= f - g THEN BodyRead(frames[g + i].body) ELSE StreamClosed
        /\ f - g < Len(q) => stuck
     \/ Len(gots) = g + 1 /\ gots[g + 1].err = StreamClosed.err /\ g = f /\ ~waits /\ stuck

LEMMA ItemsTyped ==
  ASSUME NEW f, NEW g, NEW frames, NEW gots, NEW q, NEW waits, NEW stuck, Sequence(frames),
         Items(f, g, frames, gots, q, waits, stuck)
  PROVE  /\ f \in Nat /\ g \in Nat /\ g <= f /\ f <= Len(frames) /\ Len(frames) \in Nat
         /\ f \in 0 .. Len(frames) /\ g \in 0 .. Len(frames)
         /\ Len(gots) \in Nat /\ Len(q) \in Nat
<1>1. Len(frames) \in Nat /\ Len(gots) \in Nat /\ Len(q) \in Nat
  BY SequenceFacts DEF Items
<1>2. f \in 0 .. Len(frames) /\ g \in 0 .. f
  BY DEF Items
<1> QED
  BY <1>1, <1>2

\* _enqueue
LEMMA ItemsSent ==
  ASSUME NEW f, NEW g, NEW frames, NEW gots, NEW q, NEW waits, Sequence(frames),
         Items(f, g, frames, gots, q, waits, FALSE), NEW x
  PROVE  Items(f, g, Append(frames, x), gots, q, waits, FALSE)
<1> DEFINE fs == Append(frames, x)
<1>1. Len(fs) = Len(frames) + 1 /\ \A i \in 1 .. Len(frames) : fs[i] = frames[i]
  BY SequenceFacts
<1>2. /\ f \in Nat /\ g \in Nat /\ g <= f /\ f <= Len(frames) /\ Len(frames) \in Nat
      /\ Len(gots) \in Nat /\ Len(q) \in Nat
  BY ItemsTyped
<1> HIDE DEF fs
<1>3. ASSUME NEW k \in 1 .. g
      PROVE  Outcome(fs, k, gots[k])
  <2>1. Outcome(frames, k, gots[k])
    BY DEF Items
  <2>2. k \in 1 .. Len(frames) /\ \A j \in 1 .. k : j \in 1 .. Len(frames)
    BY <1>2
  <2> QED
    BY <1>1, <2>1, <2>2 DEF Outcome, OfCall
<1>4. ASSUME NEW i \in 1 .. Len(q)
      PROVE  q[i] = IF i <= f - g THEN BodyRead(fs[g + i].body) ELSE StreamClosed
  <2>1. q[i] = IF i <= f - g THEN BodyRead(frames[g + i].body) ELSE StreamClosed
    BY DEF Items
  <2>2. i <= f - g => g + i \in 1 .. Len(frames)
    BY <1>2
  <2> QED
    BY <1>1, <2>1, <2>2
<1>5. f \in 0 .. Len(fs) /\ g \in 0 .. f
  BY <1>1, <1>2
<1>6. Items(f, g, fs, gots, q, waits, FALSE)
  BY <1>3, <1>4, <1>5 DEF Items
<1> QED
  BY <1>6 DEF fs

\* While nothing is stuck, the end of the stream has not been queued.
LEMMA ItemsUnstuck ==
  ASSUME NEW f, NEW g, NEW frames, NEW gots, NEW q, NEW waits, NEW stuck,
         Items(f, g, frames, gots, q, waits, FALSE)
  PROVE  Items(f, g, frames, gots, q, waits, stuck)
  BY DEF Items

\* on_body, then keep_reading
LEMMA ItemsRead ==
  ASSUME NEW f, NEW g, NEW frames, NEW gots, NEW q, NEW waits, Sequence(frames),
         Items(f, g, frames, gots, q, waits, FALSE), f < Len(frames)
  PROVE  Items(f + 1, g, frames, gots, Append(q, BodyRead(frames[f + 1].body)), waits, FALSE)
<1> DEFINE item == BodyRead(frames[f + 1].body)
           q2 == Append(q, item)
<1>1. /\ Sequence(q2) /\ Len(q2) = Len(q) + 1 /\ q2[Len(q) + 1] = item
      /\ \A i \in 1 .. Len(q) : q2[i] = q[i]
  BY SequenceFacts DEF Items
<1>2. /\ f \in Nat /\ g \in Nat /\ g <= f /\ f <= Len(frames) /\ Len(frames) \in Nat
      /\ Len(gots) \in Nat /\ Len(q) \in Nat
  BY ItemsTyped
<1>3. Len(gots) = g /\ f - g <= Len(q) /\ ~(f - g < Len(q))
  BY DEF Items
<1>4. Len(q) = f - g
  BY <1>2, <1>3
<1> HIDE DEF q2
<1>5. ASSUME NEW i \in 1 .. Len(q2)
      PROVE  q2[i] = IF i <= f + 1 - g THEN BodyRead(frames[g + i].body) ELSE StreamClosed
  <2>1. i <= f + 1 - g /\ (i \in 1 .. Len(q) \/ i = Len(q) + 1)
    BY <1>1, <1>2, <1>4
  <2>2. CASE i \in 1 .. Len(q)
    <3>1. i <= f - g
      BY <1>2, <1>4, <2>2
    <3>2. q[i] = BodyRead(frames[g + i].body)
      BY <2>2, <3>1 DEF Items
    <3> QED
      BY <1>1, <2>1, <2>2, <3>2
  <2>3. CASE i = Len(q) + 1
    <3>1. g + i = f + 1
      BY <1>2, <1>4, <2>3
    <3> QED
      BY <1>1, <2>1, <2>3, <3>1
  <2> QED
    BY <2>1, <2>2, <2>3
<1>6. f + 1 \in 0 .. Len(frames) /\ g \in 0 .. f + 1 /\ f + 1 - g <= Len(q2) /\ ~(f + 1 - g < Len(q2))
  BY <1>1, <1>2, <1>4
<1>7. Sequence(gots) /\ \A k \in 1 .. g : Outcome(frames, k, gots[k])
  BY DEF Items
<1>8. Items(f + 1, g, frames, gots, q2, waits, FALSE)
  BY <1>1, <1>3, <1>5, <1>6, <1>7 DEF Items
<1> QED
  BY <1>8 DEF q2

\* The stream has ended.
LEMMA ItemsEnd ==
  ASSUME NEW f, NEW g, NEW frames, NEW gots, NEW q, NEW waits, Sequence(frames), NEW stuck,
         Items(f, g, frames, gots, q, waits, stuck)
  PROVE  Items(f, g, frames, gots, Append(q, StreamClosed), waits, TRUE)
<1> DEFINE q2 == Append(q, StreamClosed)
<1>1. /\ Sequence(q2) /\ Len(q2) = Len(q) + 1 /\ q2[Len(q) + 1] = StreamClosed
      /\ \A i \in 1 .. Len(q) : q2[i] = q[i]
  BY SequenceFacts DEF Items
<1>2. /\ f \in Nat /\ g \in Nat /\ g <= f /\ Len(q) \in Nat
  BY ItemsTyped
<1> HIDE DEF q2
<1>3. CASE /\ Len(gots) = g /\ f - g <= Len(q)
           /\ \A i \in 1 .. Len(q) : q[i] = IF i <= f - g THEN BodyRead(frames[g + i].body) ELSE StreamClosed
  <2>1. ASSUME NEW i \in 1 .. Len(q2)
        PROVE  q2[i] = IF i <= f - g THEN BodyRead(frames[g + i].body) ELSE StreamClosed
    <3>1. i \in 1 .. Len(q) \/ (i = Len(q) + 1 /\ ~(i <= f - g))
      <4>1. Len(q2) = Len(q) + 1
        BY <1>1
      <4>2. f - g <= Len(q)
        BY <1>3
      <4> QED
        BY <1>2, <4>1, <4>2
    <3> QED
      BY <1>1, <1>3, <3>1
  <2>2. f - g <= Len(q2)
    BY <1>1, <1>2, <1>3
  <2>3. Items(f, g, frames, gots, q2, waits, TRUE)
    BY <1>1, <1>3, <2>1, <2>2 DEF Items
  <2> QED
    BY <2>3 DEF q2
<1>4. CASE Len(gots) = g + 1 /\ gots[g + 1].err = StreamClosed.err /\ g = f /\ ~waits
  <2>1. Items(f, g, frames, gots, q2, waits, TRUE)
    BY <1>1, <1>4 DEF Items
  <2> QED
    BY <2>1 DEF q2
<1> QED
  BY <1>3, <1>4 DEF Items

\* _on_message
LEMMA ItemsGot ==
  ASSUME NEW f, NEW g, NEW frames, NEW gots, NEW q, Sequence(frames), NEW stuck,
         Items(f, g, frames, gots, q, TRUE, stuck), q # <<>>, NEW r
  PROVE  /\ Len(gots) = g
         /\ g < f => /\ Head(q) = BodyRead(frames[g + 1].body)
                     /\ Outcome(frames, g + 1, r) => Items(f, g + 1, frames, Append(gots, r), Tail(q), FALSE, stuck)
         /\ g = f => /\ Head(q) = StreamClosed
                     /\ r.err = StreamClosed.err => Items(f, g, frames, Append(gots, r), Tail(q), FALSE, stuck)
<1> DEFINE g2 == Append(gots, r)
           q2 == Tail(q)
<1>1. Sequence(gots) /\ Sequence(q) /\ g \in 0 .. f /\ f \in 0 .. Len(frames)
      /\ \A k \in 1 .. g : Outcome(frames, k, gots[k])
  BY DEF Items
<1>2. /\ f \in Nat /\ g \in Nat /\ g <= f /\ f <= Len(frames) /\ Len(frames) \in Nat
      /\ Len(gots) \in Nat /\ Len(q) \in Nat
  BY ItemsTyped
<1>3. /\ Len(gots) = g /\ f - g <= Len(q)
      /\ \A i \in 1 .. Len(q) : q[i] = IF i <= f - g THEN BodyRead(frames[g + i].body) ELSE StreamClosed
      /\ f - g < Len(q) => stuck
  BY DEF Items
<1>4. /\ Sequence(q2) /\ Len(q2) = Len(q) - 1 /\ Head(q) = q[1] /\ Len(q) >= 1
      /\ \A i \in 1 .. Len(q) - 1 : q2[i] = q[i + 1]
  BY <1>1, SequenceFacts
<1>5. /\ Sequence(g2) /\ Len(g2) = g + 1 /\ g2[g + 1] = r /\ \A i \in 1 .. g : g2[i] = gots[i]
  BY <1>1, <1>3, SequenceFacts
<1> HIDE DEF g2, q2
<1>6. 1 \in 1 .. Len(q)
  BY <1>2, <1>4
<1>7. ASSUME g < f
      PROVE  /\ Head(q) = BodyRead(frames[g + 1].body)
             /\ Outcome(frames, g + 1, r) => Items(f, g + 1, frames, g2, q2, FALSE, stuck)
  <2>1. 1 <= f - g
    BY <1>2, <1>7
  <2>2. Head(q) = BodyRead(frames[g + 1].body)
    BY <1>3, <1>4, <1>6, <2>1
  <2>3. ASSUME NEW i \in 1 .. Len(q2)
        PROVE  q2[i] = IF i <= f - (g + 1) THEN BodyRead(frames[g + 1 + i].body) ELSE StreamClosed
    <3>1. /\ i + 1 \in 1 .. Len(q) /\ i \in 1 .. Len(q) - 1 /\ g + (i + 1) = g + 1 + i
          /\ (i + 1 <= f - g) = (i <= f - (g + 1))
      BY <1>2, <1>4
    <3>2. q2[i] = q[i + 1]
      BY <1>4, <3>1
    <3>3. q[i + 1] = IF i + 1 <= f - g THEN BodyRead(frames[g + (i + 1)].body) ELSE StreamClosed
      BY <1>3, <3>1
    <3> QED
      BY <3>1, <3>2, <3>3
  <2>4. f - (g + 1) <= Len(q2) /\ (f - (g + 1) < Len(q2) => stuck) /\ g + 1 \in 0 .. f
    <3>1. (f - (g + 1) < Len(q2)) = (f - g < Len(q)) /\ f - (g + 1) <= Len(q2) /\ g + 1 \in 0 .. f
      BY <1>2, <1>3, <1>4, <1>7
    <3> QED
      BY <1>3, <3>1
  <2>5. ASSUME Outcome(frames, g + 1, r), NEW k \in 1 .. g + 1
        PROVE  Outcome(frames, k, g2[k])
    <3>1. k \in 1 .. g \/ k = g + 1
      BY <1>2
    <3> QED
      BY <1>1, <1>5, <2>5, <3>1
  <2> QED
    BY <1>1, <1>4, <1>5, <2>2, <2>3, <2>4, <2>5 DEF Items
<1>8. ASSUME g = f
      PROVE  /\ Head(q) = StreamClosed
             /\ r.err = StreamClosed.err => Items(f, g, frames, g2, q2, FALSE, stuck)
  <2>1. ~(1 <= f - g) /\ f - g < Len(q)
    BY <1>2, <1>4, <1>8
  <2>2. Head(q) = StreamClosed /\ stuck
    BY <1>3, <1>4, <1>6, <2>1
  <2>3. \A k \in 1 .. g : Outcome(frames, k, g2[k])
    BY <1>1, <1>5
  <2> QED
    BY <1>1, <1>4, <1>5, <1>8, <2>2, <2>3 DEF Items
<1> QED
  BY <1>3, <1>7, <1>8 DEF g2, q2

-----------------------------------------------------------------------------
(* The invariant.                                                          *)

\* Every frame is read back.
AllSound(frames) ==
  \A i \in 1 .. Len(frames) : ReadsBack(frames[i].message, frames[i].body, frames[i].damaged)

WireBase ==
  /\ Sequence(sent) /\ Len(sent) <= MaxFrames
  /\ broken \in BOOLEAN /\ filling \in BOOLEAN /\ reading \in BOOLEAN /\ waiting \in BOOLEAN
  /\ \A i \in 1 .. Len(sent) : sent[i].sound => ReadsBack(sent[i].message, sent[i].body, sent[i].damaged)

\* No more of the stream will be read: ReadFails is all that the reader can do.
Stuck == broken /\ Len(stream) < IF size = 0 THEN size_width ELSE BodySize

WireState(f, g) ==
  /\ Items(f, g, sent, got, queue, waiting, Stuck)
  /\ Unread(f, sent, stream, size, broken)
  /\ Sums(g, sent, in_checksum, out_checksum, part)

WireInv == WireBase /\ (AllSound(sent) => \E f, g : WireState(f, g))

LEMMA SoundFramed ==
  ASSUME NEW frames, Sequence(frames), AllSound(frames)
  PROVE  Framed(frames)
  BY DEF Framed, AllSound, ReadsBack

LEMMA WireInitInv == WireInit => WireInv
<1> SUFFICES ASSUME WireInit PROVE WireInv
  OBVIOUS
<1>1. /\ part = [id \in Ids |-> 1] /\ sent = <<>> /\ out_checksum = <<>> /\ in_checksum = <<>>
      /\ stream = <<>> /\ broken = FALSE /\ size = 0 /\ filling = FALSE /\ reading = FALSE
      /\ queue = <<>> /\ waiting = FALSE /\ got = <<>>
  BY DEF WireInit
<1>2. Sequence(<<>>) /\ Len(<<>>) = 0
  <2>1. <<>> \in Seq({}) /\ Len(<<>>) = 0
    OBVIOUS
  <2> QED
    BY <2>1 DEF Sequence
<1>3. WireBase
  <2>1. MaxFrames \in Nat
    BY CallsAssumption
  <2>2. Sequence(sent) /\ Len(sent) = 0
    BY <1>1, <1>2
  <2>3. \A i \in 1 .. Len(sent) : FALSE
    BY <2>2
  <2>4. Len(sent) <= MaxFrames
    BY <2>1, <2>2
  <2> QED
    BY <1>1, <2>2, <2>3, <2>4 DEF WireBase
<1>4. Items(0, 0, <<>>, <<>>, <<>>, FALSE, Stuck)
  BY <1>2 DEF Items
<1>5. Unread(0, <<>>, <<>>, 0, FALSE)
  <2> DEFINE pos == [i \in {1} |-> 0]
  <2>1. pos[1] = 0 /\ 0 + 1 = 1
    OBVIOUS
  <2> HIDE DEF pos
  <2>2. Laid(pos, <<>>, <<>>, 0, 0)
    <3>1. \A i \in 0 + 1 .. 0 + 1 : i = 1
      OBVIOUS
    <3>2. \A i \in 0 + 1 .. 0 : FALSE
      OBVIOUS
    <3> QED
      BY <1>2, <2>1, <3>1, <3>2 DEF Laid
  <2>3. StreamHolds(pos, 0, <<>>, <<>>, 0, FALSE)
    BY <1>2, <2>1, <2>2 DEF StreamHolds
  <2> QED
    BY <2>3 DEF Unread
<1>6. Sums(0, <<>>, <<>>, <<>>, part)
  <2> DEFINE h == [i \in {0} |-> [id \in Ids |-> <<>>]]
  <2>1. \A id \in Ids : h[0][id] = <<>>
    OBVIOUS
  <2> HIDE DEF h
  <2>2. \A i \in 1 .. 0 : FALSE
    OBVIOUS
  <2>3. Held(h, <<>>) /\ Summed(h, <<>>)
    BY <1>2, <2>1, <2>2 DEF Held, Summed
  <2>4. DOMAIN <<>> = {}
    OBVIOUS
  <2>5. \A id : Slot(<<>>, id) = <<>>
    BY <2>4 DEF Slot
  <2>6. part \in [Ids -> Nat]
    BY <1>1
  <2>7. OutHeld(h, <<>>, <<>>, part)
    BY <1>2, <2>1, <2>4, <2>5, <2>6 DEF OutHeld
  <2>8. InHeld(h, 0, <<>>, <<>>)
    BY <2>1, <2>4, <2>5 DEF InHeld
  <2>9. SumsHold(h, 0, <<>>, <<>>, <<>>, part)
    BY <2>3, <2>7, <2>8 DEF SumsHold
  <2> QED
    BY <2>9 DEF Sums
<1>7. WireState(0, 0)
  BY <1>1, <1>4, <1>5, <1>6 DEF WireState
<1> QED
  BY <1>3, <1>7 DEF WireInv

\* A frame that was sent.
Added(x, m) ==
  /\ sent' = Append(sent, x) /\ stream' = stream \o Frame(x.body) /\ x.message = m
  /\ x.sound = ReadsBack(x.message, x.body, x.damaged)

LEMMA SendFrameAdds ==
  ASSUME NEW m, NEW planned, NEW body, NEW damaged, SendFrame(m, planned, body, damaged)
  PROVE  \E x : Added(x, m)
<1> DEFINE sound == ReadsBack(m, body, damaged)
<1>1. stream' = stream \o Frame(body)
      /\ sent' = Append(sent, [message |-> m, body |-> body, damaged |-> damaged,
                               planned |-> planned, sound |-> sound])
  BY DEF SendFrame
<1> HIDE DEF sound
<1> DEFINE x == [message |-> m, body |-> body, damaged |-> damaged, planned |-> planned, sound |-> sound]
<1>2. x.message = m /\ x.body = body /\ x.damaged = damaged /\ x.sound = sound
  OBVIOUS
<1>3. sent' = Append(sent, x)
  BY <1>1
<1> HIDE DEF x
<1>4. Added(x, m)
  BY <1>1, <1>2, <1>3 DEF Added, sound
<1> QED
  BY <1>4

LEMMA EnqueueAdds ==
  ASSUME NEW m, NEW planned, Enqueue(m, planned)
  PROVE  \E x : Added(x, m)
<1>1. CASE SendFrame(m, planned, BodyOf(m), FALSE)
  BY <1>1, SendFrameAdds
<1>2. CASE \E body \in Harm(BodyOf(m), Cuts) \ {BodyOf(m)} : SendFrame(m, planned, body, TRUE)
  BY <1>2, SendFrameAdds
<1> QED
  BY <1>1, <1>2 DEF Enqueue

LEMMA AddedBase ==
  ASSUME WireBase, NEW x, NEW m, Added(x, m), Len(sent) < MaxFrames,
         UNCHANGED <<broken, filling, reading, waiting>>
  PROVE  /\ WireBase'
         /\ AllSound(sent') => AllSound(sent) /\ x.body \in Seq(Bytes) /\ size_width + Len(x.body) <= MaxSize
<1>1. Sequence(sent) /\ Len(sent) \in Nat /\ MaxFrames \in Nat
  BY SequenceFacts, CallsAssumption DEF WireBase
<1>2. sent' = Append(sent, x)
  BY DEF Added
<1>3. /\ Sequence(sent') /\ Len(sent') = Len(sent) + 1 /\ sent'[Len(sent) + 1] = x
      /\ \A i \in 1 .. Len(sent) : sent'[i] = sent[i]
  BY <1>1, <1>2, SequenceFacts
<1>4. \A i \in 1 .. Len(sent') : i \in 1 .. Len(sent) \/ i = Len(sent) + 1
  BY <1>1, <1>3
<1>5. x.sound => ReadsBack(x.message, x.body, x.damaged)
  BY DEF Added
<1>6. WireBase'
  <2>1. Len(sent') <= MaxFrames
    BY <1>1, <1>3
  <2>2. \A i \in 1 .. Len(sent') :
          sent'[i].sound => ReadsBack(sent'[i].message, sent'[i].body, sent'[i].damaged)
    BY <1>3, <1>4, <1>5 DEF WireBase
  <2>3. broken' \in BOOLEAN /\ filling' \in BOOLEAN /\ reading' \in BOOLEAN /\ waiting' \in BOOLEAN
    BY DEF WireBase
  <2> QED
    BY <1>3, <2>1, <2>2, <2>3 DEF WireBase
<1>7. ASSUME AllSound(sent')
      PROVE  AllSound(sent) /\ x.body \in Seq(Bytes) /\ size_width + Len(x.body) <= MaxSize
  <2>1. (\A i \in 1 .. Len(sent) : i \in 1 .. Len(sent')) /\ Len(sent) + 1 \in 1 .. Len(sent')
    BY <1>1, <1>3
  <2>2. AllSound(sent)
    BY <1>3, <1>7, <2>1 DEF AllSound
  <2>3. ReadsBack(x.message, x.body, x.damaged)
    BY <1>3, <1>7, <2>1 DEF AllSound
  <2> QED
    BY <2>2, <2>3 DEF ReadsBack
<1> QED
  BY <1>6, <1>7

\* What an action that sends does to the state, but for the sums.
LEMMA AddedState ==
  ASSUME WireBase, NEW x, NEW m, Added(x, m), ~broken, NEW f, NEW g, WireState(f, g), AllSound(sent),
         x.body \in Seq(Bytes), size_width + Len(x.body) <= MaxSize,
         UNCHANGED <<broken, size, queue, waiting, got>>
  PROVE  /\ Items(f, g, sent', got', queue', waiting', Stuck')
         /\ Unread(f, sent', stream', size', broken')
<1>1. Sequence(sent) /\ sent' = Append(sent, x) /\ stream' = stream \o Frame(x.body)
  BY DEF WireBase, Added
<1>2. Items(f, g, sent, got, queue, waiting, Stuck) /\ Unread(f, sent, stream, size, broken)
  BY DEF WireState
<1>3. Stuck = FALSE /\ Stuck' = FALSE
  BY DEF Stuck
<1>4. Items(f, g, sent, got, queue, waiting, FALSE)
  BY <1>2, <1>3
<1>5. Items(f, g, sent', got, queue, waiting, FALSE)
  BY <1>1, <1>4, ItemsSent
<1>6. Items(f, g, sent', got', queue', waiting', Stuck')
  BY <1>3, <1>5
<1>7. f \in 0 .. Len(sent) /\ Framed(sent)
  BY <1>1, <1>2, ItemsTyped, SoundFramed
<1>8. Unread(f, sent', stream', size, broken)
  BY <1>1, <1>2, <1>7, UnreadSent
<1> QED
  BY <1>6, <1>8

LEMMA SendCallInv == ASSUME WireInv, NEW id \in Ids, SendCall(id) PROVE WireInv'
<1> DEFINE c == Calls[id][part[id]]
           m == generate_checksum(c, SumOf(out_checksum, id))
<1>1. /\ ~broken /\ Len(sent) < MaxFrames /\ part[id] \in 1 .. Len(Calls[id])
      /\ out_checksum' = After(out_checksum, m)
      /\ UNCHANGED <<in_checksum, broken, size, filling, reading, queue, waiting, got>>
      /\ \/ Enqueue(m, Planned(c)) /\ part' = [part EXCEPT ![id] = @ + 1]
         \/ part' = [part EXCEPT ![id] = 0] /\ UNCHANGED <<stream, sent>>
  BY DEF SendCall
<1>2. WireBase
  BY DEF WireInv
<1>3. m.id = id
  <2>1. Continues(m, id, part[id], SumOf(out_checksum, id))
    BY <1>1, Generated
  <2> QED
    BY <2>1 DEF Continues
<1>4. Sequence(sent)
  BY <1>2 DEF WireBase
<1>5. CASE Enqueue(m, Planned(c)) /\ part' = [part EXCEPT ![id] = @ + 1]
  <2>1. PICK x : Added(x, m)
    BY <1>5, EnqueueAdds
  <2>2. /\ WireBase'
        /\ AllSound(sent') => AllSound(sent) /\ x.body \in Seq(Bytes) /\ size_width + Len(x.body) <= MaxSize
    BY <1>1, <1>2, <2>1, AddedBase
  <2>3. ASSUME AllSound(sent')
        PROVE  \E f, g : WireState(f, g)'
    <3>1. AllSound(sent) /\ x.body \in Seq(Bytes) /\ size_width + Len(x.body) <= MaxSize
      BY <2>2, <2>3
    <3>2. PICK f, g : WireState(f, g)
      BY <3>1 DEF WireInv
    <3>3. /\ Items(f, g, sent', got', queue', waiting', Stuck')
          /\ Unread(f, sent', stream', size', broken')
      BY <1>1, <1>2, <2>1, <3>1, <3>2, AddedState
    <3>4. Items(f, g, sent, got, queue, waiting, Stuck) /\ Sums(g, sent, in_checksum, out_checksum, part)
      BY <3>2 DEF WireState
    <3>5. g \in 0 .. Len(sent)
      BY <1>4, <3>4, ItemsTyped
    <3>6. sent' = Append(sent, x) /\ x.message = m
      BY <2>1 DEF Added
    <3>7. Sums(g, Append(sent, x), in_checksum, After(out_checksum, x.message), [part EXCEPT ![id] = @ + 1])
      BY <1>1, <1>4, <3>4, <3>5, <3>6, SumsSent
    <3>8. Sums(g, sent', in_checksum', out_checksum', part')
      BY <1>1, <1>5, <3>6, <3>7
    <3> QED
      BY <3>3, <3>8 DEF WireState
  <2> QED
    BY <2>2, <2>3 DEF WireInv
<1>6. CASE part' = [part EXCEPT ![id] = 0] /\ UNCHANGED <<stream, sent>>
  <2>1. WireBase'
    BY <1>1, <1>2, <1>6 DEF WireBase
  <2>2. ASSUME AllSound(sent')
        PROVE  \E f, g : WireState(f, g)'
    <3>1. PICK f, g : WireState(f, g)
      BY <1>6, <2>2 DEF WireInv
    <3>2. /\ Items(f, g, sent, got, queue, waiting, Stuck) /\ Unread(f, sent, stream, size, broken)
          /\ Sums(g, sent, in_checksum, out_checksum, part)
      BY <3>1 DEF WireState
    <3>3. Stuck' = Stuck
      BY <1>1, <1>6 DEF Stuck, BodySize
    <3>4. Sums(g, sent, in_checksum, After(out_checksum, m), [part EXCEPT ![id] = 0])
      BY <1>3, <1>4, <3>2, SumsGivenUp
    <3>5. Items(f, g, sent', got', queue', waiting', Stuck') /\ Unread(f, sent', stream', size', broken')
      BY <1>1, <1>6, <3>2, <3>3
    <3>6. Sums(g, sent', in_checksum', out_checksum', part')
      BY <1>1, <1>6, <3>4
    <3> QED
      BY <3>5, <3>6 DEF WireState
  <2> QED
    BY <2>1, <2>2 DEF WireInv
<1> QED
  BY <1>1, <1>5, <1>6

LEMMA SendOtherInv == ASSUME WireInv, NEW m \in Others, SendOther(m) PROVE WireInv'
<1>1. /\ ~broken /\ Len(sent) < MaxFrames /\ Enqueue(m, Planned(m))
      /\ UNCHANGED <<part, out_checksum, in_checksum, broken, size, filling, reading, queue, waiting, got>>
  BY DEF SendOther
<1>2. WireBase /\ Sequence(sent)
  BY DEF WireInv, WireBase
<1>3. PICK x : Added(x, m)
  BY <1>1, EnqueueAdds
<1>4. /\ WireBase'
      /\ AllSound(sent') => AllSound(sent) /\ x.body \in Seq(Bytes) /\ size_width + Len(x.body) <= MaxSize
  BY <1>1, <1>2, <1>3, AddedBase
<1>5. ASSUME AllSound(sent')
      PROVE  \E f, g : WireState(f, g)'
  <2>1. AllSound(sent) /\ x.body \in Seq(Bytes) /\ size_width + Len(x.body) <= MaxSize
    BY <1>4, <1>5
  <2>2. PICK f, g : WireState(f, g)
    BY <2>1 DEF WireInv
  <2>3. /\ Items(f, g, sent', got', queue', waiting', Stuck')
        /\ Unread(f, sent', stream', size', broken')
    BY <1>1, <1>2, <1>3, <2>1, <2>2, AddedState
  <2>4. Items(f, g, sent, got, queue, waiting, Stuck) /\ Sums(g, sent, in_checksum, out_checksum, part)
    BY <2>2 DEF WireState
  <2>5. g \in 0 .. Len(sent)
    BY <1>2, <2>4, ItemsTyped
  <2>6. sent' = Append(sent, x) /\ x.message.type \notin CHECKSUM_MSG_TYPES
    BY <1>3, CallsAssumption DEF Added
  <2>7. Sums(g, Append(sent, x), in_checksum, out_checksum, part)
    BY <1>2, <2>4, <2>5, <2>6, SumsOther
  <2>8. Sums(g, sent', in_checksum', out_checksum', part')
    BY <1>1, <2>6, <2>7
  <2> QED
    BY <2>3, <2>8 DEF WireState
<1> QED
  BY <1>4, <1>5 DEF WireInv

\* The actions of the reader leave the sender's side alone.
LEMMA ReaderInv ==
  ASSUME WireInv, UNCHANGED <<part, sent, out_checksum>>, broken' \in BOOLEAN,
         filling' \in BOOLEAN, reading' \in BOOLEAN, waiting' \in BOOLEAN,
         ASSUME Sequence(sent), AllSound(sent), Framed(sent), NEW f, NEW g, WireState(f, g),
                f \in 0 .. Len(sent), g \in 0 .. Len(sent)
         PROVE  \E f2, g2 : WireState(f2, g2)'
  PROVE  WireInv'
<1>1. WireBase'
  BY DEF WireInv, WireBase
<1>2. ASSUME AllSound(sent')
      PROVE  \E f2, g2 : WireState(f2, g2)'
  <2>1. Sequence(sent) /\ AllSound(sent)
    BY <1>2 DEF WireInv, WireBase
  <2>2. PICK f, g : WireState(f, g)
    BY <2>1 DEF WireInv
  <2>3. f \in 0 .. Len(sent) /\ g \in 0 .. Len(sent)
    BY <2>1, <2>2, ItemsTyped DEF WireState
  <2> QED
    BY <2>1, <2>2, <2>3, SoundFramed
<1> QED
  BY <1>1, <1>2 DEF WireInv

LEMMA StreamClosesInv == ASSUME WireInv, StreamCloses PROVE WireInv'
<1>1. /\ ~broken /\ broken' = TRUE
      /\ UNCHANGED <<part, sent, out_checksum, in_checksum, size, filling, reading, queue, waiting, got>>
  BY DEF StreamCloses
<1>2. PICK n \in 0 .. Len(stream) : stream' = SubSeq(stream, 1, n)
  BY DEF StreamCloses
<1>3. filling' \in BOOLEAN /\ reading' \in BOOLEAN /\ waiting' \in BOOLEAN
  BY <1>1 DEF WireInv, WireBase
<1>4. ASSUME Sequence(sent), AllSound(sent), Framed(sent), NEW f, NEW g, WireState(f, g),
             f \in 0 .. Len(sent), g \in 0 .. Len(sent)
      PROVE  \E f2, g2 : WireState(f2, g2)'
  <2>1. /\ Items(f, g, sent, got, queue, waiting, Stuck) /\ Unread(f, sent, stream, size, broken)
        /\ Sums(g, sent, in_checksum, out_checksum, part)
    BY <1>4 DEF WireState
  <2>2. Stuck = FALSE
    BY <1>1 DEF Stuck
  <2>3. Items(f, g, sent, got, queue, waiting, Stuck')
    BY <2>1, <2>2, ItemsUnstuck
  <2>4. Unread(f, sent, stream', size, TRUE)
    BY <1>2, <1>4, <2>1, UnreadLost
  <2>5. /\ Items(f, g, sent', got', queue', waiting', Stuck') /\ Unread(f, sent', stream', size', broken')
        /\ Sums(g, sent', in_checksum', out_checksum', part')
    BY <1>1, <2>1, <2>3, <2>4
  <2> QED
    BY <2>5 DEF WireState
<1> QED
  BY <1>1, <1>3, <1>4, ReaderInv

LEMMA ReadSizeInv == ASSUME WireInv, ReadSize PROVE WireInv'
<1>1. /\ size = 0 /\ Len(stream) >= size_width /\ size' = SizeOf(stream)
      /\ stream' = SubSeq(stream, size_width + 1, Len(stream))
      /\ UNCHANGED <<part, sent, out_checksum, in_checksum, broken, filling, reading, queue, waiting, got>>
  BY DEF ReadSize
<1>2. broken' \in BOOLEAN /\ filling' \in BOOLEAN /\ reading' \in BOOLEAN /\ waiting' \in BOOLEAN
  BY <1>1 DEF WireInv, WireBase
<1>3. ASSUME Sequence(sent), AllSound(sent), Framed(sent), NEW f, NEW g, WireState(f, g),
             f \in 0 .. Len(sent), g \in 0 .. Len(sent)
      PROVE  \E f2, g2 : WireState(f2, g2)'
  <2>1. /\ Items(f, g, sent, got, queue, waiting, Stuck) /\ Unread(f, sent, stream, size, broken)
        /\ Sums(g, sent, in_checksum, out_checksum, part)
    BY <1>3 DEF WireState
  <2>2. Stuck = FALSE
    <3>1. Len(stream) \in Nat
      BY <1>3, <2>1, UnreadFits
    <3>2. ~(Len(stream) < size_width)
      BY <1>1, <3>1 DEF size_width
    <3> QED
      BY <1>1, <3>2 DEF Stuck
  <2>3. Items(f, g, sent, got, queue, waiting, Stuck')
    BY <2>1, <2>2, ItemsUnstuck
  <2>4. Unread(f, sent, stream', size', broken)
    BY <1>1, <1>3, <2>1, UnreadSize
  <2>5. /\ Items(f, g, sent', got', queue', waiting', Stuck') /\ Unread(f, sent', stream', size', broken')
        /\ Sums(g, sent', in_checksum', out_checksum', part')
    BY <1>1, <2>1, <2>3, <2>4
  <2> QED
    BY <2>5 DEF WireState
<1> QED
  BY <1>1, <1>2, <1>3, ReaderInv

LEMMA ReadMessageInv == ASSUME WireInv, ReadMessage PROVE WireInv'
<1> DEFINE k == size - size_width
           item == BodyRead(SubSeq(stream, 1, k))
<1>1. /\ size # 0 /\ Len(stream) >= k /\ size' = 0
      /\ queue' = Append(queue, item) /\ filling' = Filling(item) /\ reading' = (item.err = Ok)
      /\ stream' = SubSeq(stream, k + 1, Len(stream))
      /\ UNCHANGED <<part, sent, out_checksum, in_checksum, broken, waiting, got>>
  BY DEF ReadMessage, OnBody, BodySize
<1>2. broken' \in BOOLEAN /\ filling' \in BOOLEAN /\ reading' \in BOOLEAN /\ waiting' \in BOOLEAN
  <2>1. broken' \in BOOLEAN /\ waiting' \in BOOLEAN
    BY <1>1 DEF WireInv, WireBase
  <2>2. filling' = (item.err = Ok)
    BY <1>1 DEF Filling
  <2> HIDE DEF item
  <2> QED
    BY <1>1, <2>1, <2>2
<1>3. ASSUME Sequence(sent), AllSound(sent), Framed(sent), NEW f, NEW g, WireState(f, g),
             f \in 0 .. Len(sent), g \in 0 .. Len(sent)
      PROVE  \E f2, g2 : WireState(f2, g2)'
  <2>1. /\ Items(f, g, sent, got, queue, waiting, Stuck) /\ Unread(f, sent, stream, size, broken)
        /\ Sums(g, sent, in_checksum, out_checksum, part)
    BY <1>3 DEF WireState
  <2>2. Stuck = FALSE
    <3>1. Len(stream) \in Nat /\ size \in Nat
      BY <1>3, <2>1, UnreadFits
    <3>2. ~(Len(stream) < size - size_width)
      BY <1>1, <3>1 DEF size_width
    <3> QED
      BY <1>1, <3>2 DEF Stuck, BodySize
  <2>3. /\ f < Len(sent) /\ SubSeq(stream, 1, k) = sent[f + 1].body
        /\ Unread(f + 1, sent, stream', 0, broken)
    BY <1>1, <1>3, <2>1, UnreadBody
  <2>4. Items(f, g, sent, got, queue, waiting, FALSE)
    BY <2>1, <2>2
  <2>5. Items(f + 1, g, sent, got, Append(queue, BodyRead(sent[f + 1].body)), waiting, FALSE)
    BY <1>3, <2>3, <2>4, ItemsRead
  <2>6. queue' = Append(queue, BodyRead(sent[f + 1].body))
    BY <1>1, <2>3
  <2>7. Items(f + 1, g, sent, got, queue', waiting, Stuck')
    BY <2>5, <2>6, ItemsUnstuck
  <2>8. /\ Items(f + 1, g, sent', got', queue', waiting', Stuck') /\ Unread(f + 1, sent', stream', size', broken')
        /\ Sums(g, sent', in_checksum', out_checksum', part')
    BY <1>1, <2>1, <2>3, <2>7
  <2> QED
    BY <2>8 DEF WireState
<1> QED
  BY <1>1, <1>2, <1>3, ReaderInv

LEMMA ReadFailsInv == ASSUME WireInv, ReadFails PROVE WireInv'
<1>1. /\ broken /\ Len(stream) < IF size = 0 THEN size_width ELSE BodySize
      /\ queue' = Append(queue, StreamClosed) /\ filling' = FALSE /\ reading' = FALSE
      /\ UNCHANGED <<part, sent, out_checksum, in_checksum, stream, broken, size, waiting, got>>
  BY DEF ReadFails
<1>2. broken' \in BOOLEAN /\ filling' \in BOOLEAN /\ reading' \in BOOLEAN /\ waiting' \in BOOLEAN
  BY <1>1 DEF WireInv, WireBase
<1>3. ASSUME Sequence(sent), AllSound(sent), Framed(sent), NEW f, NEW g, WireState(f, g),
             f \in 0 .. Len(sent), g \in 0 .. Len(sent)
      PROVE  \E f2, g2 : WireState(f2, g2)'
  <2>1. /\ Items(f, g, sent, got, queue, waiting, Stuck) /\ Unread(f, sent, stream, size, broken)
        /\ Sums(g, sent, in_checksum, out_checksum, part)
    BY <1>3 DEF WireState
  <2>2. Stuck' = TRUE
    BY <1>1 DEF Stuck, BodySize
  <2>3. Items(f, g, sent, got, queue', waiting, TRUE)
    BY <1>1, <1>3, <2>1, ItemsEnd
  <2>4. /\ Items(f, g, sent', got', queue', waiting', Stuck') /\ Unread(f, sent', stream', size', broken')
        /\ Sums(g, sent', in_checksum', out_checksum', part')
    BY <1>1, <2>1, <2>2, <2>3
  <2> QED
    BY <2>4 DEF WireState
<1> QED
  BY <1>1, <1>2, <1>3, ReaderInv

LEMMA ReaderGetInv == ASSUME WireInv, ReaderGet PROVE WireInv'
<1>1. /\ ~Ended /\ waiting' = TRUE /\ filling' = TRUE /\ reading' = (reading \/ ~filling)
      /\ UNCHANGED <<part, sent, out_checksum, in_checksum, stream, broken, size, queue, got>>
  BY DEF ReaderGet
<1>2. broken' \in BOOLEAN /\ filling' \in BOOLEAN /\ reading' \in BOOLEAN /\ waiting' \in BOOLEAN
  BY <1>1 DEF WireInv, WireBase
<1>3. ASSUME Sequence(sent), AllSound(sent), Framed(sent), NEW f, NEW g, WireState(f, g),
             f \in 0 .. Len(sent), g \in 0 .. Len(sent)
      PROVE  \E f2, g2 : WireState(f2, g2)'
  <2>1. /\ Items(f, g, sent, got, queue, waiting, Stuck) /\ Unread(f, sent, stream, size, broken)
        /\ Sums(g, sent, in_checksum, out_checksum, part)
    BY <1>3 DEF WireState
  <2>2. Stuck' = Stuck
    BY <1>1 DEF Stuck, BodySize
  <2>3. ~(Len(got) = g + 1 /\ got[g + 1].err = StreamClosed.err)
    <3>1. SUFFICES ASSUME Len(got) = g + 1, got[g + 1].err = StreamClosed.err
                   PROVE  FALSE
      OBVIOUS
    <3>2. got # <<>>
      <4>1. Len(<<>>) = 0 /\ g + 1 # 0
        BY <1>3, SequenceFacts
      <4> QED
        BY <3>1, <4>1
    <3>3. Last(got).err = "StreamClosedError"
      BY <3>1 DEF Last, StreamClosed, Fail
    <3> QED
      BY <1>1, <3>2, <3>3 DEF Ended
  <2>4. Items(f, g, sent, got, queue, TRUE, Stuck)
    BY <2>1, <2>3 DEF Items
  <2>5. /\ Items(f, g, sent', got', queue', waiting', Stuck') /\ Unread(f, sent', stream', size', broken')
        /\ Sums(g, sent', in_checksum', out_checksum', part')
    BY <1>1, <2>1, <2>2, <2>4
  <2> QED
    BY <2>5 DEF WireState
<1> QED
  BY <1>1, <1>2, <1>3, ReaderInv

LEMMA OnMessageInv == ASSUME WireInv, OnMessage PROVE WireInv'
<1> DEFINE item == Head(queue)
           r == ResultOf(item, in_checksum)
<1>1. /\ waiting /\ queue # <<>> /\ waiting' = FALSE
      /\ got' = Append(got, r) /\ in_checksum' = SumsWith(item, in_checksum) /\ queue' = Tail(queue)
      /\ UNCHANGED <<part, sent, out_checksum, stream, broken, size, filling, reading>>
  BY DEF OnMessage, OnItem, ResultOf, SumsWith, CallItem, Verified
<1> HIDE DEF item, r
<1>2. waiting = TRUE /\ broken' \in BOOLEAN /\ filling' \in BOOLEAN /\ reading' \in BOOLEAN /\ waiting' \in BOOLEAN
  BY <1>1 DEF WireInv, WireBase
<1>3. ASSUME Sequence(sent), AllSound(sent), Framed(sent), NEW f, NEW g, WireState(f, g),
             f \in 0 .. Len(sent), g \in 0 .. Len(sent)
      PROVE  \E f2, g2 : WireState(f2, g2)'
  <2>1. /\ Items(f, g, sent, got, queue, TRUE, Stuck) /\ Unread(f, sent, stream, size, broken)
        /\ Sums(g, sent, in_checksum, out_checksum, part)
    BY <1>2, <1>3 DEF WireState
  <2>2. Stuck' = Stuck
    BY <1>1 DEF Stuck, BodySize
  <2>3. /\ g < f => /\ item = BodyRead(sent[g + 1].body)
                    /\ Outcome(sent, g + 1, r) => Items(f, g + 1, sent, got', queue', FALSE, Stuck)
        /\ g = f => /\ item = StreamClosed
                    /\ r.err = StreamClosed.err => Items(f, g, sent, got', queue', FALSE, Stuck)
    <3> DEFINE g2 == Append(got, r)
               q2 == Tail(queue)
    <3>1. queue # <<>> /\ got' = g2 /\ queue' = q2
      BY <1>1
    <3>2. /\ g < f => /\ Head(queue) = BodyRead(sent[g + 1].body)
                      /\ Outcome(sent, g + 1, r) => Items(f, g + 1, sent, g2, q2, FALSE, Stuck)
          /\ g = f => /\ Head(queue) = StreamClosed
                      /\ r.err = StreamClosed.err => Items(f, g, sent, g2, q2, FALSE, Stuck)
      BY <1>3, <2>1, <3>1, ItemsGot
    <3> HIDE DEF g2, q2
    <3> QED
      BY <3>1, <3>2 DEF item
  <2>4. g <= f /\ f <= Len(sent) /\ g \in Nat /\ f \in Nat /\ Len(sent) \in Nat
    BY <1>3, <2>1, ItemsTyped
  <2>5. CASE g < f
    <3>1. g < Len(sent) /\ g + 1 \in 1 .. Len(sent)
      BY <2>4, <2>5
    <3>2. ReadsBack(sent[g + 1].message, sent[g + 1].body, sent[g + 1].damaged)
      BY <1>3, <3>1 DEF AllSound
    <3>3. Sums(g + 1, sent, in_checksum', out_checksum, part) /\ Outcome(sent, g + 1, r)
      BY <1>1, <1>3, <2>1, <2>3, <2>5, <3>1, <3>2, SumsReceived DEF r
    <3>4. /\ Items(f, g + 1, sent', got', queue', waiting', Stuck') /\ Unread(f, sent', stream', size', broken')
          /\ Sums(g + 1, sent', in_checksum', out_checksum', part')
      BY <1>1, <2>1, <2>2, <2>3, <2>5, <3>3
    <3> QED
      BY <3>4 DEF WireState
  <2>6. CASE g = f
    <3>1. item = StreamClosed
      BY <2>3, <2>6
    <3>2. StreamClosed.err # Ok
      BY DEF StreamClosed, Fail, Ok
    <3>3. ~CallItem(item)
      BY <3>1, <3>2 DEF CallItem
    <3>4. r.err = StreamClosed.err
      BY <3>1, <3>3, ResultFields DEF r
    <3>5. in_checksum' = in_checksum
      BY <1>1, <3>3 DEF SumsWith
    <3>6. /\ Items(f, g, sent', got', queue', waiting', Stuck') /\ Unread(f, sent', stream', size', broken')
          /\ Sums(g, sent', in_checksum', out_checksum', part')
      BY <1>1, <2>1, <2>2, <2>3, <2>6, <3>4, <3>5
    <3> QED
      BY <3>6 DEF WireState
  <2> QED
    BY <2>4, <2>5, <2>6
<1> QED
  BY <1>1, <1>2, <1>3, ReaderInv

LEMMA WireNextInv == WireInv /\ [WireNext]_wireVars => WireInv'
<1> SUFFICES ASSUME WireInv, [WireNext]_wireVars PROVE WireInv'
  OBVIOUS
<1>1. CASE UNCHANGED wireVars
  <2>1. UNCHANGED <<part, sent, out_checksum, in_checksum, stream, broken, size, filling, reading, queue,
                    waiting, got>>
    BY <1>1 DEF wireVars
  <2>2. WireBase'
    BY <2>1 DEF WireInv, WireBase
  <2>3. \A f, g : WireState(f, g) => WireState(f, g)'
    BY <2>1 DEF WireState, Stuck, BodySize
  <2>4. AllSound(sent') => \E f, g : WireState(f, g)'
    BY <2>1, <2>3 DEF WireInv
  <2> QED
    BY <2>2, <2>4 DEF WireInv
<1>2. CASE WireNext
  <2>1. CASE \E id \in Ids : SendCall(id)
    BY <2>1, SendCallInv
  <2>2. CASE \E m \in Others : SendOther(m)
    BY <2>2, SendOtherInv
  <2>3. CASE StreamCloses
    BY <2>3, StreamClosesInv
  <2>4. CASE ReadSize
    BY <2>4, ReadSizeInv
  <2>5. CASE ReadMessage
    BY <2>5, ReadMessageInv
  <2>6. CASE ReadFails
    BY <2>6, ReadFailsInv
  <2>7. CASE ReaderGet
    BY <2>7, ReaderGetInv
  <2>8. CASE OnMessage
    BY <2>8, OnMessageInv
  <2> QED
    BY <1>2, <2>1, <2>2, <2>3, <2>4, <2>5, <2>6, <2>7, <2>8 DEF WireNext
<1> QED
  BY <1>1, <1>2

\* What the loop got before the end of the stream: one result for each frame.
LEMMA ResultsGot ==
  ASSUME Sequence(sent), NEW f, NEW g, WireState(f, g)
  PROVE  /\ Len(Results) = g /\ DOMAIN Results = 1 .. g
         /\ \A i \in 1 .. g : Outcome(sent, i, Results[i])
         /\ Ended => f = g /\ Stuck
<1>1. Items(f, g, sent, got, queue, waiting, Stuck)
  BY DEF WireState
<1>2. f \in Nat /\ g \in Nat /\ g <= f /\ f <= Len(sent) /\ Len(sent) \in Nat /\ Len(got) \in Nat
  BY <1>1, ItemsTyped
<1>3. PICK S : got \in Seq(S)
  BY <1>1 DEF Items, Sequence
<1>4. \A i \in 1 .. g : Outcome(sent, i, got[i])
  BY <1>1 DEF Items
<1>5. StreamClosed.err = "StreamClosedError"
  BY DEF StreamClosed, Fail
<1>6. CASE Len(got) = g
  <2>1. ~Ended
    <3>1. SUFFICES ASSUME got # <<>> PROVE Last(got).err # "StreamClosedError"
      BY DEF Ended
    <3>2. g \in 1 .. g
      BY <1>2, <1>3, <1>6, <3>1
    <3>3. Last(got) = got[g]
      BY <1>6 DEF Last
    <3> QED
      BY <1>4, <1>5, <3>2, <3>3 DEF Outcome
  <2>2. Results = got
    BY <2>1 DEF Results
  <2>3. DOMAIN got = 1 .. g
    BY <1>3, <1>6
  <2> QED
    BY <1>4, <1>6, <2>1, <2>2, <2>3
<1>7. CASE Len(got) = g + 1 /\ got[g + 1].err = StreamClosed.err /\ g = f /\ Stuck
  <2>1. got # <<>>
    <3>1. Len(<<>>) = 0 /\ g + 1 # 0
      BY <1>2
    <3> QED
      BY <1>7, <3>1
  <2>2. Ended
    <3>1. Last(got) = got[g + 1]
      BY <1>7 DEF Last
    <3> QED
      BY <1>5, <1>7, <2>1, <3>1 DEF Ended
  <2> DEFINE front == SubSeq(got, 1, g)
  <2>3. Results = front
    <3>1. Len(got) - 1 = g
      BY <1>2, <1>7
    <3> QED
      BY <2>2, <3>1 DEF Results, Front
  <2>4. Len(front) = g /\ DOMAIN front = 1 .. g /\ \A i \in 1 .. g : front[i] = got[i]
    BY <1>2, <1>3, <1>7
  <2> HIDE DEF front
  <2> QED
    BY <1>4, <1>7, <2>3, <2>4
<1> QED
  BY <1>1, <1>6, <1>7 DEF Items

LEMMA FramesDo == WireInv /\ CodecIsSound => FramesArrive
<1> SUFFICES ASSUME WireInv, CodecIsSound PROVE FramesArrive
  OBVIOUS
<1>1. WireBase /\ Sequence(sent)
  BY DEF WireInv, WireBase
<1>2. DOMAIN sent = 1 .. Len(sent) /\ Len(sent) \in Nat
  BY <1>1, SequenceFacts
<1>3. AllSound(sent)
  BY <1>1, <1>2 DEF CodecIsSound, WireBase, AllSound
<1>4. Framed(sent)
  BY <1>1, <1>3, SoundFramed
<1>5. PICK f, g : WireState(f, g)
  BY <1>3 DEF WireInv
<1>6. /\ Items(f, g, sent, got, queue, waiting, Stuck) /\ Unread(f, sent, stream, size, broken)
      /\ Sums(g, sent, in_checksum, out_checksum, part)
  BY <1>5 DEF WireState
<1>7. f \in 0 .. Len(sent) /\ g \in 0 .. Len(sent) /\ f \in Nat /\ g \in Nat /\ g <= Len(sent) /\ f <= Len(sent)
  BY <1>1, <1>6, ItemsTyped
<1>8. /\ Len(Results) = g /\ DOMAIN Results = 1 .. g
      /\ \A i \in 1 .. g : Outcome(sent, i, Results[i])
      /\ Ended => f = g /\ Stuck
  BY <1>1, <1>5, ResultsGot
<1>9. stream \in Seq(Bytes) /\ size \in 0 .. MaxSize
  BY <1>4, <1>6, <1>7, UnreadFits
<1>10. PICK h : SumsHold(h, g, sent, in_checksum, out_checksum, part)
  BY <1>6 DEF Sums
<1>11. OutHeld(h, sent, out_checksum, part) /\ InHeld(h, g, sent, in_checksum)
  BY <1>10 DEF SumsHold
<1> HIDE DEF Results, Ended
<1>12. WireTypeOK
  <2>1. \A i \in DOMAIN stream : stream[i] \in Bytes
    BY <1>9
  <2>2. {broken, filling, reading, waiting} \subseteq BOOLEAN
    BY <1>1 DEF WireBase
  <2>3. DOMAIN in_checksum \subseteq Ids /\ DOMAIN out_checksum \subseteq Ids
    BY <1>11 DEF OutHeld, InHeld
  <2>4. Len(sent) \in 0 .. MaxFrames
    BY <1>1, <1>2, CallsAssumption DEF WireBase
  <2> QED
    BY <1>9, <2>1, <2>2, <2>3, <2>4 DEF WireTypeOK
<1>13. OneForEachInOrder
  <2>1. ASSUME NEW i \in DOMAIN Results, ~sent[i].damaged
        PROVE  \/ Results[i].err = Ok /\ Results[i].value = AsRead(sent[i].message)
               \/ Results[i].err = "InvalidChecksumError" /\ Before(i) \cap Damaged # {}
    <3>1. i \in 1 .. g /\ Outcome(sent, i, Results[i])
      BY <1>8
    <3>2. CASE Results[i].err = Ok /\ Results[i].value = AsRead(sent[i].message)
      BY <3>2
    <3>3. CASE /\ Results[i].err = "InvalidChecksumError"
               /\ \E j \in 1 .. i : OfCall(sent, sent[i].message.id, j) /\ sent[j].damaged
      <4>1. PICK j \in 1 .. i : OfCall(sent, sent[i].message.id, j) /\ sent[j].damaged
        BY <3>3
      <4>2. j \in Before(i)
        BY <4>1 DEF Before, OfCall
      <4>3. j \in DOMAIN sent
        BY <1>2, <1>7, <3>1
      <4>4. j \in Damaged
        BY <4>1, <4>3 DEF Damaged
      <4> QED
        BY <3>3, <4>2, <4>4
    <3> QED
      BY <2>1, <3>1, <3>2, <3>3 DEF Outcome
  <2> QED
    BY <1>7, <1>8, <2>1 DEF OneForEachInOrder
<1>14. WholeFramesArrive
  <2>1. SUFFICES ASSUME Ended, g # Len(sent)
                 PROVE  Len(stream) < FrameLength(g + 1)
    BY <1>8 DEF WholeFramesArrive
  <2>2. f = g /\ g < Len(sent) /\ g + 1 \in 1 .. Len(sent)
    <3>1. f = g
      BY <1>8, <2>1
    <3>2. g < Len(sent) /\ g + 1 \in 1 .. Len(sent)
      <4>1. \A a, b \in Nat : a <= b /\ a # b => a < b /\ a + 1 \in 1 .. b
        OBVIOUS
      <4> QED
        BY <1>2, <1>7, <2>1, <4>1
    <3> QED
      BY <3>1, <3>2
  <2>3. Len(stream) < IF size = 0 THEN size_width ELSE BodySize
    BY <1>8, <2>1 DEF Stuck
  <2>4. Len(sent[g + 1].body) \in Nat /\ FrameLength(g + 1) = 2 + Len(sent[g + 1].body) /\ Len(stream) \in Nat
    BY <1>4, <1>9, <2>2 DEF Framed, FrameLength, size_width
  <2>5. CASE size = 0
    <3>1. Len(stream) < 2
      BY <2>3, <2>5 DEF size_width
    <3> QED
      BY <2>4, <3>1
  <2>6. CASE size # 0
    <3>1. PICK pos : StreamHolds(pos, f, sent, stream, size, broken)
      BY <1>6 DEF Unread
    <3>2. size = FrameLength(g + 1)
      BY <2>2, <2>6, <3>1 DEF StreamHolds, FrameLength
    <3>3. Len(stream) < size - 2
      BY <2>3, <2>6 DEF BodySize, size_width
    <3> QED
      BY <2>4, <3>2, <3>3
  <2> QED
    BY <2>5, <2>6
<1>15. NoSumLeaks
  <2>1. SUFFICES ASSUME NEW id \in Ids, part[id] > Len(Calls[id])
                 PROVE  /\ id \notin DOMAIN out_checksum
                        /\ /\ Len(Results) = Len(sent)
                           /\ \A i \in DOMAIN sent : sent[i].message.id = id => ~sent[i].damaged
                           => id \notin DOMAIN in_checksum
    BY DEF NoSumLeaks
  <2>2. part[id] # 0
    <3>1. Len(Calls[id]) \in Nat
      BY CallsAssumption
    <3> QED
      BY <2>1, <3>1
  <2>3. Slot(out_checksum, id) = <<>> /\ h[Len(sent)][id] = <<>>
    BY <1>11, <2>1, <2>2 DEF OutHeld
  <2>4. \A sums : Slot(sums, id) = <<>> => id \notin DOMAIN sums
    <3>1. \A x : <<x>> # <<>>
      OBVIOUS
    <3> QED
      BY <3>1 DEF Slot
  <2>5. ASSUME Len(Results) = Len(sent),
               \A i \in DOMAIN sent : sent[i].message.id = id => ~sent[i].damaged
        PROVE  id \notin DOMAIN in_checksum
    <3>1. g = Len(sent) /\ Undamaged(sent, id, g)
      BY <1>2, <1>8, <2>5 DEF Undamaged, OfCall
    <3>2. Slot(in_checksum, id) = <<>>
      BY <1>11, <2>3, <3>1 DEF InHeld
    <3> QED
      BY <2>4, <3>2
  <2> QED
    BY <2>3, <2>4, <2>5
<1> QED
  BY <1>12, <1>13, <1>14, <1>15 DEF FramesArrive

\* Wire: whatever the messages are and however they are encoded, if the codec reads back what
\* it writes (AsRead: but for empty texts), every frame gives the result it should, in its
\* turn, to the end of the stream, and no checksum outlives its call.
THEOREM FramesStayInOrder == WireSpec => [](CodecIsSound => FramesArrive)
<1>1. WireInit => WireInv
  BY WireInitInv
<1>2. WireInv /\ [WireNext]_wireVars => WireInv'
  BY WireNextInv
<1>3. WireInv => (CodecIsSound => FramesArrive)
  BY FramesDo
<1> QED
  BY <1>1, <1>2, <1>3, PTL DEF WireSpec
=============================================================================
