-------------------------------- MODULE Queue -------------------------------
(***************************************************************************)
(* tchannel._queue.Queue: an unbounded, thread-safe queue made of futures. *)
(*                                                                         *)
(* A put takes the place of the last hole under the lock and fills that    *)
(* hole in a later callback, so holes are filled in any order.  A get      *)
(* takes the place of _get under the lock, waits for the gate it found     *)
(* there to name a hole, then for that hole to be filled, and opens its    *)
(* own gate on the next hole.  get_nowait takes the same place under the   *)
(* lock, but looks at the hole after releasing it.                         *)
(***************************************************************************)
EXTENDS Naturals, Sequences

CONSTANTS
  Puts,     \* calls of put, each named by the value it carries
  Gets,     \* calls of get
  Nowaits,  \* calls of get_nowait
  Waiting, Empty, Idle  \* states of a consumer that has no value

Consumers == Gets \cup Nowaits

ASSUME QueueAssumption ==
  /\ Gets \cap Nowaits = {}
  /\ Puts \cap {Waiting, Empty, Idle} = {}
  /\ Waiting # Empty /\ Waiting # Idle /\ Empty # Idle

VARIABLES
  order,    \* puts in the order of the lock: order[h] fills hole h
  filled,   \* the holes that have been filled with a Node
  line,     \* consumers in the order of the lock
  gate,     \* gate[n]: the hole named by the future the n-th consumer found
            \* in _get, 0 while that future is empty; the last one is _get
  result    \* what each consumer has: Idle, Waiting, Empty or a value

vars == <<order, filled, line, gate, result>>

Holes == 1 .. Len(order) + 1

TypeOK ==
  /\ order \in Seq(Puts)
  /\ filled \subseteq 1 .. Len(order)
  /\ line \in Seq(Consumers)
  /\ gate \in Seq(0 .. Len(order) + 1) /\ Len(gate) = Len(line) + 1
  /\ result \in [Consumers -> Puts \cup {Idle, Waiting, Empty}]

\* The first hole is empty and _get names it.
Init ==
  /\ order = <<>> /\ filled = {}
  /\ line = <<>> /\ gate = <<1>>
  /\ result = [c \in Consumers |-> Idle]

\* put, under the lock.
Put(p) ==
  /\ \A k \in DOMAIN order : order[k] # p
  /\ order' = Append(order, p)
  /\ UNCHANGED <<filled, line, gate, result>>

\* _on_put: the callback of an earlier put fills its hole.
OnPut(h) ==
  /\ h \in 1 .. Len(order) /\ h \notin filled
  /\ filled' = filled \cup {h}
  /\ UNCHANGED <<order, line, gate, result>>

\* A consumer replaces _get by an empty future of its own.
Join(c) ==
  /\ line' = Append(line, c)
  /\ gate' = Append(gate, 0)
  /\ result' = [result EXCEPT ![c] = Waiting]
  /\ UNCHANGED <<order, filled>>

\* get, under the lock.
Get(c) ==
  /\ c \in Gets /\ result[c] = Idle
  /\ Join(c)

\* self._get is not done: some consumer still holds the place before us.
GetFuturePending == gate[Len(gate)] = 0

\* get_nowait, under the lock: it raises QueueEmpty rather than wait for the future.
GetNowait(c) ==
  /\ c \in Nowaits /\ result[c] = Idle
  /\ IF GetFuturePending
     THEN /\ result' = [result EXCEPT ![c] = Empty]
          /\ UNCHANGED <<order, filled, line, gate>>
     ELSE Join(c)

\* Mutant of NextHole: the hole that was just emptied.
NextHoleSame(h) == h
\* node.next
NextHole(h) == h + 1

\* _on_node, or the second half of get_nowait: the n-th consumer reads the node in
\* the hole its gate names and opens the next gate on the hole after it.
TakeNode(n) ==
  /\ n \in 1 .. Len(line) /\ result[line[n]] = Waiting
  /\ gate[n] \in filled
  /\ result' = [result EXCEPT ![line[n]] = order[gate[n]]]
  /\ gate' = [gate EXCEPT ![n + 1] = NextHole(gate[n])]
  /\ UNCHANGED <<order, filled, line>>

\* Mutant of RestoredHole: the unfinished hole is not restored.
RestoredHoleNone(h) == 0

RestoredHole(h) == h

\* The second half of get_nowait finds the hole unfilled: it gives the hole back.
GiveBack(n) ==
  /\ n \in 1 .. Len(line) /\ result[line[n]] = Waiting
  /\ line[n] \in Nowaits
  /\ gate[n] \notin filled
  /\ result' = [result EXCEPT ![line[n]] = Empty]
  /\ gate' = [gate EXCEPT ![n + 1] = RestoredHole(gate[n])]
  /\ UNCHANGED <<order, filled, line>>

Next ==
  \/ \E p \in Puts : Put(p)
  \/ \E h \in 1 .. Len(order) : OnPut(h)
  \/ \E c \in Gets : Get(c)
  \/ \E c \in Nowaits : GetNowait(c)
  \/ \E n \in 1 .. Len(line) : TakeNode(n) \/ GiveBack(n)

\* Every callback handed to the event loop runs, and a thread inside get_nowait
\* gets on with it.  Nobody is obliged to put or to get.
Fairness ==
  /\ WF_vars(\E h \in 1 .. Len(order) : OnPut(h))
  /\ WF_vars(\E n \in 1 .. Len(line) : TakeNode(n) \/ GiveBack(n))

Spec == Init /\ [][Next]_vars /\ Fairness

-----------------------------------------------------------------------------
(* Properties.                                                             *)

\* Number of consumers whose turn is over: the gates up to this one are open.
Served ==
  CHOOSE n \in 0 .. Len(line) :
    gate[n + 1] # 0 /\ (n = Len(line) \/ gate[n + 2] = 0)

\* The queue is a first-in first-out queue with consumers served in turn: no value
\* is lost, handed out twice or overtaken, whatever the threads' interleaving.
F == INSTANCE Fifo WITH accepted <- order, served <- Served,
                        taken <- gate[Served + 1] - 1
IsFifo == F!Spec

\* The gates are open up to some consumer and shut behind it: exactly one consumer
\* is at the head, and a consumer waits exactly while the gate it made is shut.
OneHead ==
  \E n \in 0 .. Len(line) :
    /\ \A k \in 1 .. Len(line) + 1 : gate[k] # 0 <=> k <= n + 1
    /\ \A k \in 1 .. Len(line) : result[line[k]] = Waiting <=> k > n

\* A value that was put does not stay in the queue while a consumer waits.
NobodyWaitsInVain ==
  \A c \in Consumers :
    (result[c] = Waiting /\ Len(order) >= Len(line)) ~> result[c] # Waiting
=============================================================================
