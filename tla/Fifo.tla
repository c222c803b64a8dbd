-------------------------------- MODULE Fifo --------------------------------
(***************************************************************************)
(* What tchannel._queue.Queue promises: values come out in the order in    *)
(* which they were accepted, each once, and the consumers that wait are    *)
(* served in the order in which they arrived.  A consumer that would rather*)
(* not wait may be turned away when its turn comes.                        *)
(***************************************************************************)
EXTENDS Naturals, Sequences

CONSTANTS
  Puts,     \* calls of put, each named by the value it carries
  Gets,     \* calls of get
  Nowaits,  \* calls of get_nowait
  Waiting, Empty, Idle  \* states of a consumer that has no value

VARIABLES
  accepted, \* the values put, in order
  line,     \* the consumers that have arrived, in order
  served,   \* how many of them have been dealt with
  taken,    \* how many values have been handed out
  result    \* what each consumer has: Idle, Waiting, Empty or a value

Consumers == Gets \cup Nowaits

Init ==
  /\ accepted = <<>> /\ line = <<>>
  /\ served = 0 /\ taken = 0
  /\ result = [c \in Consumers |-> Idle]

Accept(p) ==
  /\ \A k \in DOMAIN accepted : accepted[k] # p
  /\ accepted' = Append(accepted, p)
  /\ UNCHANGED <<line, served, taken, result>>

Arrive(c) ==
  /\ result[c] = Idle
  /\ line' = Append(line, c)
  /\ result' = [result EXCEPT ![c] = Waiting]
  /\ UNCHANGED <<accepted, served, taken>>

\* The consumer at the head of the line gets the oldest value.
Serve ==
  /\ served < Len(line) /\ taken < Len(accepted)
  /\ result' = [result EXCEPT ![line[served + 1]] = accepted[taken + 1]]
  /\ served' = served + 1
  /\ taken' = taken + 1
  /\ UNCHANGED <<accepted, line>>

\* A get_nowait is turned away: at once, or when it reaches the head of the line.
Refuse(c) ==
  /\ c \in Nowaits /\ result[c] = Idle
  /\ result' = [result EXCEPT ![c] = Empty]
  /\ UNCHANGED <<accepted, line, served, taken>>

TurnAway ==
  /\ served < Len(line) /\ line[served + 1] \in Nowaits
  /\ result' = [result EXCEPT ![line[served + 1]] = Empty]
  /\ served' = served + 1
  /\ UNCHANGED <<accepted, line, taken>>

Next ==
  \/ \E p \in Puts : Accept(p)
  \/ \E c \in Consumers : Arrive(c)
  \/ Serve
  \/ \E c \in Nowaits : Refuse(c)
  \/ TurnAway

vars == <<accepted, line, served, taken, result>>

Spec == Init /\ [][Next]_vars
=============================================================================
