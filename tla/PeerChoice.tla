----------------------------- MODULE PeerChoice -----------------------------
(***************************************************************************)
(* heap.smallest: the search that PeerHeap.smallest_peer makes for a peer  *)
(* the caller has not tried yet.  A pure algorithm over the list of        *)
(* PeerHeap, level by level, stated against its reference: the matching    *)
(* peer that no other matching peer comes before.                          *)
(***************************************************************************)
EXTENDS PeerHeap

\* Mutant of Children: the smaller child only.
ChildrenSmaller(current) ==
  IF 2 * current <= size THEN <<MinChild(current, size)>> ELSE <<>>
\* The children of a position, the smaller one first.
Children(current) ==
  LET child1 == 2 * current
      child2 == child1 + 1
  IN  IF child2 <= size
      THEN IF lt(child2, child1) THEN <<child2, child1>> ELSE <<child1, child2>>
      ELSE IF child1 <= size THEN <<child1>> ELSE <<>>

\* The predicate holds of the first of the positions yet to be checked.
Found(items, matching) ==
  items # <<>> /\ Head(items) <= size /\ peers[Head(items)] \in matching

\* One turn of the loop, unless it is over.
Turn(items, matching) ==
  IF items = <<>> \/ Found(items, matching) THEN items
  ELSE Tail(items) \o Children(Head(items))

\* The loop, with the positions yet to be checked after each turn; 0 stands for
\* NoMatchError.  It is over after size + 1 turns, as no position is checked twice.
smallest(matching) ==
  LET items[k \in 0 .. size + 1] ==
        IF k = 0 THEN <<1>> ELSE Turn(items[k - 1], matching)
      last == items[size + 1]
  IN  IF last = <<>> THEN 0 ELSE Head(last)

smallest_peer(matching) == {peers[i] : i \in {smallest(matching)} \ {0}}

-----------------------------------------------------------------------------
(* Properties.                                                             *)

IsSmallestOf(p, matching) ==
  p \in matching /\ \A q \in Members \cap matching : ~Before(q, p)

\* What is found matches, and a matching peer is found whenever the heap holds one: a
\* retry runs out of peers only when it has tried them all.
FindsAMatch ==
  Idle => \A matching \in SUBSET Peers :
            /\ smallest_peer(matching) \subseteq Members \cap matching
            /\ (smallest_peer(matching) = {}) <=> (Members \cap matching = {})

\* With at most one peer ruled out, the peer found is the smallest of the others: the
\* first choice and the first retry go to the peer of the best rank.
FirstRetryIsSmallest ==
  Idle => \A p \in Peers : \A q \in smallest_peer(Peers \ {p}) :
            IsSmallestOf(q, Peers \ {p})

\* What a retry is given is the right peer: the search finds a peer whenever one is left,
\* and the smallest with at most one ruled out.
ChoiceIsRight == FindsAMatch /\ FirstRetryIsSmallest
=============================================================================
