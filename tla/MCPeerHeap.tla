----------------------------- MODULE MCPeerHeap -----------------------------
(* Instances of PeerHeap and PeerChoice for TLC.                           *)
EXTENDS PeerChoice, TLC, FiniteSetsExt, SequencesExt

\* Every heap of n peers that pushing them in turn can build with ranks that call for no
\* move, after pushed calls of push_peer: the large heaps that a run from the empty heap
\* would not reach.
PushedInit(n, pushed) ==
  /\ peers = SubSeq(SetToSeq(Peers), 1, n) /\ counter = pushed
  /\ index = [p \in Peers |-> IF p \in Members THEN CHOOSE i \in 1 .. n : peers[i] = p ELSE 0]
  /\ order = index
  /\ rank \in [Peers -> Ranks]
  /\ todo = <<>>
  /\ HeapOrdered

\* All the peers and no push left, or three of them and one push left.
FullOrGrowing ==
  \/ PushedInit(Cardinality(Peers), MaxOrder)
  \/ PushedInit(3, MaxOrder - 1)

PushedSpec == FullOrGrowing /\ [][HeapNext]_heapVars
=============================================================================
