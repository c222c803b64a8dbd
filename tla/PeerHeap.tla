------------------------------ MODULE PeerHeap ------------------------------
(***************************************************************************)
(* tchannel.peer_heap.PeerHeap over tchannel.container.heap: the binary    *)
(* heap from which a TChannel takes the peer for its next request.  Peers  *)
(* are compared by rank and then by a partly random order.                 *)
(*                                                                         *)
(* The loops of the heap run one iteration per step, so that a statement   *)
(* about them is a statement about states.  An operation leaves in todo    *)
(* what it still has to do; the next one starts when todo is empty.        *)
(* Positions count from 1 (from 0 in the code) and 0 stands for the index  *)
(* -1 of a peer that has never been in the heap.                           *)
(***************************************************************************)
EXTENDS Naturals, Sequences

CONSTANTS
  Peers,     \* Peer objects
  Ranks,     \* the ranks get_rank can return
  MaxOrder   \* bound on the heap's order counter

ASSUME HeapAssumption == Ranks \subseteq Nat /\ Ranks # {} /\ MaxOrder \in Nat

VARIABLES
  peers,     \* the heap's list
  counter,   \* the heap's order counter
  rank,      \* rank of each peer
  order,     \* order of each peer
  index,     \* index of each peer: its position in the heap
  todo       \* calls the operation in progress has still to make

heapVars == <<peers, counter, rank, order, index, todo>>

size == Len(peers)
Members == {peers[i] : i \in 1 .. size}

Tasks ==
  [f : {"up"}, i : 1 .. size] \cup [f : {"down"}, i : 1 .. size, n : 0 .. size]
    \cup [f : {"fix", "shuffle"}, p : Peers] \cup [f : {"pop"}]

\* The loops stay inside the list: none of their list accesses raises IndexError.
TypeOK ==
  /\ peers \in Seq(Peers)
  /\ counter \in 0 .. MaxOrder
  /\ rank \in [Peers -> Ranks]
  /\ order \in [Peers -> Nat]
  /\ index \in [Peers -> Nat]
  /\ todo \in Seq(Tasks)

Up(i) == [f |-> "up", i |-> i]
Down(i, n) == [f |-> "down", i |-> i, n |-> n]
Fix(p) == [f |-> "fix", p |-> p]
Shuffle(p) == [f |-> "shuffle", p |-> p]
Pop == [f |-> "pop"]

HeapInit ==
  /\ peers = <<>> /\ counter = 0
  /\ rank \in [Peers -> Ranks]
  /\ order = [p \in Peers |-> 0]
  /\ index = [p \in Peers |-> 0]
  /\ todo = <<>>

Idle == todo = <<>>
Calling(f) == todo # <<>> /\ Head(todo).f = f

Before(p, q) == IF rank[p] = rank[q] THEN order[p] < order[q] ELSE rank[p] < rank[q]

lt(i, j) == Before(peers[i], peers[j])

swap(i, j) ==
  /\ peers' = [peers EXCEPT ![i] = peers[j], ![j] = peers[i]]
  /\ index' = [index EXCEPT ![peers[i]] = j, ![peers[j]] = i]

-----------------------------------------------------------------------------
(* The operations.  Each is enabled when its arguments are in the heap's   *)
(* contract; what the peer group really passes is PeerGroup's subject.     *)

\* push_peer; then is what the caller does after heap.push.
Push(p, then) ==
  /\ counter < MaxOrder
  /\ counter' = counter + 1
  /\ \E r \in 0 .. size : order' = [order EXCEPT ![p] = counter + 1 + r]
  /\ peers' = Append(peers, p)
  /\ index' = [index EXCEPT ![p] = size + 1]
  /\ todo' = <<Up(size + 1)>> \o then
  /\ UNCHANGED rank

push_peer(p) == Push(p, <<>>)

add_and_shuffle(p) == Push(p, <<Shuffle(p)>>)

\* update_peer, once the peer has a new rank.
update_peer(p, r) ==
  /\ rank' = [rank EXCEPT ![p] = r]
  /\ todo' = <<Fix(p)>>
  /\ UNCHANGED <<peers, counter, order, index>>

pop_peer ==
  /\ size > 0
  /\ swap(1, size)
  /\ todo' = <<Down(1, size - 1), Pop>>
  /\ UNCHANGED <<counter, rank, order>>

\* Mutants of remove: the last peer goes, whoever it is; the peer that takes the place
\* is only moved down.
removeLast(i) == todo' = <<Pop>> /\ UNCHANGED <<peers, index>>
removeDownOnly(i) ==
  IF i = size
  THEN todo' = <<Pop>> /\ UNCHANGED <<peers, index>>
  ELSE swap(i, size) /\ todo' = <<Down(i, size - 1), Pop>>

remove(i) ==
  IF i = size
  THEN todo' = <<Pop>> /\ UNCHANGED <<peers, index>>
  ELSE swap(i, size) /\ todo' = <<Down(i, size - 1), Up(i), Pop>>

remove_peer(p) ==
  /\ index[p] \in 1 .. size /\ peers[index[p]] = p
  /\ remove(index[p])
  /\ UNCHANGED <<counter, rank, order>>

-----------------------------------------------------------------------------
(* The loops.                                                              *)

\* One iteration of up.
UpStep ==
  /\ Calling("up")
  /\ LET child == Head(todo).i
         parent == child \div 2
     IN  IF child > 1 /\ lt(child, parent)
         THEN swap(parent, child) /\ todo' = <<Up(parent)>> \o Tail(todo)
         ELSE todo' = Tail(todo) /\ UNCHANGED <<peers, index>>
  /\ UNCHANGED <<counter, rank, order>>

MinChild(parent, n) ==
  IF 2 * parent + 1 <= n /\ ~lt(2 * parent, 2 * parent + 1)
  THEN 2 * parent + 1 ELSE 2 * parent

\* One iteration of down.
DownStep ==
  /\ Calling("down")
  /\ LET parent == Head(todo).i
         n == Head(todo).n
         child == MinChild(parent, n)
     IN  IF 2 * parent <= n /\ lt(child, parent)
         THEN swap(parent, child) /\ todo' = <<Down(child, n)>> \o Tail(todo)
         ELSE todo' = Tail(todo) /\ UNCHANGED <<peers, index>>
  /\ UNCHANGED <<counter, rank, order>>

FixCalls(i) == <<Down(i, size), Up(i)>>

\* heap.fix
FixStep ==
  /\ Calling("fix")
  /\ todo' = FixCalls(index[Head(todo).p]) \o Tail(todo)
  /\ UNCHANGED <<peers, counter, rank, order, index>>

\* swap_order with a peer picked at random.
ShuffleStep ==
  /\ Calling("shuffle")
  /\ \E r \in 1 .. size :
       LET p1 == Head(todo).p
           p2 == peers[r]
       IN  IF p1 = p2
           THEN todo' = Tail(todo) /\ UNCHANGED order
           ELSE /\ order' = [order EXCEPT ![p1] = order[p2], ![p2] = order[p1]]
                /\ todo' = <<Fix(p1), Fix(p2)>> \o Tail(todo)
  /\ UNCHANGED <<peers, counter, rank, index>>

\* The list drops its last peer, whose index stays as it is.
PopStep ==
  /\ Calling("pop")
  /\ peers' = SubSeq(peers, 1, size - 1)
  /\ todo' = Tail(todo)
  /\ UNCHANGED <<counter, rank, order, index>>

HeapStep == UpStep \/ DownStep \/ FixStep \/ ShuffleStep \/ PopStep

HeapCall ==
  /\ Idle
  /\ \/ \E p \in Peers \ Members : push_peer(p) \/ add_and_shuffle(p)
     \/ \E p \in Members : remove_peer(p) \/ \E r \in Ranks \ {rank[p]} : update_peer(p, r)
     \/ pop_peer

HeapNext == HeapCall \/ HeapStep

HeapSpec == HeapInit /\ [][HeapNext]_heapVars

-----------------------------------------------------------------------------
(* Properties.                                                             *)

\* A peer's index is its position: update_peer and remove_peer rely on it, and swap,
\* push and pop are all that maintains it, in the middle of every loop too.
IndexIsPosition == \A i \in 1 .. size : index[peers[i]] = i

\* Between operations no peer comes before its parent, after any sequence of pushes,
\* shuffles, removals and changes of rank.
HeapOrdered == Idle => \A i \in 2 .. size : ~lt(i, i \div 2)

\* The heap is sound: the loops stay inside the list, the index attributes are right in
\* the middle of them, and the order is restored when they end.
HeapIsSound == TypeOK /\ IndexIsPosition /\ HeapOrdered
=============================================================================
