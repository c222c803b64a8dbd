----------------------------- MODULE PeerProofs -----------------------------
(***************************************************************************)
(* PeerHeap keeps its order, its indices and its bounds for any number of  *)
(* peers, ranks and operations.                                            *)
(*                                                                         *)
(* In the middle of an operation the list is out of order, but only around *)
(* the peer that is on its way up or down, or, after swap_order, around    *)
(* two of them.  The invariant says for each point of each operation which *)
(* peers these are and in which direction they may have to go.             *)
(*                                                                         *)
(* A group's heap is sound as well: a removed peer that is updated moves   *)
(* nothing (Stale), a connection is in the deque of one peer (ConnInv), so *)
(* that its changes reach the rank they concern, and the peers that can be *)
(* chosen are those that stay in the list (KeptInv).                       *)
(*                                                                         *)
(* The search for a peer ends because no position is checked twice         *)
(* (Searched), and then every position was checked or a match was found.   *)
(***************************************************************************)
EXTENDS PeerGroup, PeerChoice, FiniteSetTheorems, SequenceTheorems, TLAPS

-----------------------------------------------------------------------------
(* The order, with up to two peers that may be out of it.                  *)

\* Before, for given ranks and orders.
Less(w, p, q) ==
  IF w.rank[p] = w.rank[q] THEN w.order[p] < w.order[q] ELSE w.rank[p] < w.rank[q]

LE(w, p, q) == ~Less(w, q, p)

weights == [rank |-> rank, order |-> order]

Par(i) == i \div 2

\* The peer at position i of the list x, if it is not in U, comes after its ancestors, those
\* in D aside.  Ancestors in D or U do not pass the order on, so the next one counts as well.
AfterAncestors(w, x, D, U, i) ==
  x[i] \notin U =>
    /\ x[Par(i)] \notin D => LE(w, x[Par(i)], x[i])
    /\ Par(i) > 1 /\ x[Par(i)] \in D \cup U /\ x[Par(Par(i))] \notin D =>
         LE(w, x[Par(Par(i))], x[i])
    /\ Par(Par(i)) > 1 /\ x[Par(i)] \in D \cup U /\ x[Par(Par(i))] \in D \cup U =>
         LE(w, x[Par(Par(Par(i)))], x[i])

\* The first n positions of x are in order, but for peers in D, which may have to move down,
\* and peers in U, which may have to move up.
Ord(w, x, n, D, U) == \A i \in 2 .. n : AfterAncestors(w, x, D, U, i)

\* Where u passes d on its way up it can take its place.
CanReplace(w, x, n, u, d) ==
  Less(w, u, d) => \A i \in 2 .. n : x[i] # u /\ x[Par(i)] = d => LE(w, u, x[i])

-----------------------------------------------------------------------------
(* What an operation has still to do, and what is out of order meanwhile.  *)

AtRest == todo = <<>> /\ Ord(weights, peers, size, {}, {})

Rising(k) == todo = <<Up(k)>> /\ Ord(weights, peers, size, {}, {peers[k]})

RisingFirst(k, p) == todo = <<Up(k), Shuffle(p)>> /\ Ord(weights, peers, size, {}, {peers[k]})

Shuffling(p) == todo = <<Shuffle(p)>> /\ Ord(weights, peers, size, {}, {})

FixingTwo(p, q) ==
  /\ todo = <<Fix(p), Fix(q)>> /\ p # q
  /\ \/ Ord(weights, peers, size, {p}, {q})
     \/ Ord(weights, peers, size, {q}, {p}) /\ CanReplace(weights, peers, size, p, q)

SinkingFirst(c, k, q) ==
  /\ todo = <<Down(c, size), Up(k), Fix(q)>> /\ peers[c] # q
  /\ \/ Ord(weights, peers, size, {peers[c]}, {q})
     \/ /\ c = k /\ Ord(weights, peers, size, {q}, {peers[c]})
        /\ CanReplace(weights, peers, size, peers[c], q)

RisingThenFix(k, q) ==
  /\ todo = <<Up(k), Fix(q)>>
  /\ \/ Ord(weights, peers, size, {}, {q})
     \/ /\ peers[k] # q /\ Ord(weights, peers, size, {q}, {peers[k]})
        /\ CanReplace(weights, peers, size, peers[k], q)

Fixing(p) == todo = <<Fix(p)>> /\ Ord(weights, peers, size, {p}, {p})

Sinking(c, k) ==
  /\ todo = <<Down(c, size), Up(k)>>
  /\ Ord(weights, peers, size, {peers[c]}, IF c = k THEN {peers[c]} ELSE {})

SinkingToPop(c, k) ==
  /\ todo = <<Down(c, size - 1), Up(k), Pop>>
  /\ Ord(weights, peers, size - 1, {peers[c]}, IF c = k THEN {peers[c]} ELSE {})

RisingToPop(k) == todo = <<Up(k), Pop>> /\ Ord(weights, peers, size - 1, {}, {peers[k]})

PoppingFirst(c) == todo = <<Down(c, size - 1), Pop>> /\ Ord(weights, peers, size - 1, {peers[c]}, {})

Popping == todo = <<Pop>> /\ size > 0 /\ Ord(weights, peers, size - 1, {}, {})

Progress ==
  \/ AtRest
  \/ \E k \in 1 .. size : Rising(k)
  \/ \E k \in 1 .. size, p \in Members : RisingFirst(k, p)
  \/ \E p \in Members : Shuffling(p)
  \/ \E p, q \in Members : FixingTwo(p, q)
  \/ \E c, k \in 1 .. size, q \in Members : SinkingFirst(c, k, q)
  \/ \E k \in 1 .. size, q \in Members : RisingThenFix(k, q)
  \/ \E p \in Members : Fixing(p)
  \/ \E c, k \in 1 .. size : Sinking(c, k)
  \/ \E c, k \in 1 .. size - 1 : SinkingToPop(c, k)
  \/ \E k \in 1 .. size - 1 : RisingToPop(k)
  \/ \E c \in 1 .. size : PoppingFirst(c)
  \/ Popping

\* What does not depend on how far the operation is.
Base ==
  /\ peers \in Seq(Peers) /\ counter \in 0 .. MaxOrder
  /\ rank \in [Peers -> Ranks] /\ order \in [Peers -> Nat] /\ index \in [Peers -> Nat]
  /\ IndexIsPosition

Inv == Base /\ Progress

-----------------------------------------------------------------------------
(* Positions and the order of two peers.                                   *)

LEMMA ParFacts ==
  /\ \A i \in Nat : i >= 2 => Par(i) \in Nat /\ 1 <= Par(i) /\ Par(i) < i
  /\ \A i, m \in Nat : i >= 2 /\ Par(i) = m => i = 2 * m \/ i = 2 * m + 1
  /\ \A i \in Nat : Par(i) \in Nat /\ (Par(i) > 1 => i > 1)
  /\ \A m \in Nat : m >= 1 => Par(2 * m) = m /\ Par(2 * m + 1) = m
  BY DEF Par

Ranked(w) == w.rank \in [Peers -> Ranks] /\ w.order \in [Peers -> Nat]

\* Comparing by rank and then by order is a total preorder.
LEMMA LEFacts ==
  ASSUME NEW w, Ranked(w)
  PROVE  /\ \A p, q \in Peers : Less(w, p, q) => LE(w, p, q)
         /\ \A p, q \in Peers : LE(w, p, q) \/ Less(w, q, p)
         /\ \A p, q, r \in Peers : LE(w, p, q) /\ LE(w, q, r) => LE(w, p, r)
<1>1. \A p \in Peers : w.rank[p] \in Nat /\ w.order[p] \in Nat
  BY HeapAssumption DEF Ranked
<1> QED
  BY <1>1 DEF LE, Less

\* No peer is in the list twice.
Distinct(x) == \A i, j \in DOMAIN x : x[i] = x[j] => i = j

Swapped(x, i, j) == [x EXCEPT ![i] = x[j], ![j] = x[i]]

LEMMA SwappedFacts ==
  ASSUME NEW x \in Seq(Peers), NEW a \in 1 .. Len(x), NEW b \in 1 .. Len(x)
  PROVE  /\ Swapped(x, a, b) \in Seq(Peers) /\ Len(Swapped(x, a, b)) = Len(x)
         /\ Swapped(x, a, b)[a] = x[b] /\ Swapped(x, a, b)[b] = x[a]
         /\ \A i \in 1 .. Len(x) : i # a /\ i # b => Swapped(x, a, b)[i] = x[i]
         /\ \A i \in 1 .. Len(x) : x[i] \in Peers
  BY DEF Swapped

\* The positions above a position.
LEMMA AncestorFacts ==
  ASSUME NEW n \in Nat, NEW i \in 2 .. n
  PROVE  /\ Par(i) \in 1 .. n /\ Par(i) < i /\ i \in 1 .. n
         /\ Par(i) > 1 => Par(i) \in 2 .. n /\ Par(Par(i)) \in 1 .. n /\ Par(Par(i)) < Par(i)
         /\ Par(Par(i)) > 1 =>
              /\ Par(i) > 1 /\ Par(Par(i)) \in 2 .. n
              /\ Par(Par(Par(i))) \in 1 .. n /\ Par(Par(Par(i))) < Par(Par(i))
<1> DEFINE P1 == Par(i)
           P2 == Par(P1)
           P3 == Par(P2)
<1>1. i \in Nat /\ i >= 2 /\ i <= n
  OBVIOUS
<1>2. P1 \in Nat /\ 1 <= P1 /\ P1 < i
  BY <1>1, ParFacts
<1> HIDE DEF P1
<1>3. P2 \in Nat /\ (P1 > 1 => 1 <= P2 /\ P2 < P1) /\ (P2 > 1 => P1 > 1)
  <2>1. P1 > 1 => P1 >= 2
    BY <1>2
  <2> QED
    BY <1>2, <2>1, ParFacts
<1> HIDE DEF P2
<1>4. P2 > 1 => P3 \in Nat /\ 1 <= P3 /\ P3 < P2
  <2>1. P2 > 1 => P2 >= 2
    BY <1>3
  <2> QED
    BY <1>3, <2>1, ParFacts
<1> HIDE DEF P3
<1>5. /\ P1 \in 1 .. n /\ P1 < i /\ i \in 1 .. n
      /\ P1 > 1 => P1 \in 2 .. n /\ P2 \in 1 .. n /\ P2 < P1
      /\ P2 > 1 => P1 > 1 /\ P2 \in 2 .. n /\ P3 \in 1 .. n /\ P3 < P2
  BY <1>1, <1>2, <1>3, <1>4
<1> QED
  BY <1>5 DEF P1, P2, P3

\* An iteration of down: the peer that goes down changes places with the lesser child.
LEMMA DownSwap ==
  ASSUME NEW w, Ranked(w), NEW x \in Seq(Peers), Distinct(x), NEW n \in Nat, n <= Len(x),
         NEW m \in 1 .. n, NEW c \in 2 .. n, Par(c) = m,
         NEW u, NEW U \in SUBSET {u},
         Less(w, x[c], x[m]), \A i \in 2 .. n : Par(i) = m => LE(w, x[c], x[i]),
         Ord(w, x, n, {x[m]}, U)
  PROVE  Ord(w, Swapped(x, m, c), n, {x[m]}, U \ {x[m]})
<1> DEFINE y == Swapped(x, m, c)
           d == x[m]
<1>0. /\ m \in Nat /\ c \in Nat /\ m >= 1 /\ m <= n /\ c >= 2 /\ c <= n /\ Len(x) \in Nat
      /\ m < c /\ m \in 1 .. Len(x) /\ c \in 1 .. Len(x) /\ 1 .. n \subseteq 1 .. Len(x)
  <2>1. m < c
    BY ParFacts
  <2> QED
    BY <2>1
<1>1. /\ y[m] = x[c] /\ y[c] = d
      /\ \A i \in 1 .. n : i # m /\ i # c => y[i] = x[i]
      /\ \A i \in 1 .. n : x[i] \in Peers
  BY <1>0, SwappedFacts
<1>2. \A i, j \in 1 .. n : x[i] = x[j] => i = j
  BY <1>0 DEF Distinct
<1>4. /\ LE(w, x[c], d)
      /\ \A p, q, r \in Peers : LE(w, p, q) /\ LE(w, q, r) => LE(w, p, r)
  BY <1>0, <1>1, LEFacts
<1>5. \A i \in 2 .. n : AfterAncestors(w, x, {d}, U, i)
  BY DEF Ord
<1> HIDE DEF y, d
<1> SUFFICES ASSUME NEW i \in 2 .. n PROVE AfterAncestors(w, y, {d}, U \ {d}, i)
  BY DEF Ord, y, d
<1>6. AfterAncestors(w, x, {d}, U, i) /\ AfterAncestors(w, x, {d}, U, c)
  BY <1>5
<1>7. m > 1 => AfterAncestors(w, x, {d}, U, m)
  <2>1. m > 1 => m \in 2 .. n
    BY <1>0
  <2> QED
    BY <1>5, <2>1
<1>8. Par(i) = m => LE(w, x[c], x[i])
  OBVIOUS
<1>9. Par(i) > 1 /\ Par(Par(i)) = m => LE(w, x[c], x[Par(i)])
  BY AncestorFacts
<1> DEFINE P1 == Par(i)
           P2 == Par(P1)
           P3 == Par(P2)
<1>a. /\ P1 \in 1 .. n /\ P1 < i
      /\ P1 > 1 => P2 \in 1 .. n /\ P2 < P1
      /\ P2 > 1 => P1 > 1 /\ P3 \in 1 .. n /\ P3 < P2
      /\ i \in 1 .. n
  BY AncestorFacts
<1>b. \A a : a \in U => a = u
  OBVIOUS
<1>10. CASE i = m
  <2>1. y[i] = x[c] /\ y[P1] = x[P1] /\ x[P1] # d /\ x[c] # d
    BY <1>0, <1>1, <1>2, <1>a, <1>10 DEF d
  <2>2. P1 > 1 => y[P2] = x[P2] /\ x[P2] # d /\ x[P2] # x[P1]
    BY <1>0, <1>1, <1>2, <1>a, <1>10 DEF d
  <2>3. x[c] \notin U => LE(w, x[P1], x[c]) /\ (P1 > 1 /\ x[P1] \in U => LE(w, x[P2], x[c]))
    BY <1>0, <1>6, <1>10, <2>1 DEF AfterAncestors, d
  <2> QED
    BY <1>a, <1>b, <2>1, <2>2, <2>3 DEF AfterAncestors
<1>11. CASE i = c
  BY <1>0, <1>1, <1>2, <1>a, <1>b, <1>4, <1>7, <1>11 DEF AfterAncestors, d
<1>12. CASE i # m /\ i # c /\ Par(i) = m
  BY <1>0, <1>1, <1>2, <1>a, <1>b, <1>6, <1>8, <1>12 DEF AfterAncestors, d
<1>13. CASE i # m /\ i # c /\ Par(i) = c
  BY <1>0, <1>1, <1>2, <1>a, <1>b, <1>6, <1>13 DEF AfterAncestors, d
<1>14. CASE i # m /\ i # c /\ Par(i) # m /\ Par(i) # c
  BY <1>0, <1>1, <1>2, <1>a, <1>b, <1>4, <1>6, <1>9, <1>14 DEF AfterAncestors, d
<1> QED
  BY <1>10, <1>11, <1>12, <1>13, <1>14

\* The peer that goes down has reached its place.
LEMMA DownEnds ==
  ASSUME NEW w, Ranked(w), NEW x \in Seq(Peers), Distinct(x), NEW n \in Nat, n <= Len(x),
         NEW m \in 1 .. Len(x), NEW u, NEW U \in SUBSET {u},
         \A i \in 2 .. n : Par(i) = m => LE(w, x[m], x[i]),
         Ord(w, x, n, {x[m]}, U)
  PROVE  Ord(w, x, n, {}, U)
<1> SUFFICES ASSUME NEW i \in 2 .. n PROVE AfterAncestors(w, x, {}, U, i)
  BY DEF Ord
<1>1. /\ 1 .. n \subseteq 1 .. Len(x) /\ \A j \in 1 .. n : x[j] \in Peers
      /\ \A j \in 1 .. n : x[j] = x[m] => j = m
      /\ \A j, k \in 1 .. n : x[j] = x[k] => j = k
  BY DEF Distinct
<1>2. \A p, q, r \in Peers : LE(w, p, q) /\ LE(w, q, r) => LE(w, p, r)
  BY LEFacts
<1>3. AfterAncestors(w, x, {x[m]}, U, i) /\ (Par(i) = m => LE(w, x[m], x[i]))
  BY DEF Ord
<1> DEFINE P1 == Par(i)
           P2 == Par(P1)
           P3 == Par(P2)
<1>4. /\ P1 \in 1 .. n /\ P1 < i
      /\ P1 > 1 => P2 \in 1 .. n /\ P2 < P1
      /\ P2 > 1 => P1 > 1 /\ P3 \in 1 .. n /\ P3 < P2
      /\ i \in 1 .. n
  BY AncestorFacts
<1>5. P1 > 1 /\ P2 = m => LE(w, x[m], x[P1])
  BY AncestorFacts
<1>6. \A a : a \in U => a = u
  OBVIOUS
<1> QED
  BY <1>1, <1>2, <1>3, <1>4, <1>5, <1>6 DEF AfterAncestors

\* An iteration of up: the peer that goes up changes places with its parent.
LEMMA UpSwap ==
  ASSUME NEW w, Ranked(w), NEW x \in Seq(Peers), Distinct(x), NEW n \in Nat, n <= Len(x),
         NEW k \in 2 .. n, NEW d, NEW D \in SUBSET {d}, x[k] \notin D,
         Less(w, x[k], x[Par(k)]), D # {} => CanReplace(w, x, n, x[k], d),
         Ord(w, x, n, D, {x[k]})
  PROVE  /\ Ord(w, Swapped(x, Par(k), k), n, D, {x[k]})
         /\ D # {} => CanReplace(w, Swapped(x, Par(k), k), n, x[k], d)
<1> DEFINE j == Par(k)
           y == Swapped(x, j, k)
           u == x[k]
<1>0. /\ j \in 1 .. n /\ j < k /\ k \in 1 .. n /\ Len(x) \in Nat
      /\ 1 .. n \subseteq 1 .. Len(x) /\ j \in 1 .. Len(x) /\ k \in 1 .. Len(x)
  <2>1. j \in 1 .. n /\ j < k /\ k \in 1 .. n
    BY AncestorFacts
  <2> QED
    BY <2>1
<1>1. /\ y[j] = u /\ y[k] = x[j]
      /\ \A i \in 1 .. n : i # j /\ i # k => y[i] = x[i]
      /\ \A i \in 1 .. n : x[i] \in Peers
  BY <1>0, SwappedFacts
<1>2. \A a, b \in 1 .. n : x[a] = x[b] => a = b
  BY <1>0 DEF Distinct
<1>4. /\ LE(w, u, x[j]) /\ u \in Peers
      /\ \A p, q, r \in Peers : LE(w, p, q) /\ LE(w, q, r) => LE(w, p, r)
  BY <1>0, <1>1, LEFacts
<1>5. \A i \in 2 .. n : AfterAncestors(w, x, D, {u}, i)
  BY DEF Ord
<1>c. \A a : a \in D => a = d
  OBVIOUS
<1> HIDE DEF y
<1>15. ASSUME NEW i \in 2 .. n PROVE AfterAncestors(w, y, D, {u}, i)
  <2>6. AfterAncestors(w, x, D, {u}, i) /\ AfterAncestors(w, x, D, {u}, k)
    BY <1>5
  <2>7. j > 1 => AfterAncestors(w, x, D, {u}, j)
    BY <1>0, <1>5, AncestorFacts
  <2> DEFINE P1 == Par(i)
             P2 == Par(P1)
             P3 == Par(P2)
  <2>a. /\ P1 \in 1 .. n /\ P1 < i
        /\ P1 > 1 => P2 \in 1 .. n /\ P2 < P1
        /\ P2 > 1 => P1 > 1 /\ P3 \in 1 .. n /\ P3 < P2
        /\ i \in 1 .. n
    BY AncestorFacts
  <2>b. j > 1 => Par(j) \in 1 .. n /\ Par(j) < j
    BY AncestorFacts
  <2>c. Par(j) > 1 => j > 1 /\ Par(Par(j)) \in 1 .. n /\ Par(Par(j)) < Par(j)
    BY AncestorFacts
  <2>8. P1 = j /\ x[j] \in D /\ i # k => LE(w, u, x[i])
    <3> SUFFICES ASSUME P1 = j, x[j] \in D, i # k PROVE LE(w, u, x[i])
      OBVIOUS
    <3>1. x[i] # u /\ Less(w, u, d) /\ x[j] = d
      BY <1>0, <1>2, <1>c, <2>a
    <3> QED
      BY <3>1 DEF CanReplace
  <2>10. CASE i = j
    BY <1>1, <2>10 DEF AfterAncestors
  <2>11. CASE i = k
    BY <1>0, <1>1, <1>2, <1>4, <1>c, <2>a, <2>b, <2>c, <2>7, <2>11 DEF AfterAncestors
  <2>12. CASE i # j /\ i # k /\ P1 = j
    BY <1>0, <1>1, <1>2, <1>4, <1>c, <2>a, <2>b, <2>c, <2>6, <2>7, <2>8, <2>12 DEF AfterAncestors
  <2>13. CASE i # j /\ i # k /\ P1 = k
    BY <1>0, <1>1, <1>2, <1>4, <1>c, <2>a, <2>b, <2>c, <2>6, <2>7, <2>13 DEF AfterAncestors
  <2>14. CASE i # j /\ i # k /\ P1 # j /\ P1 # k
    BY <1>0, <1>1, <1>2, <1>4, <1>c, <2>a, <2>b, <2>c, <2>6, <2>7, <2>14, SMTT(30) DEF AfterAncestors
  <2> QED
    BY <2>10, <2>11, <2>12, <2>13, <2>14
<1>16. ASSUME D # {}, Less(w, u, d), NEW i \in 2 .. n, y[i] # u, y[Par(i)] = d PROVE LE(w, u, y[i])
  <2>1. \A a \in 2 .. n : x[a] # u /\ x[Par(a)] = d => LE(w, u, x[a])
    BY <1>16 DEF CanReplace
  <2>2. AfterAncestors(w, x, D, {u}, i)
    BY <1>5
  <2>3. Par(i) \in 1 .. n /\ Par(i) < i /\ i \in 1 .. n
    BY AncestorFacts
  <2> QED
    BY <1>0, <1>1, <1>2, <1>4, <1>c, <1>16, <2>1, <2>2, <2>3 DEF AfterAncestors
<1> QED
  BY <1>15, <1>16 DEF Ord, CanReplace, y

\* The peer that goes up has reached its place.
LEMMA UpEnds ==
  ASSUME NEW w, Ranked(w), NEW x \in Seq(Peers), Distinct(x), NEW n \in Nat, n <= Len(x),
         NEW k \in 1 .. Len(x), NEW d, NEW D \in SUBSET {d},
         k \in 2 .. n => LE(w, x[Par(k)], x[k]),
         Ord(w, x, n, D, {x[k]})
  PROVE  Ord(w, x, n, D, {})
<1> SUFFICES ASSUME NEW i \in 2 .. n PROVE AfterAncestors(w, x, D, {}, i)
  BY DEF Ord
<1>1. /\ 1 .. n \subseteq 1 .. Len(x) /\ \A j \in 1 .. n : x[j] \in Peers
      /\ \A j \in 1 .. n : x[j] = x[k] => j = k
      /\ \A a, b \in 1 .. n : x[a] = x[b] => a = b
  BY DEF Distinct
<1>2. \A p, q, r \in Peers : LE(w, p, q) /\ LE(w, q, r) => LE(w, p, r)
  BY LEFacts
<1>3. AfterAncestors(w, x, D, {x[k]}, i)
  BY DEF Ord
<1> DEFINE P1 == Par(i)
           P2 == Par(P1)
           P3 == Par(P2)
<1>4. /\ P1 \in 1 .. n /\ P1 < i
      /\ P1 > 1 => P1 \in 2 .. n /\ P2 \in 1 .. n /\ P2 < P1
      /\ P2 > 1 => P1 > 1 /\ P3 \in 1 .. n /\ P3 < P2
      /\ i \in 1 .. n
  BY AncestorFacts
<1>5. P1 > 1 => AfterAncestors(w, x, D, {x[k]}, P1)
  BY <1>4 DEF Ord
<1>6. \A a : a \in D => a = d
  OBVIOUS
<1> QED
  BY <1>1, <1>2, <1>3, <1>4, <1>5, <1>6 DEF AfterAncestors

\* A list that is in order is so whatever is exempt, and so is the list without its end.
LEMMA OrdWeakens ==
  ASSUME NEW w, Ranked(w), NEW x \in Seq(Peers), NEW n \in Nat, n <= Len(x), Ord(w, x, n, {}, {})
  PROVE  \A m \in Nat : m <= n => \A D, U : Ord(w, x, m, D, U)
<1> SUFFICES ASSUME NEW m \in Nat, NEW D, NEW U, m <= n, NEW i \in 2 .. m
             PROVE  AfterAncestors(w, x, D, U, i)
  BY DEF Ord
<1>1. /\ 1 .. n \subseteq 1 .. Len(x) /\ \A j \in 1 .. n : x[j] \in Peers /\ i \in 2 .. n
  OBVIOUS
<1>2. \A p, q, r \in Peers : LE(w, p, q) /\ LE(w, q, r) => LE(w, p, r)
  BY LEFacts
<1>3. \A a \in 2 .. n : LE(w, x[Par(a)], x[a])
  BY DEF Ord, AfterAncestors
<1> DEFINE P1 == Par(i)
           P2 == Par(P1)
           P3 == Par(P2)
<1>4. /\ P1 \in 1 .. n /\ P1 < i /\ i \in 1 .. n
      /\ P1 > 1 => P1 \in 2 .. n /\ P2 \in 1 .. n /\ P2 < P1
      /\ P2 > 1 => P1 > 1 /\ P2 \in 2 .. n /\ P3 \in 1 .. n /\ P3 < P2
  BY <1>1, AncestorFacts
<1>5. /\ LE(w, x[P1], x[i])
      /\ P1 > 1 => LE(w, x[P2], x[i])
      /\ P2 > 1 => LE(w, x[P3], x[i])
  BY <1>1, <1>2, <1>3, <1>4
<1> QED
  BY <1>5, <1>4 DEF AfterAncestors

-----------------------------------------------------------------------------
(* The list of calls, and the list of peers.                               *)

\* Taking the first call off the list, and putting calls in its place.
LEMMA TodoFacts ==
  /\ \A a : /\ <<a>> # <<>> /\ Head(<<a>>) = a /\ Tail(<<a>>) = <<>>
            /\ <<a>> \o <<>> = <<a>>
  /\ \A a, b : /\ <<a, b>> # <<>> /\ Head(<<a, b>>) = a /\ Tail(<<a, b>>) = <<b>>
               /\ <<a>> \o <<b>> = <<a, b>> /\ <<a, b>> \o <<>> = <<a, b>>
  /\ \A a, b, c : /\ <<a, b, c>> # <<>> /\ Head(<<a, b, c>>) = a
                  /\ Tail(<<a, b, c>>) = <<b, c>>
                  /\ <<a>> \o <<b, c>> = <<a, b, c>> /\ <<a, b>> \o <<c>> = <<a, b, c>>
<1>1. ASSUME NEW a
      PROVE  /\ <<a>> # <<>> /\ Head(<<a>>) = a /\ Tail(<<a>>) = <<>>
             /\ <<a>> \o <<>> = <<a>>
  OBVIOUS
<1>2. ASSUME NEW a, NEW b
      PROVE  /\ <<a, b>> # <<>> /\ Head(<<a, b>>) = a /\ Tail(<<a, b>>) = <<b>>
             /\ <<a>> \o <<b>> = <<a, b>> /\ <<a, b>> \o <<>> = <<a, b>>
  <2>1. <<a>> \o <<b>> = Append(<<a>>, b)
    OBVIOUS
  <2>2. <<a, b>> = Append(<<a>>, b)
    OBVIOUS
  <2>3. <<a, b>> # <<>> /\ Head(<<a, b>>) = a /\ Tail(<<a, b>>) = <<b>>
    OBVIOUS
  <2>4. <<a, b>> \o <<>> = <<a, b>>
    OBVIOUS
  <2> QED
    BY <2>1, <2>2, <2>3, <2>4
<1>3. ASSUME NEW a, NEW b, NEW c
      PROVE  /\ <<a, b, c>> # <<>> /\ Head(<<a, b, c>>) = a
             /\ Tail(<<a, b, c>>) = <<b, c>>
             /\ <<a>> \o <<b, c>> = <<a, b, c>> /\ <<a, b>> \o <<c>> = <<a, b, c>>
  <2>1. <<b, c>> = Append(<<b>>, c) /\ <<a, b, c>> = Append(<<a, b>>, c)
    OBVIOUS
  <2>2. <<a>> \o Append(<<b>>, c) = Append(<<a>> \o <<b>>, c)
    OBVIOUS
  <2>3. <<a, b>> \o <<c>> = Append(<<a, b>>, c)
    OBVIOUS
  <2>4. <<a>> \o <<b, c>> = <<a, b, c>> /\ <<a, b>> \o <<c>> = <<a, b, c>>
    BY <1>2, <2>1, <2>2, <2>3, Zenon
  <2>5. <<a, b, c>> # <<>> /\ Head(<<a, b, c>>) = a /\ Tail(<<a, b, c>>) = <<b, c>>
    OBVIOUS
  <2> QED
    BY <2>4, <2>5
<1> QED
  BY <1>1, <1>2, <1>3

\* The calls on the list stay inside the heap.
LEMMA ProgressType ==
  ASSUME peers \in Seq(Peers), Progress
  PROVE  todo \in Seq(Tasks)
<1>1. /\ size \in Nat /\ Members \subseteq Peers
      /\ \A k \in 1 .. size : Up(k) \in Tasks
      /\ \A c \in 1 .. size, n \in 0 .. size : Down(c, n) \in Tasks
      /\ \A p \in Peers : Fix(p) \in Tasks /\ Shuffle(p) \in Tasks
      /\ Pop \in Tasks
  BY DEF size, Members, Tasks, Up, Down, Fix, Shuffle, Pop
<1>2. size \in 0 .. size /\ 1 .. size - 1 \subseteq 1 .. size /\ (size > 0 => size - 1 \in 0 .. size)
  BY <1>1
<1>3. /\ \A a, b, c \in Tasks : <<a>> \in Seq(Tasks) /\ <<a, b>> \in Seq(Tasks) /\ <<a, b, c>> \in Seq(Tasks)
      /\ <<>> \in Seq(Tasks)
  OBVIOUS
<1> HIDE DEF size, Members, Tasks
<1>4. ASSUME AtRest \/ Popping PROVE todo \in Seq(Tasks)
  BY <1>1, <1>3, <1>4 DEF AtRest, Popping
<1>5. ASSUME NEW k \in 1 .. size, Rising(k) \/ RisingToPop(k) PROVE todo \in Seq(Tasks)
  BY <1>1, <1>3, <1>5 DEF Rising, RisingToPop
<1>6. ASSUME NEW k \in 1 .. size, NEW p \in Members, RisingFirst(k, p) \/ RisingThenFix(k, p)
      PROVE  todo \in Seq(Tasks)
  BY <1>1, <1>3, <1>6 DEF RisingFirst, RisingThenFix
<1>7. ASSUME NEW p \in Members, Shuffling(p) \/ Fixing(p) PROVE todo \in Seq(Tasks)
  BY <1>1, <1>3, <1>7 DEF Shuffling, Fixing
<1>8. ASSUME NEW p \in Members, NEW q \in Members, FixingTwo(p, q) PROVE todo \in Seq(Tasks)
  BY <1>1, <1>3, <1>8 DEF FixingTwo
<1>9. ASSUME NEW c \in 1 .. size, NEW k \in 1 .. size, NEW q \in Members, SinkingFirst(c, k, q)
      PROVE  todo \in Seq(Tasks)
  BY <1>1, <1>2, <1>3, <1>9 DEF SinkingFirst
<1>10. ASSUME NEW c \in 1 .. size, NEW k \in 1 .. size,
              Sinking(c, k) \/ SinkingToPop(c, k) \/ PoppingFirst(c)
       PROVE  todo \in Seq(Tasks)
  <2>1. size - 1 \in 0 .. size
    BY <1>1
  <2> QED
    BY <1>1, <1>2, <1>3, <1>10, <2>1 DEF Sinking, SinkingToPop, PoppingFirst
<1> QED
  BY <1>2, <1>4, <1>5, <1>6, <1>7, <1>8, <1>9, <1>10 DEF Progress

LEMMA BaseFacts ==
  ASSUME Base
  PROVE  /\ Ranked(weights) /\ Distinct(peers) /\ size \in Nat /\ Members \subseteq Peers
         /\ size = Len(peers) /\ peers \in Seq(Peers)
         /\ \A i \in 1 .. size : peers[i] \in Members
         /\ \A p \in Members : index[p] \in 1 .. size /\ peers[index[p]] = p
<1>1. /\ peers \in Seq(Peers) /\ size = Len(peers)
      /\ rank \in [Peers -> Ranks] /\ order \in [Peers -> Nat]
      /\ \A i \in 1 .. size : index[peers[i]] = i
  BY DEF Base, IndexIsPosition, size
<1>2. size \in Nat /\ DOMAIN peers = 1 .. size /\ \A i \in 1 .. size : peers[i] \in Peers
  BY <1>1
<1>3. /\ Members \subseteq Peers /\ \A i \in 1 .. size : peers[i] \in Members
      /\ \A p \in Members : \E i \in 1 .. size : p = peers[i]
  BY <1>2 DEF Members
<1>4. Distinct(peers)
  BY <1>1, <1>2 DEF Distinct
<1>5. \A p \in Members : index[p] \in 1 .. size /\ peers[index[p]] = p
  BY <1>1, <1>3
<1>6. Ranked(weights)
  BY <1>1 DEF Ranked, weights
<1> QED
  BY <1>1, <1>2, <1>3, <1>4, <1>5, <1>6

\* swap keeps the indices right.
LEMMA SwapStep ==
  ASSUME Base, NEW a \in 1 .. size, NEW b \in 1 .. size, swap(a, b),
         UNCHANGED <<counter, rank, order>>
  PROVE  Base' /\ peers' = Swapped(peers, a, b) /\ size' = size /\ Members' = Members
<1>1. /\ peers \in Seq(Peers) /\ size = Len(peers) /\ a \in 1 .. Len(peers) /\ b \in 1 .. Len(peers)
      /\ peers' = Swapped(peers, a, b) /\ index \in [Peers -> Nat]
      /\ index' = [index EXCEPT ![peers[a]] = b, ![peers[b]] = a]
      /\ \A i \in 1 .. Len(peers) : index[peers[i]] = i /\ peers[i] \in Peers
  BY DEF swap, Swapped, Base, size, IndexIsPosition
<1>2. /\ peers' \in Seq(Peers) /\ Len(peers') = Len(peers)
      /\ peers'[a] = peers[b] /\ peers'[b] = peers[a]
      /\ \A i \in 1 .. Len(peers) : i # a /\ i # b => peers'[i] = peers[i]
  BY <1>1, SwappedFacts
<1>3. \A i \in 1 .. Len(peers) : index'[peers'[i]] = i
  <2> SUFFICES ASSUME NEW i \in 1 .. Len(peers) PROVE index'[peers'[i]] = i
    OBVIOUS
  <2>1. CASE i = a
    BY <1>1, <1>2, <2>1
  <2>2. CASE i = b
    BY <1>1, <1>2, <2>2
  <2>3. CASE i # a /\ i # b
    BY <1>1, <1>2, <2>3
  <2> QED
    BY <2>1, <2>2, <2>3
<1>4. index' \in [Peers -> Nat]
  BY <1>1
<1>5. Members' = Members
  <2>1. \A i \in 1 .. Len(peers) : peers'[i] \in Members /\ peers[i] \in Members'
    BY <1>1, <1>2 DEF Members, size
  <2> QED
    BY <1>2, <2>1 DEF Members, size
<1> QED
  BY <1>1, <1>2, <1>3, <1>4, <1>5 DEF Base, IndexIsPosition, size

-----------------------------------------------------------------------------
(* One iteration of each loop.                                             *)

\* The first call on the list is what happens next.
LEMMA OnlyStep ==
  ASSUME HeapNext, todo # <<>>
  PROVE  /\ \A k : Head(todo) = Up(k) => UpStep
         /\ \A c, n : Head(todo) = Down(c, n) => DownStep
         /\ \A p : Head(todo) = Fix(p) => FixStep
         /\ \A p : Head(todo) = Shuffle(p) => ShuffleStep
         /\ Head(todo) = Pop => PopStep
<1>1. HeapStep
  BY DEF HeapNext, HeapCall, Idle
<1>2. /\ \A k : Up(k).f = "up" /\ \A c, n : Down(c, n).f = "down"
      /\ \A p : Fix(p).f = "fix" /\ Shuffle(p).f = "shuffle" /\ Pop.f = "pop"
  BY DEF Up, Down, Fix, Shuffle, Pop
<1> QED
  BY <1>1, <1>2, ZenonT(30) DEF HeapStep, UpStep, DownStep, FixStep, ShuffleStep, PopStep, Calling

LEMMA BeforeIsLess == \A p, q : Before(p, q) <=> Less(weights, p, q)
  BY DEF Before, Less, weights

Swaps(a, b) ==
  /\ peers' = Swapped(peers, a, b)
  /\ peers'[a] = peers[b] /\ peers'[b] = peers[a]

UpMoves(k) ==
  /\ k \in 2 .. size /\ Par(k) \in 1 .. size
  /\ Less(weights, peers[k], peers[Par(k)])
  /\ Swaps(Par(k), k)
  /\ todo' = <<Up(Par(k))>> \o Tail(todo)

UpStops(k) ==
  /\ k > 1 => LE(weights, peers[Par(k)], peers[k])
  /\ peers' = peers
  /\ todo' = Tail(todo)

LEMMA UpIteration ==
  ASSUME Base, NEW k \in 1 .. size, todo # <<>>, Head(todo) = Up(k), HeapNext
  PROVE  /\ Base' /\ size' = size /\ Members' = Members /\ weights' = weights
         /\ UpMoves(k) \/ UpStops(k)
<1>1. UpStep /\ Head(todo).i = k
  BY OnlyStep DEF Up
<1>2. UNCHANGED <<counter, rank, order>> /\ weights' = weights
  BY <1>1 DEF UpStep, weights
<1>3. CASE k > 1 /\ lt(k, k \div 2)
  <2>1. /\ swap(Par(k), k) /\ todo' = <<Up(Par(k))>> \o Tail(todo)
        /\ Less(weights, peers[k], peers[Par(k)])
    BY <1>1, <1>3, BeforeIsLess DEF UpStep, Par, lt
  <2>2. size \in Nat /\ k \in 2 .. size
    BY <1>3, BaseFacts
  <2>3. Par(k) \in 1 .. size
    BY <2>2, AncestorFacts
  <2>4. Base' /\ peers' = Swapped(peers, Par(k), k) /\ size' = size /\ Members' = Members
    BY <1>2, <2>1, <2>2, <2>3, SwapStep
  <2>5. peers'[Par(k)] = peers[k] /\ peers'[k] = peers[Par(k)]
    <3>1. peers \in Seq(Peers) /\ Par(k) \in 1 .. Len(peers) /\ k \in 1 .. Len(peers)
      BY <2>2, <2>3, BaseFacts
    <3> QED
      BY <2>4, <3>1, SwappedFacts
  <2> QED
    BY <1>2, <2>1, <2>2, <2>3, <2>4, <2>5 DEF UpMoves, Swaps
<1>4. CASE ~(k > 1 /\ lt(k, k \div 2))
  <2>1. todo' = Tail(todo) /\ UNCHANGED <<peers, index>>
    BY <1>1, <1>4 DEF UpStep
  <2>2. k > 1 => LE(weights, peers[Par(k)], peers[k])
    BY <1>4, BeforeIsLess DEF Par, lt, LE
  <2>3. Base' /\ size' = size /\ Members' = Members
    BY <1>2, <2>1 DEF Base, IndexIsPosition, size, Members
  <2> QED
    BY <1>2, <2>1, <2>2, <2>3 DEF UpStops
<1> QED
  BY <1>3, <1>4

DownMoves(c, n, e) ==
  /\ c \in 1 .. n /\ Par(e) = c
  /\ Less(weights, peers[e], peers[c])
  /\ \A i \in 2 .. n : Par(i) = c => LE(weights, peers[e], peers[i])
  /\ Swaps(c, e)
  /\ todo' = <<Down(e, n)>> \o Tail(todo)

DownStops(c, n) ==
  /\ \A i \in 2 .. n : Par(i) = c => LE(weights, peers[c], peers[i])
  /\ peers' = peers
  /\ todo' = Tail(todo)

LEMMA DownIteration ==
  ASSUME Base, NEW c \in 1 .. size, NEW n \in 0 .. size, todo # <<>>,
         Head(todo) = Down(c, n), HeapNext
  PROVE  /\ Base' /\ size' = size /\ Members' = Members /\ weights' = weights
         /\ (\E e \in 2 .. n : DownMoves(c, n, e)) \/ DownStops(c, n)
<1>1. DownStep /\ Head(todo).i = c /\ Head(todo).n = n
  BY OnlyStep DEF Down
<1>2. UNCHANGED <<counter, rank, order>> /\ weights' = weights
  BY <1>1 DEF DownStep, weights
<1>3. /\ size \in Nat /\ size = Len(peers) /\ peers \in Seq(Peers) /\ Ranked(weights)
      /\ c \in Nat /\ c >= 1 /\ c <= size /\ n \in Nat /\ n <= size
      /\ \A i \in 1 .. size : peers[i] \in Peers
  BY BaseFacts
<1> DEFINE e == MinChild(c, n)
<1>4. ASSUME 2 * c <= n
      PROVE  /\ e \in 2 .. n /\ e \in 1 .. size /\ Par(e) = c /\ c \in 1 .. n
             /\ \A i \in 2 .. n : Par(i) = c => LE(weights, peers[e], peers[i])
  <2>1. e = 2 * c \/ (e = 2 * c + 1 /\ 2 * c + 1 <= n)
    BY DEF MinChild
  <2>2. e \in 2 .. n /\ e \in 1 .. size /\ c \in 1 .. n
    BY <1>3, <1>4, <2>1
  <2>3. Par(e) = c
    BY <1>3, <2>1, ParFacts
  <2>4. ASSUME NEW i \in 2 .. n, Par(i) = c PROVE LE(weights, peers[e], peers[i])
    <3>1. i = 2 * c \/ i = 2 * c + 1
      BY <1>3, <2>4, ParFacts
    <3>2. i \in 1 .. size /\ 2 * c \in 1 .. size
      BY <1>3, <1>4
    <3>3. \A p \in Peers : LE(weights, p, p)
      BY <1>3, LEFacts
    <3>4. CASE 2 * c + 1 <= n
      <4>1. 2 * c + 1 \in 1 .. size
        BY <1>3, <3>4
      <4>2. /\ ~lt(2 * c, 2 * c + 1) => e = 2 * c + 1
            /\ lt(2 * c, 2 * c + 1) => e = 2 * c
        BY <3>4 DEF MinChild
      <4>3. /\ ~lt(2 * c, 2 * c + 1) => LE(weights, peers[2 * c + 1], peers[2 * c])
            /\ lt(2 * c, 2 * c + 1) => LE(weights, peers[2 * c], peers[2 * c + 1])
        BY <1>3, <3>2, <4>1, LEFacts, BeforeIsLess DEF lt, LE
      <4> QED
        BY <1>3, <3>1, <3>2, <3>3, <4>1, <4>2, <4>3
    <3>5. CASE ~(2 * c + 1 <= n)
      <4>1. i = 2 * c /\ e = 2 * c
        BY <1>3, <2>4, <3>1, <3>5 DEF MinChild
      <4> QED
        BY <1>3, <3>2, <3>3, <4>1
    <3> QED
      BY <3>4, <3>5
  <2> QED
    BY <2>2, <2>3, <2>4
<1>5. CASE 2 * c <= n /\ lt(e, c)
  <2>1. /\ swap(c, e) /\ todo' = <<Down(e, n)>> \o Tail(todo)
        /\ Less(weights, peers[e], peers[c])
    BY <1>1, <1>5, BeforeIsLess DEF DownStep, lt
  <2> HIDE DEF e
  <2>2. Base' /\ peers' = Swapped(peers, c, e) /\ size' = size /\ Members' = Members
    BY <1>2, <1>4, <1>5, <2>1, SwapStep
  <2>3. peers'[c] = peers[e] /\ peers'[e] = peers[c]
    BY <1>3, <1>4, <1>5, <2>2, SwappedFacts
  <2>4. DownMoves(c, n, e)
    BY <1>4, <1>5, <2>1, <2>2, <2>3 DEF DownMoves, Swaps
  <2> QED
    BY <1>2, <1>4, <1>5, <2>2, <2>4
<1>6. CASE ~(2 * c <= n /\ lt(e, c))
  <2>1. todo' = Tail(todo) /\ UNCHANGED <<peers, index>>
    BY <1>1, <1>6 DEF DownStep
  <2>2. Base' /\ size' = size /\ Members' = Members
    BY <1>2, <2>1 DEF Base, IndexIsPosition, size, Members
  <2>3. ASSUME NEW i \in 2 .. n, Par(i) = c PROVE LE(weights, peers[c], peers[i])
    <3>0. i \in Nat /\ i >= 2 /\ i <= n
      BY <1>3
    <3>a. i = 2 * c \/ i = 2 * c + 1
      BY <1>3, <2>3, <3>0, ParFacts
    <3>1. 2 * c <= n
      BY <1>3, <3>0, <3>a
    <3>2. LE(weights, peers[c], peers[e]) /\ LE(weights, peers[e], peers[i]) /\ e \in 1 .. size
      BY <1>4, <1>6, <2>3, <3>1, BeforeIsLess DEF lt, LE
    <3> HIDE DEF e
    <3> QED
      BY <1>3, <3>2, LEFacts
  <2> QED
    BY <1>2, <2>1, <2>2, <2>3 DEF DownStops
<1> QED
  BY <1>5, <1>6

-----------------------------------------------------------------------------
(* Up on the way, with nothing else out of order.                          *)

\* The peer that goes up is still the only one that is out of order, or it has arrived.
LEMMA UpAlone ==
  ASSUME Base, NEW n \in 0 .. size, NEW k \in 1 .. n, todo # <<>>, Head(todo) = Up(k),
         HeapNext, Ord(weights, peers, n, {}, {peers[k]})
  PROVE  /\ Base' /\ size' = size /\ Members' = Members
         /\ \/ /\ todo' = Tail(todo)
               /\ Ord(weights', peers', n, {}, {})
            \/ \E j \in 1 .. n : /\ todo' = <<Up(j)>> \o Tail(todo)
                                 /\ Ord(weights', peers', n, {}, {peers'[j]})
<1>1. /\ Ranked(weights) /\ Distinct(peers) /\ peers \in Seq(Peers) /\ n \in Nat
      /\ n <= Len(peers) /\ k \in 1 .. size /\ k \in 1 .. Len(peers) /\ size = Len(peers)
  BY BaseFacts
<1>2. /\ Base' /\ size' = size /\ Members' = Members /\ weights' = weights
      /\ UpMoves(k) \/ UpStops(k)
  BY <1>1, UpIteration
<1>3. CASE UpMoves(k)
  <2>1. k \in 2 .. n
    BY <1>1, <1>3 DEF UpMoves
  <2>2. Ord(weights, Swapped(peers, Par(k), k), n, {}, {peers[k]})
    BY <1>1, <1>3, <2>1, UpSwap DEF UpMoves
  <2>3. Par(k) \in 1 .. n
    BY <1>1, <2>1, AncestorFacts
  <2> QED
    BY <1>2, <1>3, <2>2, <2>3 DEF UpMoves, Swaps
<1>4. CASE UpStops(k)
  <2>1. k \in 2 .. n => LE(weights, peers[Par(k)], peers[k])
    BY <1>4 DEF UpStops
  <2>2. Ord(weights, peers, n, {}, {})
    BY <1>1, <2>1, UpEnds
  <2> QED
    BY <1>2, <1>4, <2>2 DEF UpStops
<1> QED
  BY <1>2, <1>3, <1>4

\* The peer that goes down is still the only one that is out of order, or it has arrived.
\* As long as it has not moved, it may have to go up instead.
LEMMA DownAlone ==
  ASSUME Base, NEW n \in 0 .. size, NEW c \in 1 .. size, todo # <<>>, Head(todo) = Down(c, n),
         HeapNext, NEW U \in SUBSET {peers[c]}, Ord(weights, peers, n, {peers[c]}, U)
  PROVE  /\ Base' /\ size' = size /\ Members' = Members
         /\ \/ /\ todo' = Tail(todo) /\ peers' = peers
               /\ Ord(weights', peers', n, {}, U)
            \/ \E e \in 2 .. n : /\ e # c /\ c \in 1 .. n
                                 /\ todo' = <<Down(e, n)>> \o Tail(todo)
                                 /\ Ord(weights', peers', n, {peers'[e]}, {})
<1>1. /\ Ranked(weights) /\ Distinct(peers) /\ peers \in Seq(Peers) /\ n \in Nat
      /\ n <= Len(peers) /\ c \in 1 .. Len(peers) /\ size = Len(peers)
  BY BaseFacts
<1>2. /\ Base' /\ size' = size /\ Members' = Members /\ weights' = weights
      /\ (\E e \in 2 .. n : DownMoves(c, n, e)) \/ DownStops(c, n)
  BY DownIteration
<1>3. ASSUME NEW e \in 2 .. n, DownMoves(c, n, e)
      PROVE  /\ e # c /\ c \in 1 .. n
             /\ todo' = <<Down(e, n)>> \o Tail(todo)
             /\ Ord(weights', peers', n, {peers'[e]}, {})
  <2>1. Ord(weights, Swapped(peers, c, e), n, {peers[c]}, U \ {peers[c]})
    BY <1>1, <1>3, DownSwap DEF DownMoves
  <2>2. U \ {peers[c]} = {}
    OBVIOUS
  <2>3. Ord(weights, Swapped(peers, c, e), n, {peers[c]}, {})
    BY <2>1, <2>2
  <2>4. e # c
    BY <1>1, <1>3, AncestorFacts DEF DownMoves
  <2> QED
    BY <1>2, <1>3, <2>3, <2>4 DEF DownMoves, Swaps
<1>4. CASE DownStops(c, n)
  <2>1. Ord(weights, peers, n, {}, U)
    BY <1>1, <1>4, DownEnds DEF DownStops
  <2> QED
    BY <1>2, <1>4, <2>1 DEF DownStops
<1> QED
  BY <1>2, <1>3, <1>4

-----------------------------------------------------------------------------
(* What the operations do to the order.                                    *)

Agree(v, w, p) == \A q \in Peers \ {p} : v.rank[q] = w.rank[q] /\ v.order[q] = w.order[q]

\* A new peer at the end, with any order.
LEMMA PushOrd ==
  ASSUME NEW w, NEW v, NEW p \in Peers, Agree(v, w, p),
         NEW x \in Seq(Peers), \A i \in 1 .. Len(x) : x[i] # p,
         Ord(w, x, Len(x), {}, {})
  PROVE  Ord(v, Append(x, p), Len(x) + 1, {}, {p})
<1> DEFINE y == Append(x, p)
           n == Len(x)
<1>1. /\ y[n + 1] = p /\ n \in Nat /\ \A i \in 1 .. n : y[i] = x[i] /\ x[i] \in Peers
  OBVIOUS
<1> HIDE DEF y
<1> SUFFICES ASSUME NEW i \in 2 .. n + 1 PROVE AfterAncestors(v, y, {}, {p}, i)
  BY DEF Ord, y
<1>2. CASE i = n + 1
  BY <1>1, <1>2 DEF AfterAncestors
<1>3. CASE i \in 2 .. n
  <2>1. Par(i) \in 1 .. n /\ i \in 1 .. n
    BY <1>1, <1>3, AncestorFacts
  <2>2. LE(w, x[Par(i)], x[i])
    BY <1>3 DEF Ord, AfterAncestors
  <2>3. LE(v, y[Par(i)], y[i])
    BY <1>1, <2>1, <2>2 DEF LE, Less, Agree
  <2> QED
    BY <1>1, <2>1, <2>3 DEF AfterAncestors
<1> QED
  BY <1>1, <1>2, <1>3

\* A peer with a new rank may have to go either way.
LEMMA RankOrd ==
  ASSUME NEW w, NEW v, Ranked(w), NEW p \in Peers, Agree(v, w, p),
         NEW x \in Seq(Peers), Distinct(x), Ord(w, x, Len(x), {}, {})
  PROVE  Ord(v, x, Len(x), {p}, {p})
<1> DEFINE n == Len(x)
<1> SUFFICES ASSUME NEW i \in 2 .. n PROVE AfterAncestors(v, x, {p}, {p}, i)
  BY DEF Ord
<1>1. /\ n \in Nat /\ \A j \in 1 .. n : x[j] \in Peers
      /\ \A j, k \in 1 .. n : x[j] = x[k] => j = k
  BY DEF Distinct
<1>2. /\ Par(i) \in 1 .. n /\ Par(i) < i /\ i \in 1 .. n
      /\ Par(i) > 1 => Par(i) \in 2 .. n /\ Par(Par(i)) \in 1 .. n /\ Par(Par(i)) < Par(i)
      /\ Par(Par(i)) > 1 => Par(i) > 1
  BY <1>1, AncestorFacts
<1>3. LE(w, x[Par(i)], x[i]) /\ (Par(i) > 1 => LE(w, x[Par(Par(i))], x[i]))
  <2>1. LE(w, x[Par(i)], x[i]) /\ (Par(i) > 1 => LE(w, x[Par(Par(i))], x[Par(i)]))
    BY <1>2 DEF Ord, AfterAncestors
  <2> QED
    BY <1>1, <1>2, <2>1, LEFacts
<1>4. \A q, r \in Peers \ {p} : LE(w, q, r) => LE(v, q, r)
  BY DEF LE, Less, Agree
<1> QED
  BY <1>1, <1>2, <1>3, <1>4 DEF AfterAncestors

\* Of two peers that change their orders, one may have to go down and the other up.
LEMMA ShuffleOrd ==
  ASSUME NEW w, NEW v, Ranked(w), NEW d \in Peers, NEW u \in Peers, d # u,
         w.order[d] <= w.order[u], v.rank = w.rank,
         v.order = [w.order EXCEPT ![d] = w.order[u], ![u] = w.order[d]],
         NEW x \in Seq(Peers), Distinct(x), Ord(w, x, Len(x), {}, {})
  PROVE  Ord(v, x, Len(x), {d}, {u}) /\ CanReplace(v, x, Len(x), u, d)
<1> DEFINE n == Len(x)
<1>0. /\ \A q \in Peers : w.rank[q] \in Nat /\ w.order[q] \in Nat
      /\ v.order[d] = w.order[u] /\ v.order[u] = w.order[d]
      /\ \A q \in Peers : q # d /\ q # u => v.order[q] = w.order[q]
  BY HeapAssumption DEF Ranked
<1>1. /\ n \in Nat /\ \A j \in 1 .. n : x[j] \in Peers
      /\ \A j, k \in 1 .. n : x[j] = x[k] => j = k
  BY DEF Distinct
<1>2. \A q, r \in Peers : LE(w, q, r) /\ q # d /\ r # u => LE(v, q, r)
  BY <1>0, SMTT(30) DEF LE, Less
<1>3. ASSUME NEW i \in 2 .. n PROVE AfterAncestors(v, x, {d}, {u}, i)
  <2> DEFINE P1 == Par(i)
             P2 == Par(P1)
             P3 == Par(P2)
  <2>1. /\ P1 \in 1 .. n /\ P1 < i /\ i \in 1 .. n
        /\ P1 > 1 => P1 \in 2 .. n /\ P2 \in 1 .. n /\ P2 < P1
        /\ P2 > 1 => P1 > 1 /\ P2 \in 2 .. n /\ P3 \in 1 .. n /\ P3 < P2
    BY <1>1, AncestorFacts
  <2>2. /\ LE(w, x[P1], x[i])
        /\ P1 > 1 => LE(w, x[P2], x[i])
        /\ P2 > 1 => LE(w, x[P3], x[i])
    <3>1. /\ LE(w, x[P1], x[i])
          /\ P1 > 1 => LE(w, x[P2], x[P1])
          /\ P2 > 1 => LE(w, x[P3], x[P2])
      BY <2>1 DEF Ord, AfterAncestors
    <3> QED
      BY <1>1, <2>1, <3>1, LEFacts
  <2>3. P2 > 1 /\ x[P1] \in {d, u} /\ x[P2] \in {d, u} => x[P3] # d
    BY <1>1, <2>1
  <2> QED
    BY <1>1, <1>2, <2>1, <2>2, <2>3 DEF AfterAncestors
<1>4. ASSUME Less(v, u, d), NEW i \in 2 .. n, x[i] # u, x[Par(i)] = d PROVE LE(v, u, x[i])
  <2>1. Par(i) \in 1 .. n /\ Par(i) < i /\ i \in 1 .. n
    BY <1>1, AncestorFacts
  <2>2. x[i] # d /\ x[i] \in Peers
    BY <1>1, <1>4, <2>1
  <2>3. LE(w, d, x[i])
    BY <1>4 DEF Ord, AfterAncestors
  <2>4. v.order[x[i]] = w.order[x[i]]
    BY <1>0, <1>4, <2>2
  <2>5. /\ w.rank[d] \in Nat /\ w.rank[u] \in Nat /\ w.rank[x[i]] \in Nat
        /\ w.order[d] \in Nat /\ w.order[x[i]] \in Nat
    BY <1>0, <2>2
  <2>6. w.rank[u] <= w.rank[d]
    BY <1>4, <2>5 DEF Less
  <2>7. /\ w.rank[d] <= w.rank[x[i]]
        /\ w.rank[d] = w.rank[x[i]] => w.order[d] <= w.order[x[i]]
    BY <2>3, <2>5 DEF LE, Less
  <2> QED
    BY <1>0, <2>4, <2>5, <2>6, <2>7 DEF LE, Less
<1> QED
  BY <1>3, <1>4 DEF Ord, CanReplace

\* The last peer takes the place of the one that is removed.
LEMMA RemoveOrd ==
  ASSUME NEW w, Ranked(w), NEW x \in Seq(Peers), Distinct(x), Ord(w, x, Len(x), {}, {}),
         NEW a \in 1 .. Len(x), NEW p, p = x[Len(x)]
  PROVE  /\ a # Len(x) => Ord(w, Swapped(x, a, Len(x)), Len(x) - 1, {p}, {p})
         /\ Ord(w, Swapped(x, 1, Len(x)), Len(x) - 1, {p}, {})
<1> DEFINE n == Len(x)
           y == Swapped(x, a, n)
           z == Swapped(x, 1, n)
<1>1. /\ n \in Nat /\ n \in 1 .. n /\ 1 \in 1 .. n /\ \A j \in 1 .. n : x[j] \in Peers
      /\ \A j, k \in 1 .. n : x[j] = x[k] => j = k
  BY DEF Distinct
<1>2. /\ y[a] = p /\ \A j \in 1 .. n : j # a /\ j # n => y[j] = x[j]
      /\ z[1] = p /\ \A j \in 1 .. n : j # 1 /\ j # n => z[j] = x[j]
  BY <1>1, SwappedFacts, ZenonT(30)
<1> HIDE DEF y, z
<1> SUFFICES ASSUME NEW i \in 2 .. n - 1
             PROVE  /\ a # n => AfterAncestors(w, y, {p}, {p}, i)
                    /\ AfterAncestors(w, z, {p}, {}, i)
  BY DEF Ord, y, z
<1> DEFINE P1 == Par(i)
           P2 == Par(P1)
           P3 == Par(P2)
<1>3. /\ i \in 2 .. n /\ i # n /\ P1 \in 1 .. n /\ P1 < i /\ i \in 1 .. n
      /\ P1 > 1 => P1 \in 2 .. n /\ P2 \in 1 .. n /\ P2 < P1
      /\ P2 > 1 => P1 > 1 /\ P2 \in 2 .. n /\ P3 \in 1 .. n /\ P3 < P2
  BY <1>1, AncestorFacts
<1>4. LE(w, x[P1], x[i]) /\ (P1 > 1 => LE(w, x[P2], x[i]))
  <2>1. LE(w, x[P1], x[i]) /\ (P1 > 1 => LE(w, x[P2], x[P1]))
    BY <1>3 DEF Ord, AfterAncestors
  <2> QED
    BY <1>1, <1>3, <2>1, LEFacts
<1>5. i # n /\ P1 # n /\ (P1 > 1 => P2 # n) /\ (P2 > 1 => P3 # n) /\ i # 1
  BY <1>1, <1>3
<1>6. \A j \in 1 .. n : j # n => x[j] # p
  BY <1>1
<1>7. ASSUME a # n PROVE AfterAncestors(w, y, {p}, {p}, i)
  BY <1>2, <1>3, <1>4, <1>5, <1>6, <1>7 DEF AfterAncestors
<1>8. AfterAncestors(w, z, {p}, {}, i)
  BY <1>1, <1>2, <1>3, <1>4, <1>5, <1>6 DEF AfterAncestors
<1> QED
  BY <1>7, <1>8

\* The end of the list does not matter.
LEMMA PrefixOrd ==
  ASSUME NEW w, NEW n \in Nat, NEW x, NEW y, \A i \in 1 .. n : y[i] = x[i],
         Ord(w, x, n, {}, {})
  PROVE  Ord(w, y, n, {}, {})
<1> SUFFICES ASSUME NEW i \in 2 .. n PROVE AfterAncestors(w, y, {}, {}, i)
  BY DEF Ord
<1>1. Par(i) \in 1 .. n /\ i \in 1 .. n
  BY AncestorFacts
<1>2. LE(w, x[Par(i)], x[i])
  BY DEF Ord, AfterAncestors
<1> QED
  BY <1>1, <1>2 DEF AfterAncestors

-----------------------------------------------------------------------------
(* Every step leads from one point of an operation to the next.            *)

LEMMA CallStep ==
  ASSUME Base, AtRest, HeapNext
  PROVE  Base' /\ Progress'
<1> DEFINE n == size
<1>0. HeapCall /\ todo = <<>> /\ Ord(weights, peers, Len(peers), {}, {})
  BY DEF AtRest, HeapNext, HeapStep, UpStep, DownStep, FixStep, ShuffleStep, PopStep, Calling,
         size
<1>1. /\ Ranked(weights) /\ Distinct(peers) /\ n \in Nat /\ Members \subseteq Peers
      /\ n = Len(peers) /\ peers \in Seq(Peers)
      /\ \A i \in 1 .. n : peers[i] \in Members
      /\ \A p \in Members : index[p] \in 1 .. n /\ peers[index[p]] = p
  BY BaseFacts
<1>2. ASSUME NEW p \in Peers \ Members, NEW then, Push(p, then)
      PROVE  /\ Base' /\ size' = n + 1 /\ p \in Members' /\ todo' = <<Up(size')>> \o then
             /\ Ord(weights, peers, size, {}, {peers[size]})'
  <2>1. /\ counter' = counter + 1 /\ counter < MaxOrder /\ peers' = Append(peers, p)
        /\ index' = [index EXCEPT ![p] = n + 1] /\ rank' = rank
    BY <1>2 DEF Push
  <2>2. PICK r \in 0 .. n : order' = [order EXCEPT ![p] = counter + 1 + r]
    BY <1>2 DEF Push
  <2>3. /\ size' = n + 1 /\ peers' \in Seq(Peers) /\ peers'[n + 1] = p
        /\ \A i \in 1 .. n : peers'[i] = peers[i]
    BY <1>1, <2>1 DEF size
  <2>4. \A i \in 1 .. n : peers[i] # p
    BY <1>1
  <2>5. counter' \in 0 .. MaxOrder /\ order' \in [Peers -> Nat] /\ index' \in [Peers -> Nat]
    BY <1>1, <2>1, <2>2, HeapAssumption DEF Base
  <2>6. IndexIsPosition'
    <3>1. \A i \in 1 .. n : index[peers[i]] = i /\ peers[i] \in Peers
      BY <1>1 DEF Base, IndexIsPosition
    <3>2. \A i \in 1 .. n + 1 : index'[peers'[i]] = i
      BY <1>1, <2>1, <2>3, <2>4, <3>1 DEF Base
    <3> QED
      BY <2>3, <3>2 DEF IndexIsPosition
  <2>7. Base'
    BY <2>1, <2>3, <2>5, <2>6 DEF Base
  <2>8. Agree(weights', weights, p)
    BY <2>1, <2>2 DEF Agree, weights, Base
  <2>9. Ord(weights', Append(peers, p), Len(peers) + 1, {}, {p})
    BY <1>0, <1>1, <2>4, <2>8, PushOrd
  <2>10. p \in Members'
    BY <1>1, <2>3 DEF Members
  <2> QED
    BY <1>1, <1>2, <2>1, <2>3, <2>7, <2>9, <2>10 DEF Push
<1>3. ASSUME NEW p \in Peers \ Members, push_peer(p) PROVE Base' /\ Progress'
  <2>1. /\ Base' /\ size' = n + 1 /\ todo' = <<Up(size')>> \o <<>>
        /\ Ord(weights, peers, size, {}, {peers[size]})'
    BY <1>2, <1>3 DEF push_peer
  <2>2. size' \in 1 .. size' /\ todo' = <<Up(size')>>
    BY <1>1, <2>1, TodoFacts
  <2>3. Rising(size)'
    BY <2>1, <2>2 DEF Rising
  <2> QED
    BY <2>1, <2>2, <2>3 DEF Progress
<1>4. ASSUME NEW p \in Peers \ Members, add_and_shuffle(p) PROVE Base' /\ Progress'
  <2>1. /\ Base' /\ size' = n + 1 /\ p \in Members' /\ todo' = <<Up(size')>> \o <<Shuffle(p)>>
        /\ Ord(weights, peers, size, {}, {peers[size]})'
    BY <1>2, <1>4 DEF add_and_shuffle
  <2>2. size' \in 1 .. size' /\ todo' = <<Up(size'), Shuffle(p)>>
    BY <1>1, <2>1, TodoFacts
  <2>3. RisingFirst(size, p)'
    BY <2>1, <2>2 DEF RisingFirst
  <2> QED
    BY <2>1, <2>2, <2>3 DEF Progress
<1>5. ASSUME NEW p \in Members, remove_peer(p) PROVE Base' /\ Progress'
  <2> DEFINE a == index[p]
  <2>1. a \in 1 .. n /\ remove(a) /\ UNCHANGED <<counter, rank, order>> /\ weights' = weights
    BY <1>1, <1>5 DEF remove_peer, weights
  <2> HIDE DEF a
  <2>2. CASE a = n
    <3>1. todo' = <<Pop>> /\ UNCHANGED <<peers, index>>
      BY <2>1, <2>2 DEF remove
    <3>2. Base' /\ size' = n
      BY <2>1, <3>1 DEF Base, IndexIsPosition, size
    <3>3. n - 1 \in Nat /\ n - 1 <= Len(peers)
      BY <1>1, <2>1
    <3>4. Ord(weights, peers, n - 1, {}, {})
      BY <1>0, <1>1, <3>3, OrdWeakens
    <3>5. Popping'
      BY <1>1, <2>1, <3>1, <3>2, <3>4 DEF Popping
    <3> QED
      BY <3>2, <3>5 DEF Progress
  <2>3. CASE a # n
    <3>1. swap(a, n) /\ todo' = <<Down(a, n - 1), Up(a), Pop>>
      BY <2>1, <2>3 DEF remove
    <3>2. n \in 1 .. n /\ a \in 1 .. n - 1
      BY <1>1, <2>1, <2>3
    <3>3. Base' /\ peers' = Swapped(peers, a, n) /\ size' = n
      BY <2>1, <3>1, <3>2, SwapStep
    <3>4. peers'[a] = peers[n]
      BY <1>1, <2>1, <3>2, <3>3, SwappedFacts
    <3>5. Ord(weights, Swapped(peers, a, Len(peers)), Len(peers) - 1, {peers[n]}, {peers[n]})
      BY <1>0, <1>1, <2>1, <2>3, RemoveOrd
    <3>6. Ord(weights', peers', size' - 1, {peers'[a]}, {peers'[a]})
      BY <1>1, <2>1, <3>3, <3>4, <3>5
    <3>7. ASSUME NEW b, b = a PROVE SinkingToPop(b, b)'
      BY <3>1, <3>3, <3>6, <3>7 DEF SinkingToPop
    <3> QED
      BY <3>2, <3>3, <3>7 DEF Progress
  <2> QED
    BY <2>2, <2>3
<1>6. ASSUME NEW p \in Members, NEW r \in Ranks, update_peer(p, r) PROVE Base' /\ Progress'
  <2>1. /\ rank' = [rank EXCEPT ![p] = r] /\ todo' = <<Fix(p)>>
        /\ UNCHANGED <<peers, counter, order, index>>
    BY <1>6 DEF update_peer
  <2>2. Base' /\ size' = n /\ Members' = Members
    BY <1>1, <2>1 DEF Base, IndexIsPosition, size, Members
  <2>3. Agree(weights', weights, p) /\ p \in Peers
    BY <1>1, <2>1 DEF Agree, weights, Base
  <2>4. Ord(weights', peers, Len(peers), {p}, {p})
    BY <1>0, <1>1, <2>3, RankOrd
  <2>5. Fixing(p)'
    BY <1>1, <2>1, <2>2, <2>4 DEF Fixing
  <2> QED
    BY <2>2, <2>5 DEF Progress
<1>7. CASE pop_peer
  <2>1. /\ n \in 1 .. n /\ 1 \in 1 .. n /\ swap(1, n) /\ todo' = <<Down(1, n - 1), Pop>>
        /\ UNCHANGED <<counter, rank, order>> /\ weights' = weights
    BY <1>1, <1>7 DEF pop_peer, weights
  <2>2. Base' /\ peers' = Swapped(peers, 1, n) /\ size' = n
    BY <2>1, SwapStep
  <2>3. peers'[1] = peers[n]
    BY <1>1, <2>1, <2>2, SwappedFacts, ZenonT(30)
  <2>4. Ord(weights, Swapped(peers, 1, Len(peers)), Len(peers) - 1, {peers[n]}, {})
    BY <1>0, <1>1, <2>1, RemoveOrd
  <2>5. PoppingFirst(1)'
    BY <1>1, <2>1, <2>2, <2>3, <2>4 DEF PoppingFirst
  <2> QED
    BY <2>1, <2>2, <2>5 DEF Progress
<1> QED
  BY <1>0, <1>3, <1>4, <1>5, <1>6, <1>7 DEF HeapCall

\* push_peer and add_and_shuffle, on the way up.
LEMMA RisingStep ==
  ASSUME Base, HeapNext, NEW k \in 1 .. size
  PROVE  /\ Rising(k) => Base' /\ Progress'
         /\ \A p \in Members : RisingFirst(k, p) => Base' /\ Progress'
<1>0. size \in Nat /\ size \in 0 .. size
  BY BaseFacts
<1>1. ASSUME Rising(k) PROVE Base' /\ Progress'
  <2>1. /\ todo # <<>> /\ Head(todo) = Up(k) /\ Tail(todo) = <<>>
        /\ Ord(weights, peers, size, {}, {peers[k]})
    BY <1>1, TodoFacts DEF Rising
  <2>2. /\ Base' /\ size' = size /\ Members' = Members
        /\ \/ todo' = <<>> /\ Ord(weights', peers', size, {}, {})
           \/ \E j \in 1 .. size : /\ todo' = <<Up(j)>> \o <<>>
                                   /\ Ord(weights', peers', size, {}, {peers'[j]})
    BY <1>0, <2>1, UpAlone
  <2>3. AtRest' \/ \E j \in 1 .. size : Rising(j)'
    BY <2>2, TodoFacts DEF AtRest, Rising
  <2> QED
    BY <2>2, <2>3 DEF Progress
<1>2. ASSUME NEW p \in Members, RisingFirst(k, p) PROVE Base' /\ Progress'
  <2>1. /\ todo # <<>> /\ Head(todo) = Up(k) /\ Tail(todo) = <<Shuffle(p)>>
        /\ Ord(weights, peers, size, {}, {peers[k]})
    BY <1>2, TodoFacts DEF RisingFirst
  <2>2. /\ Base' /\ size' = size /\ Members' = Members
        /\ \/ todo' = <<Shuffle(p)>> /\ Ord(weights', peers', size, {}, {})
           \/ \E j \in 1 .. size : /\ todo' = <<Up(j)>> \o <<Shuffle(p)>>
                                   /\ Ord(weights', peers', size, {}, {peers'[j]})
    BY <1>0, <2>1, UpAlone
  <2>3. Shuffling(p)' \/ \E j \in 1 .. size : RisingFirst(j, p)'
    BY <2>2, TodoFacts DEF Shuffling, RisingFirst
  <2> QED
    BY <2>2, <2>3 DEF Progress
<1> QED
  BY <1>1, <1>2

\* swap_order, called by add_and_shuffle.
LEMMA ShufflingStep ==
  ASSUME Base, HeapNext, NEW p \in Members, Shuffling(p)
  PROVE  Base' /\ Progress'
<1>1. /\ todo # <<>> /\ Head(todo) = Shuffle(p) /\ Tail(todo) = <<>>
      /\ Ord(weights, peers, size, {}, {})
  BY TodoFacts DEF Shuffling
<1>2. ShuffleStep /\ Head(todo).p = p
  BY <1>1, OnlyStep DEF Shuffle
<1>3. /\ Ranked(weights) /\ Distinct(peers) /\ size \in Nat /\ Members \subseteq Peers
      /\ size = Len(peers) /\ peers \in Seq(Peers)
      /\ \A i \in 1 .. size : peers[i] \in Members
  BY BaseFacts
<1>4. PICK r \in 1 .. size :
        IF p = peers[r] THEN todo' = <<>> /\ UNCHANGED order
        ELSE /\ order' = [order EXCEPT ![p] = order[peers[r]], ![peers[r]] = order[p]]
             /\ todo' = <<Fix(p), Fix(peers[r])>> \o <<>>
  BY <1>1, <1>2 DEF ShuffleStep
<1>5. UNCHANGED <<peers, counter, rank, index>>
  BY <1>2 DEF ShuffleStep
<1>6. CASE p = peers[r]
  <2>1. todo' = <<>> /\ UNCHANGED order
    BY <1>4, <1>6
  <2>2. Base' /\ size' = size /\ weights' = weights
    BY <1>5, <2>1 DEF Base, IndexIsPosition, size, weights
  <2>3. AtRest'
    BY <1>1, <1>5, <2>1, <2>2 DEF AtRest
  <2> QED
    BY <2>2, <2>3 DEF Progress
<1>7. CASE p # peers[r]
  <2> DEFINE q == peers[r]
  <2>1. /\ q \in Members /\ q \in Peers /\ p \in Peers /\ p # q
        /\ order' = [order EXCEPT ![p] = order[q], ![q] = order[p]]
        /\ todo' = <<Fix(p), Fix(q)>>
    BY <1>3, <1>4, <1>7, TodoFacts
  <2>a. peers'[r] = q
    BY <1>5
  <2> HIDE DEF q
  <2>2. order \in [Peers -> Nat] /\ order[p] \in Nat /\ order[q] \in Nat
    BY <2>1 DEF Base
  <2>3. order' \in [Peers -> Nat]
    BY <2>1, <2>2
  <2>4. Base' /\ size' = size /\ Members' = Members
    BY <1>5, <2>3 DEF Base, IndexIsPosition, size, Members
  <2>5. weights'.rank = weights.rank /\ weights'.order = order' /\ weights.order = order
    BY <1>5 DEF weights
  <2>6. order' = [order EXCEPT ![q] = order[p], ![p] = order[q]]
    BY <2>1, <2>2
  <2>7. \/ Ord(weights', peers, Len(peers), {p}, {q})
        \/ Ord(weights', peers, Len(peers), {q}, {p}) /\ CanReplace(weights', peers, Len(peers), p, q)
    <3>1. CASE order[p] <= order[q]
      BY <1>1, <1>3, <2>1, <2>5, <3>1, ShuffleOrd
    <3>2. CASE order[q] <= order[p]
      BY <1>1, <1>3, <2>1, <2>5, <2>6, <3>2, ShuffleOrd
    <3> QED
      BY <2>2, <3>1, <3>2
  <2>8. ASSUME NEW b, b = q PROVE FixingTwo(p, b)'
    BY <1>3, <1>5, <2>1, <2>4, <2>7, <2>8 DEF FixingTwo
  <2> QED
    BY <2>1, <2>4, <2>8 DEF Progress
<1> QED
  BY <1>6, <1>7

\* heap.fix begins.
LEMMA FixStart ==
  ASSUME Base, HeapNext, NEW p \in Members, todo # <<>>, Head(todo) = Fix(p)
  PROVE  /\ Base' /\ size' = size /\ Members' = Members /\ weights' = weights /\ peers' = peers
         /\ \E k \in 1 .. size : peers[k] = p
                                 /\ todo' = <<Down(k, size), Up(k)>> \o Tail(todo)
<1>1. FixStep /\ Head(todo).p = p
  BY OnlyStep DEF Fix
<1>2. index[p] \in 1 .. size /\ peers[index[p]] = p
  BY BaseFacts
<1>3. /\ todo' = <<Down(index[p], size), Up(index[p])>> \o Tail(todo)
      /\ UNCHANGED <<peers, counter, rank, order, index>>
  BY <1>1 DEF FixStep, FixCalls
<1>4. Base' /\ size' = size /\ Members' = Members /\ weights' = weights
  BY <1>3 DEF Base, IndexIsPosition, size, Members, weights
<1> QED
  BY <1>2, <1>3, <1>4

\* fix for a peer that alone is out of order, and what follows it.
LEMMA FixingStep ==
  ASSUME Base, HeapNext
  PROVE  /\ \A p \in Members : Fixing(p) => Base' /\ Progress'
         /\ \A c, k \in 1 .. size : Sinking(c, k) => Base' /\ Progress'
<1>0. size \in Nat /\ size \in 0 .. size /\ size = Len(peers) /\ peers \in Seq(Peers) /\ Ranked(weights)
  BY BaseFacts
<1>1. ASSUME NEW p \in Members, Fixing(p) PROVE Base' /\ Progress'
  <2>1. /\ todo # <<>> /\ Head(todo) = Fix(p) /\ Tail(todo) = <<>>
        /\ Ord(weights, peers, size, {p}, {p})
    BY <1>1, TodoFacts DEF Fixing
  <2>2. Base' /\ size' = size /\ weights' = weights /\ peers' = peers
    BY <2>1, FixStart
  <2>3. PICK k \in 1 .. size : peers[k] = p /\ todo' = <<Down(k, size), Up(k)>> \o <<>>
    BY <2>1, FixStart
  <2>4. todo' = <<Down(k, size), Up(k)>>
    BY <2>3, TodoFacts
  <2>5. Sinking(k, k)'
    BY <2>1, <2>2, <2>3, <2>4 DEF Sinking
  <2> QED
    BY <2>2, <2>5 DEF Progress
<1>2. ASSUME NEW c \in 1 .. size, NEW k \in 1 .. size, Sinking(c, k) PROVE Base' /\ Progress'
  <2> DEFINE U == IF c = k THEN {peers[c]} ELSE {}
  <2>1. /\ todo # <<>> /\ Head(todo) = Down(c, size) /\ Tail(todo) = <<Up(k)>>
        /\ Ord(weights, peers, size, {peers[c]}, U) /\ U \in SUBSET {peers[c]}
    BY <1>2, TodoFacts DEF Sinking
  <2>2. /\ Base' /\ size' = size /\ Members' = Members
        /\ \/ /\ todo' = <<Up(k)>> /\ peers' = peers
              /\ Ord(weights', peers', size, {}, U)
           \/ \E e \in 2 .. size : /\ e # c /\ c \in 1 .. size
                                   /\ todo' = <<Down(e, size)>> \o <<Up(k)>>
                                   /\ Ord(weights', peers', size, {peers'[e]}, {})
    BY <1>0, <2>1, DownAlone
  <2>3. CASE /\ todo' = <<Up(k)>> /\ peers' = peers
             /\ Ord(weights', peers', size, {}, U)
    <3>1. Ord(weights', peers', size, {}, {peers'[k]})
      <4>1. CASE c = k
        BY <2>3, <4>1
      <4>2. CASE c # k
        <5>1. Ranked(weights') /\ peers' \in Seq(Peers) /\ size <= Len(peers')
          BY <1>0, <2>2, <2>3, SMTT(30) DEF Base, Ranked, weights
        <5>2. Ord(weights', peers', size, {}, {})
          BY <2>3, <4>2
        <5> QED
          BY <1>0, <5>1, <5>2, OrdWeakens
      <4> QED
        BY <4>1, <4>2
    <3>2. Rising(k)'
      BY <2>2, <2>3, <3>1 DEF Rising
    <3> QED
      BY <2>2, <3>2 DEF Progress
  <2>4. ASSUME NEW e \in 2 .. size, todo' = <<Down(e, size)>> \o <<Up(k)>>, e # c,
               Ord(weights', peers', size, {peers'[e]}, {})
        PROVE  Progress'
    <3>1. todo' = <<Down(e, size'), Up(k)>> /\ e \in 1 .. size'
      BY <1>0, <2>2, <2>4, TodoFacts
    <3>2. Ord(weights', peers', size', {peers'[e]}, IF e = k THEN {peers'[e]} ELSE {})
      <4>1. CASE e = k
        BY <2>2, <2>4, <4>1 DEF Ord, AfterAncestors
      <4>2. CASE e # k
        BY <2>2, <2>4, <4>2
      <4> QED
        BY <4>1, <4>2
    <3>3. Sinking(e, k)'
      BY <3>1, <3>2 DEF Sinking
    <3> QED
      BY <2>2, <3>1, <3>3 DEF Progress
  <2> QED
    BY <2>2, <2>3, <2>4
<1> QED
  BY <1>1, <1>2

\* remove_peer and pop_peer.
LEMMA RemovalStep ==
  ASSUME Base, HeapNext
  PROVE  /\ \A c, k \in 1 .. size - 1 : SinkingToPop(c, k) => Base' /\ Progress'
         /\ \A k \in 1 .. size - 1 : RisingToPop(k) => Base' /\ Progress'
         /\ \A c \in 1 .. size : PoppingFirst(c) => Base' /\ Progress'
         /\ Popping => Base' /\ Progress'
<1>0. size \in Nat /\ size = Len(peers) /\ peers \in Seq(Peers) /\ Ranked(weights)
  BY BaseFacts
<1> DEFINE n == size - 1
<1>1. ASSUME NEW c \in 1 .. n, NEW k \in 1 .. n, SinkingToPop(c, k) PROVE Base' /\ Progress'
  <2> DEFINE U == IF c = k THEN {peers[c]} ELSE {}
  <2>0. n \in 0 .. size /\ c \in 1 .. size /\ n \in Nat /\ n <= Len(peers)
    BY <1>0
  <2>1. /\ todo # <<>> /\ Head(todo) = Down(c, n) /\ Tail(todo) = <<Up(k), Pop>>
        /\ Ord(weights, peers, n, {peers[c]}, U) /\ U \in SUBSET {peers[c]}
    BY <1>1, TodoFacts DEF SinkingToPop
  <2>2. /\ Base' /\ size' = size /\ Members' = Members
        /\ \/ /\ todo' = <<Up(k), Pop>> /\ peers' = peers
              /\ Ord(weights', peers', n, {}, U)
           \/ \E e \in 2 .. n : /\ e # c /\ c \in 1 .. n
                                /\ todo' = <<Down(e, n)>> \o <<Up(k), Pop>>
                                /\ Ord(weights', peers', n, {peers'[e]}, {})
    BY <2>0, <2>1, DownAlone
  <2>3. CASE /\ todo' = <<Up(k), Pop>> /\ peers' = peers
             /\ Ord(weights', peers', n, {}, U)
    <3>1. Ord(weights', peers', n, {}, {peers'[k]})
      <4>1. CASE c = k
        BY <2>3, <4>1
      <4>2. CASE c # k
        <5>1. Ranked(weights') /\ peers' \in Seq(Peers) /\ n <= Len(peers')
          BY <2>0, <2>2, <2>3 DEF Base, Ranked, weights
        <5>2. Ord(weights', peers', n, {}, {})
          BY <2>3, <4>2
        <5> QED
          BY <2>0, <5>1, <5>2, OrdWeakens
      <4> QED
        BY <4>1, <4>2
    <3>2. RisingToPop(k)'
      BY <2>2, <2>3, <3>1 DEF RisingToPop
    <3> QED
      BY <2>2, <3>2 DEF Progress
  <2>4. ASSUME NEW e \in 2 .. n, todo' = <<Down(e, n)>> \o <<Up(k), Pop>>, e # c,
               Ord(weights', peers', n, {peers'[e]}, {})
        PROVE  Progress'
    <3>1. todo' = <<Down(e, size' - 1), Up(k), Pop>> /\ e \in 1 .. size' - 1
      BY <1>0, <2>2, <2>4, TodoFacts
    <3>2. Ord(weights', peers', size' - 1, {peers'[e]}, IF e = k THEN {peers'[e]} ELSE {})
      <4>1. CASE e = k
        BY <2>2, <2>4, <4>1 DEF Ord, AfterAncestors
      <4>2. CASE e # k
        BY <2>2, <2>4, <4>2
      <4> QED
        BY <4>1, <4>2
    <3>3. SinkingToPop(e, k)'
      BY <3>1, <3>2 DEF SinkingToPop
    <3> QED
      BY <2>2, <3>1, <3>3 DEF Progress
  <2> QED
    BY <2>2, <2>3, <2>4
<1>2. ASSUME NEW k \in 1 .. n, RisingToPop(k) PROVE Base' /\ Progress'
  <2>0. n \in 0 .. size /\ size > 0
    BY <1>0
  <2>1. /\ todo # <<>> /\ Head(todo) = Up(k) /\ Tail(todo) = <<Pop>>
        /\ Ord(weights, peers, n, {}, {peers[k]})
    BY <1>2, TodoFacts DEF RisingToPop
  <2>2. /\ Base' /\ size' = size /\ Members' = Members
        /\ \/ todo' = <<Pop>> /\ Ord(weights', peers', n, {}, {})
           \/ \E j \in 1 .. n : /\ todo' = <<Up(j)>> \o <<Pop>>
                                /\ Ord(weights', peers', n, {}, {peers'[j]})
    BY <2>0, <2>1, UpAlone
  <2>3. Popping' \/ \E j \in 1 .. n : RisingToPop(j)'
    BY <2>0, <2>2, TodoFacts DEF Popping, RisingToPop
  <2> QED
    BY <2>2, <2>3 DEF Progress
<1>3. ASSUME NEW c \in 1 .. size, PoppingFirst(c) PROVE Base' /\ Progress'
  <2>0. n \in 0 .. size /\ size > 0 /\ 2 .. n \subseteq 1 .. size
    BY <1>0
  <2>1. /\ todo # <<>> /\ Head(todo) = Down(c, n) /\ Tail(todo) = <<Pop>>
        /\ Ord(weights, peers, n, {peers[c]}, {})
    BY <1>3, TodoFacts DEF PoppingFirst
  <2>2. /\ Base' /\ size' = size /\ Members' = Members
        /\ \/ /\ todo' = <<Pop>> /\ peers' = peers
              /\ Ord(weights', peers', n, {}, {})
           \/ \E e \in 2 .. n : /\ e # c /\ c \in 1 .. n
                                /\ todo' = <<Down(e, n)>> \o <<Pop>>
                                /\ Ord(weights', peers', n, {peers'[e]}, {})
    <3>1. {} \in SUBSET {peers[c]}
      OBVIOUS
    <3> QED
      BY <2>0, <2>1, <3>1, DownAlone
  <2>3. Popping' \/ \E e \in 1 .. size : PoppingFirst(e)'
    BY <2>0, <2>2, TodoFacts DEF Popping, PoppingFirst
  <2> QED
    BY <2>2, <2>3 DEF Progress
<1>4. ASSUME Popping PROVE Base' /\ Progress'
  <2>1. /\ todo # <<>> /\ Head(todo) = Pop /\ Tail(todo) = <<>> /\ size > 0
        /\ Ord(weights, peers, n, {}, {})
    BY <1>4, TodoFacts DEF Popping
  <2>2. /\ peers' = SubSeq(peers, 1, n) /\ todo' = <<>>
        /\ UNCHANGED <<counter, rank, order, index>> /\ weights' = weights
    BY <2>1, OnlyStep DEF PopStep, weights
  <2>3. /\ peers' \in Seq(Peers) /\ Len(peers') = n /\ n \in Nat
        /\ \A i \in 1 .. n : peers'[i] = peers[i]
    BY <1>0, <2>1, <2>2
  <2>4. \A i \in 1 .. n : index'[peers'[i]] = i
    BY <1>0, <2>2, <2>3 DEF Base, IndexIsPosition
  <2>5. size' = n
    BY <2>3 DEF size
  <2>6. Base'
    BY <2>2, <2>3, <2>4, <2>5 DEF Base, IndexIsPosition
  <2>7. Ord(weights', peers', n, {}, {})
    BY <2>1, <2>2, <2>3, PrefixOrd
  <2>8. AtRest'
    BY <2>2, <2>5, <2>7 DEF AtRest
  <2> QED
    BY <2>6, <2>8 DEF Progress
<1> QED
  BY <1>1, <1>2, <1>3, <1>4

\* The two fixes after swap_order.
LEMMA FixingTwoStep ==
  ASSUME Base, HeapNext
  PROVE  /\ \A p, q \in Members : FixingTwo(p, q) => Base' /\ Progress'
         /\ \A c, k \in 1 .. size, q \in Members : SinkingFirst(c, k, q) => Base' /\ Progress'
         /\ \A k \in 1 .. size, q \in Members : RisingThenFix(k, q) => Base' /\ Progress'
<1>0. /\ size \in Nat /\ size \in 0 .. size /\ size = Len(peers) /\ peers \in Seq(Peers)
      /\ Ranked(weights) /\ Distinct(peers) /\ \A i \in 1 .. size : peers[i] \in Members
      /\ size <= Len(peers) /\ 1 .. size = 1 .. Len(peers)
  BY BaseFacts
<1>a. \A q : {} \in SUBSET {q} /\ {q} \in SUBSET {q} /\ {q} # {}
  OBVIOUS
<1>1. ASSUME NEW p \in Members, NEW q \in Members, FixingTwo(p, q) PROVE Base' /\ Progress'
  <2>1. /\ todo # <<>> /\ Head(todo) = Fix(p) /\ Tail(todo) = <<Fix(q)>> /\ p # q
        /\ \/ Ord(weights, peers, size, {p}, {q})
           \/ Ord(weights, peers, size, {q}, {p}) /\ CanReplace(weights, peers, size, p, q)
    BY <1>1, TodoFacts DEF FixingTwo
  <2>2. Base' /\ size' = size /\ Members' = Members /\ weights' = weights /\ peers' = peers
    BY <2>1, FixStart
  <2>3. PICK k \in 1 .. size : peers[k] = p /\ todo' = <<Down(k, size), Up(k)>> \o <<Fix(q)>>
    BY <2>1, FixStart
  <2>4. todo' = <<Down(k, size'), Up(k), Fix(q)>> /\ peers'[k] = p
    BY <2>2, <2>3, TodoFacts
  <2>5. SinkingFirst(k, k, q)'
    BY <2>1, <2>2, <2>4 DEF SinkingFirst
  <2> QED
    BY <2>2, <2>5 DEF Progress
<1>2. ASSUME NEW c \in 1 .. size, NEW k \in 1 .. size, NEW q \in Members, SinkingFirst(c, k, q)
      PROVE  Base' /\ Progress'
  <2>1. /\ todo # <<>> /\ Head(todo) = Down(c, size) /\ Tail(todo) = <<Up(k), Fix(q)>>
        /\ peers[c] # q
    BY <1>2, TodoFacts DEF SinkingFirst
  <2>2. /\ Base' /\ size' = size /\ Members' = Members /\ weights' = weights
        /\ (\E e \in 2 .. size : DownMoves(c, size, e)) \/ DownStops(c, size)
    BY <1>0, <2>1, DownIteration
  <2>3. ASSUME Ord(weights, peers, size, {peers[c]}, {q}),
               NEW e \in 2 .. size, DownMoves(c, size, e)
        PROVE  Progress'
    <3>1. Ord(weights, Swapped(peers, c, e), size, {peers[c]}, {q} \ {peers[c]})
      <4>1. /\ c \in 1 .. size /\ Par(e) = c /\ Less(weights, peers[e], peers[c])
            /\ \A i \in 2 .. size : Par(i) = c => LE(weights, peers[e], peers[i])
        BY <2>3 DEF DownMoves
      <4> QED
        BY <1>0, <1>a, <2>3, <4>1, DownSwap
    <3>2. {q} \ {peers[c]} = {q}
      BY <2>1
    <3>3. /\ todo' = <<Down(e, size'), Up(k), Fix(q)>> /\ peers'[e] = peers[c]
          /\ peers' = Swapped(peers, c, e)
      <4>1. /\ todo' = <<Down(e, size)>> \o <<Up(k), Fix(q)>> /\ peers'[e] = peers[c]
            /\ peers' = Swapped(peers, c, e)
        BY <2>1, <2>3 DEF DownMoves, Swaps
      <4> QED
        BY <2>2, <4>1, TodoFacts
    <3>4. Ord(weights', peers', size', {peers'[e]}, {q}) /\ e \in 1 .. size'
      <4>1. Ord(weights, Swapped(peers, c, e), size, {peers[c]}, {q})
        BY <3>1, <3>2
      <4>2. e \in 1 .. size
        BY <1>0
      <4> QED
        BY <2>2, <3>3, <4>1, <4>2
    <3>5. SinkingFirst(e, k, q)'
      BY <2>1, <3>3, <3>4 DEF SinkingFirst
    <3> QED
      BY <2>2, <3>4, <3>5 DEF Progress
  <2>4. ASSUME Ord(weights, peers, size, {peers[c]}, {q}), DownStops(c, size)
        PROVE  Progress'
    <3>1. Ord(weights, peers, size, {}, {q})
      BY <1>0, <1>a, <2>4, DownEnds DEF DownStops
    <3>2. RisingThenFix(k, q)'
      BY <2>1, <2>2, <2>4, <3>1 DEF RisingThenFix, DownStops
    <3> QED
      BY <2>2, <3>2 DEF Progress
  <2>5. ASSUME c = k, Ord(weights, peers, size, {q}, {peers[c]}),
               CanReplace(weights, peers, size, peers[c], q)
        PROVE  Progress'
    <3>1. ASSUME NEW e \in 2 .. size, DownMoves(c, size, e) PROVE FALSE
      <4>1. Par(e) = c /\ Less(weights, peers[e], peers[c]) /\ e \in 1 .. size /\ e # c
        BY <1>0, <3>1, AncestorFacts DEF DownMoves
      <4>2. peers[e] # peers[c]
        BY <1>0, <4>1 DEF Distinct
      <4>3. LE(weights, peers[c], peers[e])
        BY <2>1, <2>5, <4>1, <4>2 DEF Ord, AfterAncestors
      <4> QED
        BY <4>1, <4>3 DEF LE
    <3>2. DownStops(c, size)
      BY <2>2, <3>1
    <3>3. RisingThenFix(k, q)'
      BY <2>1, <2>2, <2>5, <3>2 DEF RisingThenFix, DownStops
    <3> QED
      BY <2>2, <3>3 DEF Progress
  <2> QED
    BY <1>2, <2>2, <2>3, <2>4, <2>5 DEF SinkingFirst
<1>3. ASSUME NEW k \in 1 .. size, NEW q \in Members, RisingThenFix(k, q) PROVE Base' /\ Progress'
  <2>1. /\ todo # <<>> /\ Head(todo) = Up(k) /\ Tail(todo) = <<Fix(q)>>
    BY <1>3, TodoFacts DEF RisingThenFix
  <2>2. /\ Base' /\ size' = size /\ Members' = Members /\ weights' = weights
        /\ UpMoves(k) \/ UpStops(k)
    BY <2>1, UpIteration
  <2>a. ASSUME UpMoves(k)
        PROVE  /\ k \in 2 .. size /\ Par(k) \in 1 .. size' /\ peers'[Par(k)] = peers[k]
               /\ todo' = <<Up(Par(k)), Fix(q)>> /\ peers' = Swapped(peers, Par(k), k)
               /\ Less(weights, peers[k], peers[Par(k)])
    BY <2>1, <2>2, <2>a, TodoFacts DEF UpMoves, Swaps
  <2>b. ASSUME UpStops(k), Ord(weights, peers, size, {}, {q}) \/ Ord(weights, peers, size, {q}, {})
        PROVE  Progress'
    <3>1. Ord(weights, peers, size, {q}, {q})
      BY <2>b DEF Ord, AfterAncestors
    <3>2. Fixing(q)'
      BY <2>1, <2>2, <2>b, <3>1 DEF Fixing, UpStops
    <3> QED
      BY <2>2, <3>2 DEF Progress
  <2>3. ASSUME Ord(weights, peers, size, {}, {q}), UpMoves(k) PROVE Progress'
    <3>1. peers[k] = q
      <4> SUFFICES ASSUME peers[k] # q PROVE FALSE
        OBVIOUS
      <4>1. LE(weights, peers[Par(k)], peers[k])
        BY <2>3, <2>a DEF Ord, AfterAncestors
      <4> QED
        BY <2>3, <2>a, <4>1 DEF LE
    <3>2. Ord(weights, Swapped(peers, Par(k), k), size, {}, {peers[k]})
      BY <1>0, <1>a, <2>3, <2>a, <3>1, UpSwap
    <3>3. RisingThenFix(Par(k), q)'
      BY <2>2, <2>3, <2>a, <3>1, <3>2 DEF RisingThenFix
    <3> QED
      BY <2>2, <2>3, <2>a, <3>3 DEF Progress
  <2>4. ASSUME peers[k] # q, Ord(weights, peers, size, {q}, {peers[k]}),
               CanReplace(weights, peers, size, peers[k], q), UpMoves(k)
        PROVE  Progress'
    <3>1. /\ Ord(weights, Swapped(peers, Par(k), k), size, {q}, {peers[k]})
          /\ CanReplace(weights, Swapped(peers, Par(k), k), size, peers[k], q)
      <4>1. {q} # {} /\ {q} \in SUBSET {q} /\ peers[k] \notin {q}
        BY <2>4
      <4> QED
        BY <1>0, <1>a, <2>4, <2>a, <4>1, UpSwap
    <3>2. RisingThenFix(Par(k), q)'
      BY <2>2, <2>4, <2>a, <3>1 DEF RisingThenFix
    <3> QED
      BY <2>2, <2>4, <2>a, <3>2 DEF Progress
  <2>5. ASSUME Ord(weights, peers, size, {q}, {peers[k]}), UpStops(k) PROVE Progress'
    <3>1. k \in 2 .. size => LE(weights, peers[Par(k)], peers[k])
      BY <2>5 DEF UpStops
    <3>2. Ord(weights, peers, size, {q}, {})
      BY <1>0, <1>a, <2>5, <3>1, UpEnds
    <3> QED
      BY <2>5, <2>b, <3>2
  <2> QED
    BY <1>3, <2>2, <2>3, <2>4, <2>5, <2>b DEF RisingThenFix
<1> QED
  BY <1>1, <1>2, <1>3

-----------------------------------------------------------------------------
(* The theorem.                                                            *)

LEMMA InvInit == HeapInit => Inv
<1> SUFFICES ASSUME HeapInit PROVE Inv
  OBVIOUS
<1>1. Base /\ size = 0
  BY HeapAssumption DEF HeapInit, Base, IndexIsPosition, size
<1>2. AtRest
  BY <1>1 DEF HeapInit, AtRest, Ord
<1> QED
  BY <1>1, <1>2 DEF Inv, Progress

LEMMA InvStep == Inv /\ [HeapNext]_heapVars => Inv'
<1> SUFFICES ASSUME Inv, [HeapNext]_heapVars PROVE Inv'
  OBVIOUS
<1>1. CASE HeapNext
  BY <1>1, CallStep, RisingStep, ShufflingStep, FixingStep, FixingTwoStep, RemovalStep
     DEF Inv, Progress
<1>2. CASE UNCHANGED heapVars
  <2>1. Base' /\ size' = size /\ Members' = Members /\ weights' = weights /\ peers' = peers /\ todo' = todo
    BY <1>2 DEF Inv, heapVars, Base, IndexIsPosition, size, Members, weights
  <2>2. Progress'
    BY <2>1 DEF Inv, Progress, AtRest, Rising, RisingFirst, Shuffling, FixingTwo, SinkingFirst,
       RisingThenFix, Fixing, Sinking, SinkingToPop, RisingToPop, PoppingFirst, Popping
  <2> QED
    BY <2>1, <2>2 DEF Inv
<1> QED
  BY <1>1, <1>2

\* For any number of peers, any ranks and any sequence of operations: the loops of
\* heap.push, fix, pop and remove stay inside the list, a peer's index is its position in
\* the middle of them too, and when an operation ends no peer comes before its parent; so
\* does add_and_shuffle, which disturbs two places of the heap and mends them in turn.
THEOREM HeapStaysSound == HeapSpec => []HeapIsSound
<1>1. HeapInit => Inv
  BY InvInit
<1>2. Inv /\ [HeapNext]_heapVars => Inv'
  BY InvStep
<1>3. Inv => HeapIsSound
  <2> SUFFICES ASSUME Inv PROVE HeapIsSound
    OBVIOUS
  <2>1. todo \in Seq(Tasks)
    BY ProgressType DEF Inv, Base
  <2>2. TypeOK /\ IndexIsPosition
    BY <2>1 DEF Inv, Base, TypeOK
  <2>3. HeapOrdered
    <3> SUFFICES ASSUME Idle, NEW i \in 2 .. size PROVE ~lt(i, i \div 2)
      BY DEF HeapOrdered
    <3>1. AtRest
      BY TodoFacts DEF Inv, Idle, Progress, AtRest, Rising, RisingFirst, Shuffling, FixingTwo,
         SinkingFirst, RisingThenFix, Fixing, Sinking, SinkingToPop, RisingToPop, PoppingFirst,
         Popping
    <3> QED
      BY <3>1, BeforeIsLess DEF AtRest, Ord, AfterAncestors, LE, Par, lt
  <2> QED
    BY <2>2, <2>3 DEF HeapIsSound
<1> QED
  BY <1>1, <1>2, <1>3, PTL DEF HeapSpec
-----------------------------------------------------------------------------
(* The group: what the heap does when the update of a removed peer looks   *)
(* at the place it once had, and who is in the heap.                       *)

\* The place of an update: in the list, or the first of an empty list.
Place(i) == i \in 1 .. size \/ i = 1

\* A peer that is not in the heap is updated: the heap is in order, and stays as it is.
Stale ==
  /\ Ord(weights, peers, size, {}, {})
  /\ \/ \E p \in Peers \ Members : todo = <<Fix(p)>> /\ Place(index[p])
     \/ \E i \in 1 .. size + 1 : Place(i) /\ (todo = <<Down(i, size), Up(i)>> \/ todo = <<Up(i)>>)

GroupHeap == Base /\ (Progress \/ Stale)

\* The operation in progress ends by dropping the last peer of the list.
PopDue == todo # <<>> /\ todo[Len(todo)] = Pop

\* The peers that are in the heap when the operation in progress ends.
Staying == {peers[i] : i \in 1 .. IF PopDue THEN size - 1 ELSE size}

\* A Peer object that was never made has no history, and one without the callback never was
\* in the heap.
PeerInv ==
  /\ \A p \in Peers : host[p] = NoHost =>
       connections[p] = <<>> /\ rank[p] = Tier[1] /\ p \notin watched /\ p \notin failed
  /\ \A p \in Peers : p \in watched <=> index[p] # 0
  /\ \A h \in Hosts : known[h] # NoPeer => host[known[h]] = h

\* Who is in the heap.
KeptInv ==
  /\ Members \subseteq watched
  /\ \A h \in Hosts : known[h] \in watched => known[h] \in Staying
  /\ clears = 0 => \A p \in Staying : known[host[p]] = p
  /\ \A h \in Hosts : known[h] \notin failed

\* The incoming connections of a deque are on its left.
IncomingFirst(cs, dir) ==
  \A i, j \in DOMAIN cs : i < j /\ dir[cs[j]] = "in" => dir[cs[i]] = "in"

\* A connection is in one deque, once.
ConnInv ==
  /\ \A p \in Peers : /\ IsInjective(connections[p])
                      /\ IncomingFirst(connections[p], direction)
                      /\ \A c \in ToSet(connections[p]) : direction[c] # "new"
  /\ \A p, q \in Peers : p # q => ToSet(connections[p]) \cap ToSet(connections[q]) = {}

GroupInv == GroupTypeOK /\ GroupHeap /\ PeerInv /\ KeptInv /\ ConnInv /\ RankIsCurrent

-----------------------------------------------------------------------------
(* Ranks are in their range.                                               *)

LEMMA LeastNumber ==
  ASSUME NEW B \in SUBSET Nat, B # {}
  PROVE  \E n \in B : \A m \in B : n <= m
<1> DEFINE T == {1 .. n : n \in B}
           R == StrictSubsetOrdering(Nat)
<1>1. T \subseteq FiniteSubsetsOf(Nat) /\ T # {}
  <2>1. \A n \in B : 1 .. n \in SUBSET Nat /\ IsFiniteSet(1 .. n)
    BY FS_Interval
  <2> QED
    BY <2>1 DEF FiniteSubsetsOf
<1>2. \E x \in T : \A y \in T : ~(<<y, x>> \in R)
  <2> HIDE DEF T, R
  <2>1. IsWellFoundedOn(R, FiniteSubsetsOf(Nat))
    BY FS_StrictSubsetOrderingWellFounded DEF R
  <2> QED
    BY <1>1, <2>1, WFMin
<1>3. PICK n \in B : \A y \in T : ~(<<y, 1 .. n>> \in R)
  BY <1>2
<1>4. ASSUME NEW m \in B, m < n PROVE FALSE
  <2>1. 1 .. m \in T /\ 1 .. m \subseteq 1 .. n /\ n \in 1 .. n /\ n \notin 1 .. m
    BY <1>4
  <2>2. <<1 .. m, 1 .. n>> \in R
    BY <2>1 DEF StrictSubsetOrdering
  <2> QED
    BY <1>3, <2>1, <2>2
<1> QED
  BY <1>4

\* s adds up the first n counts.
Sums(s, counts, n) == s = [k \in 0 .. n |-> IF k = 0 THEN 0 ELSE s[k - 1] + counts[k]]

LEMMA SumsExist ==
  ASSUME NEW v, NEW n \in Nat
  PROVE  \E s : Sums(s, v, n)
<1> DEFINE B == {m \in Nat : ~\E s : Sums(s, v, m)}
<1> SUFFICES ASSUME n \in B PROVE FALSE
  OBVIOUS
<1>1. PICK m \in B : \A k \in B : m <= k
  <2> HIDE DEF B
  <2>1. B \in SUBSET Nat
    BY DEF B
  <2> QED
    BY <2>1, LeastNumber
<1>2. CASE m = 0
  <2> DEFINE s == [k \in 0 .. 0 |-> 0]
  <2>1. Sums(s, v, 0)
    BY DEF Sums
  <2> QED
    BY <1>1, <1>2, <2>1
<1>3. CASE m # 0
  <2>1. m - 1 \in Nat /\ m \in Nat /\ m - 1 \notin B
    BY <1>1, <1>3
  <2>2. PICK s : Sums(s, v, m - 1)
    BY <2>1
  <2> DEFINE t == [k \in 0 .. m |-> IF k <= m - 1 THEN s[k] ELSE s[m - 1] + v[m]]
  <2>3. ASSUME NEW k \in 0 .. m
        PROVE  t[k] = IF k = 0 THEN 0 ELSE t[k - 1] + v[k]
    <3>1. CASE k = m
      BY <1>3, <2>1, <3>1
    <3>2. CASE k # m
      <4>1. k \in 0 .. m - 1 /\ (k # 0 => k - 1 \in 0 .. m - 1)
        BY <2>1, <3>2
      <4>2. t[k] = s[k] /\ (k # 0 => t[k - 1] = s[k - 1])
        BY <4>1
      <4>3. s[k] = IF k = 0 THEN 0 ELSE s[k - 1] + v[k]
        BY <2>2, <4>1 DEF Sums
      <4> QED
        BY <4>2, <4>3
    <3> QED
      BY <3>1, <3>2
  <2>4. t = [k \in 0 .. m |-> t[k]]
    OBVIOUS
  <2> HIDE DEF t
  <2>5. Sums(t, v, m)
    BY <2>3, <2>4 DEF Sums
  <2> QED
    BY <1>1, <2>5
<1> QED
  BY <1>2, <1>3

LEMMA TotalFacts ==
  ASSUME NEW M \in Nat, NEW v \in Seq(0 .. M)
  PROVE  Total(v) \in 0 .. M * Len(v)
<1> DEFINE n == Len(v)
           s == CHOOSE x : x = [k \in 0 .. n |-> IF k = 0 THEN 0 ELSE x[k - 1] + v[k]]
<1>0. n \in Nat /\ \A k \in 1 .. n : v[k] \in 0 .. M
  OBVIOUS
<1>1. Sums(s, v, n)
  BY <1>0, SumsExist DEF Sums
<1>2. Total(v) = s[n]
  BY DEF Total
<1> HIDE DEF s, n
<1> DEFINE B == {k \in 0 .. n : s[k] \notin 0 .. M * k}
<1>3. ASSUME B # {} PROVE FALSE
  <2>1. PICK m \in B : \A k \in B : m <= k
    <3> HIDE DEF B
    <3>1. B \in SUBSET Nat
      BY <1>0 DEF B
    <3> QED
      BY <1>3, <3>1, LeastNumber
  <2>2. m # 0
    <3>1. s[0] = 0
      BY <1>0, <1>1 DEF Sums
    <3> QED
      BY <2>1, <3>1
  <2>3. m \in Nat /\ m - 1 \in 0 .. n /\ m \in 1 .. n /\ m - 1 \notin B
    BY <1>0, <2>1, <2>2
  <2>4. s[m - 1] \in 0 .. M * (m - 1) /\ s[m] = s[m - 1] + v[m] /\ v[m] \in 0 .. M
    BY <1>0, <1>1, <2>2, <2>3 DEF Sums
  <2>5. M * (m - 1) + M = M * m /\ M * m \in Nat /\ M * (m - 1) \in Nat
    BY <2>3
  <2>6. s[m] \in 0 .. M * m
    <3> DEFINE a == M * (m - 1)
               b == M * m
    <3>1. a \in Nat /\ b \in Nat /\ a + M = b /\ s[m - 1] \in 0 .. a
      BY <2>4, <2>5
    <3> HIDE DEF a, b
    <3>2. s[m] \in 0 .. b
      BY <2>4, <3>1
    <3> QED
      BY <3>2 DEF b
  <2> QED
    BY <2>1, <2>6
<1>4. n \in 0 .. n
  BY <1>0
<1> QED
  BY <1>2, <1>3, <1>4 DEF n

-----------------------------------------------------------------------------
(* What happens to a deque of connections.                                 *)

\* What deque.remove does to a deque without duplicates.
LEMMA RemoveFacts ==
  ASSUME NEW S, NEW s \in Seq(S), IsInjective(s), NEW e
  PROVE  /\ RemoveFirst(s, e) \in Seq(S)
         /\ IsInjective(RemoveFirst(s, e))
         /\ ToSet(RemoveFirst(s, e)) = ToSet(s) \ {e}
         /\ \E f \in [DOMAIN RemoveFirst(s, e) -> DOMAIN s] :
              /\ \A i \in DOMAIN RemoveFirst(s, e) : RemoveFirst(s, e)[i] = s[f[i]]
              /\ \A i, j \in DOMAIN RemoveFirst(s, e) : i < j => f[i] < f[j]
<1>1. CASE \E i \in 1 .. Len(s) : s[i] = e
  <2>1. PICK k \in 1 .. Len(s) : s[k] = e
    BY <1>1
  <2>2. {i \in 1 .. Len(s) : s[i] = e} = {k}
    BY <2>1 DEF IsInjective
  <2>3. SelectInSeq(s, LAMBDA v : v = e) = k
    <3>1. Min({k}) = k
      BY DEF Min
    <3> QED
      BY <2>2, <3>1 DEF SelectInSeq
  <2> DEFINE front == SubSeq(s, 1, k - 1)
             back == SubSeq(s, k + 1, Len(s))
             t == front \o back
  <2>4. RemoveFirst(s, e) = t
    BY <1>1, <2>3 DEF RemoveFirst, RemoveAt
  <2>5. /\ t \in Seq(S) /\ Len(t) = Len(s) - 1
        /\ \A i \in 1 .. Len(t) : t[i] = IF i < k THEN s[i] ELSE s[i + 1]
    <3>1. /\ front \in Seq(S) /\ Len(front) = k - 1
          /\ \A i \in 1 .. k - 1 : front[i] = s[i]
      OBVIOUS
    <3>2. /\ back \in Seq(S) /\ Len(back) = Len(s) - k
          /\ \A i \in 1 .. Len(s) - k : back[i] = s[k + i]
      OBVIOUS
    <3> HIDE DEF front, back
    <3>3. /\ t \in Seq(S) /\ Len(t) = Len(front) + Len(back)
          /\ \A i \in 1 .. Len(front) : t[i] = front[i]
          /\ \A i \in 1 .. Len(back) : t[Len(front) + i] = back[i]
      <4>1. /\ t \in Seq(S) /\ Len(t) = Len(front) + Len(back)
            /\ \A i \in 1 .. Len(front) + Len(back) :
                  t[i] = IF i <= Len(front) THEN front[i] ELSE back[i - Len(front)]
        BY <3>1, <3>2, ConcatProperties
      <4> HIDE DEF t
      <4>2. Len(front) \in Nat /\ Len(back) \in Nat
        BY <3>1, <3>2
      <4>3. ASSUME NEW i \in 1 .. Len(back) PROVE t[Len(front) + i] = back[i]
        <5>1. /\ Len(front) + i \in 1 .. Len(front) + Len(back)
              /\ ~(Len(front) + i <= Len(front)) /\ (Len(front) + i) - Len(front) = i
          BY <4>2
        <5> QED
          BY <4>1, <5>1
      <4> QED
        BY <4>1, <4>2, <4>3
    <3> HIDE DEF t
    <3>4. ASSUME NEW i \in 1 .. Len(t)
          PROVE  t[i] = IF i < k THEN s[i] ELSE s[i + 1]
      <4>1. CASE i < k
        BY <3>1, <3>3, <4>1
      <4>2. CASE i >= k
        <5>1. i - k + 1 \in 1 .. Len(back)
          BY <3>1, <3>2, <3>3, <4>2
        <5>2. t[i] = back[i - k + 1] /\ back[i - k + 1] = s[i + 1]
          BY <3>1, <3>2, <3>3, <5>1
        <5> QED
          BY <4>2, <5>2
      <4> QED
        BY <4>1, <4>2
    <3> QED
      BY <3>1, <3>2, <3>3, <3>4
  <2> HIDE DEF t
  <2>6. IsInjective(t)
    BY <2>5, SMTT(30) DEF IsInjective
  <2>7. ToSet(t) = ToSet(s) \ {e}
    <3>1. \A x \in ToSet(t) : x \in ToSet(s) /\ x # e
      BY <2>1, <2>5 DEF ToSet, IsInjective
    <3>2. ASSUME NEW i \in 1 .. Len(s), s[i] # e PROVE s[i] \in ToSet(t)
      <4>1. CASE i < k
        BY <2>5, <4>1 DEF ToSet
      <4>2. CASE i > k
        <5>1. i - 1 \in 1 .. Len(t) /\ t[i - 1] = s[i]
          BY <2>1, <2>5, <4>2
        <5> QED
          BY <5>1, <2>5 DEF ToSet
      <4> QED
        BY <4>1, <4>2, <3>2, <2>1
    <3>3. \A x \in ToSet(s) \ {e} : x \in ToSet(t)
      BY <3>2 DEF ToSet
    <3> QED
      BY <3>1, <3>3
  <2>8. \E f \in [DOMAIN t -> DOMAIN s] :
          /\ \A i \in DOMAIN t : t[i] = s[f[i]]
          /\ \A i, j \in DOMAIN t : i < j => f[i] < f[j]
    <3> DEFINE f == [i \in DOMAIN t |-> IF i < k THEN i ELSE i + 1]
    <3>1. DOMAIN t = 1 .. Len(t) /\ DOMAIN s = 1 .. Len(s) /\ Len(t) = Len(s) - 1
      BY <2>5
    <3>2. f \in [DOMAIN t -> DOMAIN s] /\ \A i \in DOMAIN t : t[i] = s[f[i]]
      BY <2>5, <3>1
    <3>3. \A i, j \in DOMAIN t : i < j => f[i] < f[j]
      BY <3>1
    <3> QED
      BY <3>2, <3>3
  <2> QED
    BY <2>4, <2>5, <2>6, <2>7, <2>8
<1>2. CASE ~\E i \in 1 .. Len(s) : s[i] = e
  <2>1. RemoveFirst(s, e) = s /\ ToSet(s) = ToSet(s) \ {e}
    BY <1>2 DEF RemoveFirst, ToSet
  <2> DEFINE f == [i \in DOMAIN s |-> i]
  <2>2. /\ f \in [DOMAIN s -> DOMAIN s] /\ \A i \in DOMAIN s : s[i] = s[f[i]]
        /\ \A i, j \in DOMAIN s : i < j => f[i] < f[j]
    OBVIOUS
  <2> HIDE DEF f
  <2> QED
    BY <2>1, <2>2
<1> QED
  BY <1>1, <1>2

LEMMA AddPlaces ==
  ASSUME NEW S, NEW s \in Seq(S), NEW e \in S
  PROVE  /\ Append(s, e) \in Seq(S) /\ Len(Append(s, e)) = Len(s) + 1
         /\ Append(s, e)[Len(s) + 1] = e /\ \A i \in 1 .. Len(s) : Append(s, e)[i] = s[i]
         /\ <<e>> \o s \in Seq(S) /\ Len(<<e>> \o s) = Len(s) + 1 /\ (<<e>> \o s)[1] = e
         /\ \A i \in 1 .. Len(s) : (<<e>> \o s)[i + 1] = s[i]
<1>1. /\ Append(s, e) \in Seq(S) /\ Len(Append(s, e)) = Len(s) + 1
      /\ Append(s, e)[Len(s) + 1] = e /\ \A i \in 1 .. Len(s) : Append(s, e)[i] = s[i]
  OBVIOUS
<1>2. <<e>> \in Seq(S) /\ Len(<<e>>) = 1 /\ <<e>>[1] = e
  OBVIOUS
<1>3. /\ <<e>> \o s \in Seq(S) /\ Len(<<e>> \o s) = Len(s) + 1 /\ (<<e>> \o s)[1] = e
      /\ \A i \in 1 .. Len(s) : (<<e>> \o s)[i + 1] = s[i]
  BY <1>2, ConcatProperties
<1> QED
  BY <1>1, <1>3

\* What deque.append and appendleft do to a deque without duplicates.
LEMMA AddFacts ==
  ASSUME NEW S, NEW s \in Seq(S), IsInjective(s), NEW e \in S, e \notin ToSet(s)
  PROVE  /\ Append(s, e) \in Seq(S) /\ <<e>> \o s \in Seq(S)
         /\ IsInjective(Append(s, e)) /\ IsInjective(<<e>> \o s)
         /\ ToSet(Append(s, e)) = ToSet(s) \cup {e}
         /\ ToSet(<<e>> \o s) = ToSet(s) \cup {e}
<1>1. \A i \in 1 .. Len(s) : s[i] # e
  BY DEF ToSet
<1> DEFINE t == Append(s, e)
           u == <<e>> \o s
<1>2. /\ t \in Seq(S) /\ Len(t) = Len(s) + 1 /\ t[Len(s) + 1] = e
      /\ \A i \in 1 .. Len(s) : t[i] = s[i]
  BY AddPlaces
<1>3. /\ u \in Seq(S) /\ Len(u) = Len(s) + 1 /\ u[1] = e
      /\ \A i \in 1 .. Len(s) : u[i + 1] = s[i]
  BY AddPlaces
<1> HIDE DEF t, u
<1>4. IsInjective(t) /\ ToSet(t) = ToSet(s) \cup {e}
  BY <1>1, <1>2 DEF IsInjective, ToSet
<1>5. IsInjective(u)
  <2>1. \A i \in 2 .. Len(u) : i - 1 \in 1 .. Len(s) /\ u[i] = s[i - 1]
    BY <1>3
  <2>2. ASSUME NEW i \in DOMAIN u, NEW j \in DOMAIN u, u[i] = u[j], i < j PROVE FALSE
    <3>1. i \in 1 .. Len(u) /\ j \in 2 .. Len(u)
      BY <1>3, <2>2
    <3>2. CASE i = 1
      BY <1>1, <1>3, <2>1, <2>2, <3>1, <3>2
    <3>3. CASE i # 1
      BY <1>3, <2>1, <2>2, <3>1, <3>3, SMTT(30) DEF IsInjective
    <3> QED
      BY <3>2, <3>3
  <2>3. DOMAIN u = 1 .. Len(u)
    BY <1>3
  <2> QED
    BY <1>3, <2>2, <2>3 DEF IsInjective
<1>6. ToSet(u) = ToSet(s) \cup {e}
  <2>1. \A i \in 2 .. Len(u) : i - 1 \in 1 .. Len(s) /\ u[i] = s[i - 1]
    BY <1>3
  <2>2. DOMAIN u = 1 .. Len(u) /\ DOMAIN s = 1 .. Len(s)
    BY <1>3
  <2>3. \A x \in ToSet(u) : x \in ToSet(s) \cup {e}
    BY <1>3, <2>1, <2>2, SMTT(30) DEF ToSet
  <2>4. ASSUME NEW i \in 1 .. Len(s) PROVE s[i] \in ToSet(u)
    <3>1. i + 1 \in 1 .. Len(u) /\ u[i + 1] = s[i]
      BY <1>3
    <3> QED
      BY <2>2, <3>1 DEF ToSet
  <2>5. e \in ToSet(u)
    BY <1>3, <2>2 DEF ToSet
  <2> QED
    BY <2>2, <2>3, <2>4, <2>5 DEF ToSet
<1> QED
  BY <1>2, <1>3, <1>4, <1>5, <1>6 DEF t, u

\* The incoming connections stay on the left.
LEMMA RemoveIncoming ==
  ASSUME NEW s \in Seq(Conns), IsInjective(s), NEW c, NEW dir, IncomingFirst(s, dir)
  PROVE  IncomingFirst(RemoveFirst(s, c), dir)
<1> DEFINE t == RemoveFirst(s, c)
<1>1. PICK f \in [DOMAIN t -> DOMAIN s] :
        /\ \A i \in DOMAIN t : t[i] = s[f[i]]
        /\ \A i, j \in DOMAIN t : i < j => f[i] < f[j]
  BY RemoveFacts
<1> HIDE DEF t
<1>2. IncomingFirst(t, dir)
  BY <1>1 DEF IncomingFirst
<1> QED
  BY <1>2 DEF t

LEMMA AddIncomings ==
  ASSUME NEW s \in Seq(Conns), IsInjective(s), NEW c \in Conns, c \notin ToSet(s), NEW dir,
         NEW new, IncomingFirst(s, dir), \A e \in ToSet(s) : new[e] = dir[e]
  PROVE  /\ new[c] = "out" => IncomingFirst(Append(s, c), new)
         /\ new[c] = "in" => IncomingFirst(<<c>> \o s, new)
<1> DEFINE t == Append(s, c)
           u == <<c>> \o s
<1>1. /\ Len(s) \in Nat /\ \A i \in 1 .. Len(s) : new[s[i]] = dir[s[i]]
      /\ \A i, j \in 1 .. Len(s) : i < j /\ dir[s[j]] = "in" => dir[s[i]] = "in"
  BY DEF ToSet, IncomingFirst
<1>2. /\ DOMAIN t = 1 .. Len(s) + 1 /\ t[Len(s) + 1] = c /\ \A i \in 1 .. Len(s) : t[i] = s[i]
      /\ DOMAIN u = 1 .. Len(s) + 1 /\ u[1] = c /\ \A i \in 1 .. Len(s) : u[i + 1] = s[i]
  BY AddPlaces
<1> HIDE DEF t, u
<1>3. ASSUME new[c] = "out" PROVE IncomingFirst(t, new)
  BY <1>1, <1>2, <1>3 DEF IncomingFirst
<1>4. ASSUME new[c] = "in" PROVE IncomingFirst(u, new)
  <2> SUFFICES ASSUME NEW i \in DOMAIN u, NEW j \in DOMAIN u, i < j, new[u[j]] = "in"
               PROVE  new[u[i]] = "in"
    BY DEF IncomingFirst
  <2>1. CASE i = 1
    BY <1>2, <1>4, <2>1
  <2>2. CASE i # 1
    <3>1. /\ i - 1 \in 1 .. Len(s) /\ j - 1 \in 1 .. Len(s) /\ i - 1 < j - 1
          /\ i = (i - 1) + 1 /\ j = (j - 1) + 1
      BY <1>1, <1>2, <2>2
    <3>2. u[i] = s[i - 1] /\ u[j] = s[j - 1]
      BY <1>2, <3>1
    <3> QED
      BY <1>1, <3>1, <3>2
  <2> QED
    BY <2>1, <2>2
<1> QED
  BY <1>3, <1>4 DEF t, u

-----------------------------------------------------------------------------
(* The rank of a peer with the connections cs.                             *)

RankOf(cs, pend, dir) ==
  IF cs = <<>> THEN Tier[1]
  ELSE IF \E k \in DOMAIN cs : dir[cs[k]] = "in" THEN Tier[3] + total_outbound_pendings(cs, pend)
  ELSE Tier[2] + Rounded(total_outbound_pendings(cs, pend))

LEMMA DivMod ==
  ASSUME NEW n \in Nat, NEW g \in Nat \ {0}
  PROVE  /\ n \div g \in Nat /\ n % g \in 0 .. g - 1 /\ g * (n \div g) \in Nat
         /\ n = g * (n \div g) + (n % g)
OBVIOUS

LEMMA Multiples ==
  ASSUME NEW g \in Nat \ {0}, NEW a \in Nat, NEW b \in Nat, a < b
  PROVE  g * a \in Nat /\ g * b \in Nat /\ g * a + g <= g * b
<1>1. \A x, y \in Nat : g * (x + y) = g * x + g * y /\ g * x \in Nat
  OBVIOUS
<1>2. PICK d \in Nat : b = a + 1 + d
  <2>1. b - a - 1 \in Nat /\ b = a + 1 + (b - a - 1)
    OBVIOUS
  <2> QED
    BY <2>1
<1>3. g * b = g * (a + 1) + g * d /\ g * (a + 1) = g * a + g * 1 /\ g * 1 = g
  BY <1>1, <1>2
<1> QED
  BY <1>1, <1>3

\* A sum is off by half the space at most, and keeps its order.
LEMMA RoundedFacts ==
  ASSUME NEW n \in Nat
  PROVE  /\ Rounded(n) \in Nat
         /\ Rounded(n) <= n + Grain /\ 2 * Rounded(n) <= 2 * n + Grain
         /\ 2 * Rounded(n) >= 2 * n - Grain
<1>1. Grain \in Nat \ {0}
  BY GroupAssumption
<1> DEFINE low == Grain * (n \div Grain)
           over == n % Grain
<1>2. low \in Nat /\ over \in 0 .. Grain - 1 /\ n = low + over
  BY <1>1, DivMod
<1>3. \/ Rounded(n) = n - over + Grain /\ 2 * over >= Grain
      \/ Rounded(n) = n - over /\ 2 * over <= Grain
  BY <1>1, <1>2 DEF Rounded
<1> HIDE DEF low, over
<1> QED
  BY <1>1, <1>2, <1>3

LEMMA RoundedKeepsOrder ==
  ASSUME NEW n \in Nat, NEW m \in Nat, n <= m
  PROVE  Rounded(n) <= Rounded(m)
<1>1. Grain \in Nat \ {0}
  BY GroupAssumption
<1> DEFINE a == n \div Grain
           b == m \div Grain
           u == n % Grain
           v == m % Grain
           x == Grain * a
           y == Grain * b
<1>2. /\ a \in Nat /\ u \in 0 .. Grain - 1 /\ x \in Nat /\ n = x + u
      /\ b \in Nat /\ v \in 0 .. Grain - 1 /\ y \in Nat /\ m = y + v
  BY <1>1, DivMod
<1>3. /\ Rounded(n) = IF 2 * u > Grain \/ (2 * u = Grain /\ a % 2 = 1)
                      THEN n - u + Grain ELSE n - u
      /\ Rounded(m) = IF 2 * v > Grain \/ (2 * v = Grain /\ b % 2 = 1)
                      THEN m - v + Grain ELSE m - v
  BY DEF Rounded
<1>4. a < b => x + Grain <= y
  BY <1>1, <1>2, Multiples
<1>5. b < a => y + Grain <= x
  BY <1>1, <1>2, Multiples
<1>6. a = b => x = y
  OBVIOUS
<1> HIDE DEF a, b, u, v, x, y
<1>7. CASE a = b
  <2>1. x = y /\ u <= v
    BY <1>1, <1>2, <1>6, <1>7
  <2> QED
    BY <1>1, <1>2, <1>3, <1>7, <2>1
<1>8. CASE a < b
  <2>1. Rounded(n) <= x + Grain /\ y <= Rounded(m) /\ Rounded(n) \in Int /\ Rounded(m) \in Int
    BY <1>1, <1>2, <1>3
  <2> QED
    BY <1>1, <1>2, <1>4, <1>8, <2>1
<1>9. ~(b < a)
  BY <1>1, <1>2, <1>5
<1> QED
  BY <1>2, <1>7, <1>8, <1>9

LEMMA TierFacts ==
  /\ Tier[1] = 2 * (MaxOutbound + Grain) + 1 /\ Tier[2] = MaxOutbound + Grain + 1 /\ Tier[3] = 0
  /\ MaxOutbound \in Nat /\ Grain \in Nat \ {0}
<1>1. Cardinality(Conns) \in Nat
  BY FS_CardinalityType, GroupAssumption
<1>2. \A m, a \in Nat : m * a \in Nat
  OBVIOUS
<1> QED
  BY <1>1, <1>2, GroupAssumption DEF Tier, MaxOutbound

LEMMA OutboundBound ==
  ASSUME NEW cs \in Seq(Conns), IsInjective(cs), NEW pend \in [Conns -> 0 .. MaxPending]
  PROVE  total_outbound_pendings(cs, pend) \in 0 .. MaxOutbound
<1> DEFINE v == [k \in DOMAIN cs |-> pend[cs[k]]]
<1>1. v \in Seq(0 .. MaxPending) /\ Len(v) = Len(cs)
  <2>1. DOMAIN cs = 1 .. Len(cs) /\ Len(cs) \in Nat /\ \A k \in 1 .. Len(cs) : pend[cs[k]] \in 0 .. MaxPending
    OBVIOUS
  <2>2. v \in [1 .. Len(cs) -> 0 .. MaxPending]
    BY <2>1
  <2> QED
    BY <2>1, <2>2, LenProperties, SeqDef
<1>2. total_outbound_pendings(cs, pend) \in 0 .. MaxPending * Len(cs)
  <2> HIDE DEF v
  <2>1. Total(v) \in 0 .. MaxPending * Len(cs)
    BY <1>1, TotalFacts, GroupAssumption
  <2> QED
    BY <2>1 DEF v, total_outbound_pendings
<1>3. Len(cs) <= Cardinality(Conns) /\ Cardinality(Conns) \in Nat /\ Len(cs) \in Nat
  <2>1. DOMAIN cs = 1 .. Len(cs) /\ Len(cs) \in Nat
    OBVIOUS
  <2>2. cs \in Injection(1 .. Len(cs), Conns)
    <3>1. cs \in [1 .. Len(cs) -> Conns]
      OBVIOUS
    <3> QED
      BY <2>1, <3>1 DEF IsInjective, Injection
  <2>3. Cardinality(1 .. Len(cs)) <= Cardinality(Conns)
    BY <2>2, FS_Injection, GroupAssumption DEF ExistsInjection
  <2>4. Cardinality(1 .. Len(cs)) = Len(cs)
    <3>1. Cardinality(1 .. Len(cs)) = IF 1 > Len(cs) THEN 0 ELSE Len(cs) - 1 + 1
      BY <2>1, FS_Interval
    <3> QED
      BY <2>1, <3>1
  <2> QED
    BY <2>1, <2>3, <2>4, FS_CardinalityType, GroupAssumption
<1>4. MaxPending * Len(cs) <= MaxOutbound /\ MaxOutbound \in Nat /\ MaxPending * Len(cs) \in Nat
  <2>1. \A m, a, b \in Nat : a <= b => m * a <= m * b /\ m * a \in Nat /\ m * b \in Nat
    OBVIOUS
  <2> QED
    BY <1>3, <2>1, GroupAssumption DEF MaxOutbound
<1> DEFINE a == total_outbound_pendings(cs, pend)
           b == MaxPending * Len(cs)
<1>5. a \in 0 .. b /\ b \in Nat /\ b <= MaxOutbound /\ MaxOutbound \in Nat
  BY <1>2, <1>4
<1> HIDE DEF a, b, MaxOutbound
<1>6. a \in 0 .. MaxOutbound
  BY <1>5
<1> QED
  BY <1>6 DEF a

LEMMA RankInRanks ==
  ASSUME NEW cs \in Seq(Conns), IsInjective(cs), NEW pend \in [Conns -> 0 .. MaxPending], NEW dir
  PROVE  RankOf(cs, pend, dir) \in Ranks
<1> DEFINE a == total_outbound_pendings(cs, pend)
<1>1. a \in 0 .. MaxOutbound /\ MaxOutbound \in Nat
  BY OutboundBound, TierFacts
<1>2. Rounded(a) \in Nat /\ Rounded(a) <= a + Grain
  BY <1>1, RoundedFacts
<1> HIDE DEF a
<1>3. /\ Tier[3] + a \in 0 .. Tier[1] /\ Tier[2] + Rounded(a) \in 0 .. Tier[1]
      /\ Tier[1] \in 0 .. Tier[1]
  BY <1>1, <1>2, TierFacts
<1> QED
  BY <1>3, RanksAssumption DEF RankOf, a

\* How two ranks compare.
LEMMA RanksCompare ==
  ASSUME NEW a \in 0 .. MaxOutbound, NEW b \in 0 .. MaxOutbound
  PROVE  /\ Tier[3] + a < Tier[2] + Rounded(b) /\ Tier[3] + a < Tier[1]
         /\ Tier[2] + Rounded(a) < Tier[1]
         /\ Tier[3] + a < Tier[3] + b <=> a < b
         /\ a <= b => Tier[2] + Rounded(a) <= Tier[2] + Rounded(b)
         /\ a + Grain < b => Tier[2] + Rounded(a) < Tier[2] + Rounded(b)
<1>1. a \in Nat /\ b \in Nat /\ a <= MaxOutbound /\ b <= MaxOutbound
  BY TierFacts
<1>2. /\ Rounded(a) \in Nat /\ Rounded(a) <= a + Grain /\ 2 * Rounded(a) <= 2 * a + Grain
      /\ Rounded(b) \in Nat /\ 2 * Rounded(b) >= 2 * b - Grain
  BY <1>1, RoundedFacts
<1>3. a <= b => Rounded(a) <= Rounded(b)
  BY <1>1, RoundedKeepsOrder
<1> DEFINE x == Rounded(a)
           y == Rounded(b)
<1>4. /\ x \in Nat /\ x <= a + Grain /\ 2 * x <= 2 * a + Grain
      /\ y \in Nat /\ 2 * y >= 2 * b - Grain /\ (a <= b => x <= y)
  BY <1>2, <1>3
<1> HIDE DEF x, y
<1>5. /\ Tier[3] + a < Tier[2] + y /\ Tier[3] + a < Tier[1]
      /\ Tier[2] + x < Tier[1]
      /\ Tier[3] + a < Tier[3] + b <=> a < b
      /\ a <= b => Tier[2] + x <= Tier[2] + y
      /\ a + Grain < b => Tier[2] + x < Tier[2] + y
  BY <1>1, <1>4, TierFacts
<1> QED
  BY <1>5 DEF x, y

\* A rank depends on the peer's own connections only.
LEMMA RankStays ==
  ASSUME NEW cs \in Seq(Conns), NEW pend, NEW dir, NEW pend2, NEW dir2,
         \A c \in ToSet(cs) : pend2[c] = pend[c] /\ dir2[c] = dir[c]
  PROVE  RankOf(cs, pend2, dir2) = RankOf(cs, pend, dir)
<1>1. \A k \in DOMAIN cs : pend2[cs[k]] = pend[cs[k]] /\ dir2[cs[k]] = dir[cs[k]]
  BY DEF ToSet
<1>2. [k \in DOMAIN cs |-> pend2[cs[k]]] = [k \in DOMAIN cs |-> pend[cs[k]]]
  BY <1>1
<1>3. total_outbound_pendings(cs, pend2) = total_outbound_pendings(cs, pend)
  BY <1>2 DEF total_outbound_pendings
<1> QED
  BY <1>1, <1>3 DEF RankOf

\* get_rank looks at the leftmost connection only, which is enough.
LEMMA GetRankIsRank ==
  ASSUME NEW cs \in Seq(Conns), IncomingFirst(cs, direction'), NEW pend
  PROVE  get_rank(cs, pend) = RankOf(cs, pend, direction')
<1>1. CASE cs = <<>>
  BY <1>1 DEF get_rank, RankOf
<1>2. CASE cs # <<>>
  <2>1. Len(cs) \in Nat /\ DOMAIN cs = 1 .. Len(cs) /\ 1 \in DOMAIN cs
    BY <1>2
  <2>2. has_incoming_connections(cs) <=> \E k \in DOMAIN cs : direction'[cs[k]] = "in"
    BY <1>2, <2>1 DEF has_incoming_connections, IncomingFirst
  <2> QED
    BY <1>2, <2>2 DEF get_rank, RankOf
<1> QED
  BY <1>1, <1>2

-----------------------------------------------------------------------------
(* What a step of the heap leaves alone.                                   *)

\* The last call of t drops the last peer.
Due(t) == t # <<>> /\ t[Len(t)] = Pop

LEMMA DueFacts ==
  /\ ~Due(<<>>)
  /\ \A a : Due(<<a>>) <=> a = Pop
  /\ \A a, b : Due(<<a, b>>) <=> b = Pop
  /\ \A a, b, c : Due(<<a, b, c>>) <=> c = Pop
  /\ \A k : Pop # Up(k) /\ \A c, n : Pop # Down(c, n)
  /\ \A p : Pop # Fix(p) /\ Pop # Shuffle(p)
<1>1. ~Due(<<>>) /\ \A a : Due(<<a>>) <=> a = Pop
  BY DEF Due
<1>2. \A a, b : Due(<<a, b>>) <=> b = Pop
  BY DEF Due
<1>3. \A a, b, c : Due(<<a, b, c>>) <=> c = Pop
  BY DEF Due
<1>4. /\ \A k : Pop # Up(k) /\ \A c, n : Pop # Down(c, n)
      /\ \A p : Pop # Fix(p) /\ Pop # Shuffle(p)
  <2>1. /\ \A k : Up(k).f = "up" /\ \A c, n : Down(c, n).f = "down"
        /\ \A p : Fix(p).f = "fix" /\ Shuffle(p).f = "shuffle" /\ Pop.f = "pop"
    BY DEF Up, Down, Fix, Shuffle, Pop
  <2> QED
    BY <2>1
<1> QED
  BY <1>1, <1>2, <1>3, <1>4

\* What a call puts in its place does not change what comes last.
LEMMA DueAfter ==
  ASSUME NEW T, NEW u \in Seq(T), NEW t \in Seq(T), t # <<>>, u # <<>> => u[Len(u)] # Pop
  PROVE  Due(u \o Tail(t)) <=> Due(t) /\ Tail(t) # <<>>
<1> DEFINE v == u \o Tail(t)
<1>1. /\ Tail(t) \in Seq(T) /\ Len(Tail(t)) = Len(t) - 1 /\ Len(t) \in Nat /\ Len(t) >= 1
      /\ \A i \in 1 .. Len(t) - 1 : Tail(t)[i] = t[i + 1]
  OBVIOUS
<1>2. /\ v \in Seq(T) /\ Len(v) = Len(u) + Len(Tail(t)) /\ Len(u) \in Nat
      /\ \A i \in 1 .. Len(u) + Len(Tail(t)) :
           v[i] = IF i <= Len(u) THEN u[i] ELSE Tail(t)[i - Len(u)]
  BY <1>1, ConcatProperties
<1> HIDE DEF v
<1>3. CASE Tail(t) = <<>>
  <2>1. Len(v) = Len(u) /\ \A i \in 1 .. Len(u) : v[i] = u[i]
    <3>1. Len(Tail(t)) = 0
      <4>1. Len(<<>>) = 0
        OBVIOUS
      <4> QED
        BY <1>3, <4>1, Zenon
    <3>2. Len(u) + Len(Tail(t)) = Len(u)
      <4>1. Len(u) \in Nat
        OBVIOUS
      <4> DEFINE a == Len(u)
                 b == Len(Tail(t))
      <4>2. a \in Nat /\ b = 0
        BY <3>1, <4>1
      <4> HIDE DEF a, b
      <4>3. a + b = a
        BY <4>2
      <4> QED
        BY <4>3 DEF a, b
    <3> QED
      BY <1>2, <3>2
  <2>2. ~Due(v)
    <3> SUFFICES ASSUME Due(v) PROVE FALSE
      OBVIOUS
    <3>1. v # <<>> /\ v[Len(v)] = Pop /\ Len(v) >= 1
      BY <1>2 DEF Due
    <3>2. u # <<>> /\ v[Len(v)] = u[Len(u)]
      BY <1>2, <2>1, <3>1
    <3> QED
      BY <3>1, <3>2
  <2> QED
    BY <1>3, <2>2 DEF v
<1>4. CASE Tail(t) # <<>>
  <2>1. Len(t) >= 2 /\ Len(v) = Len(u) + (Len(t) - 1)
    BY <1>1, <1>2, <1>4
  <2>2. v[Len(v)] = Tail(t)[Len(t) - 1] /\ v # <<>>
    BY <1>1, <1>2, <2>1
  <2>3. Tail(t)[Len(t) - 1] = t[Len(t)]
    BY <1>1, <2>1
  <2> QED
    BY <1>4, <2>2, <2>3 DEF Due, v
<1> QED
  BY <1>3, <1>4

\* The next call of an operation.
LEMMA NextCall ==
  ASSUME Base, Progress, todo # <<>>
  PROVE  \/ /\ ~Due(todo)
            /\ \/ \E k \in 1 .. size : Head(todo) = Up(k)
               \/ \E c \in 1 .. size : Head(todo) = Down(c, size)
               \/ \E p \in Members : Head(todo) = Fix(p) \/ Head(todo) = Shuffle(p)
         \/ /\ Due(todo) /\ Tail(todo) # <<>>
            /\ \/ \E k \in 1 .. size - 1 : Head(todo) = Up(k)
               \/ \E c \in 1 .. size : Head(todo) = Down(c, size - 1)
         \/ todo = <<Pop>> /\ size > 0
<1>1. ~AtRest
  BY DEF AtRest
<1>2. ASSUME NEW k \in 1 .. size, Rising(k) PROVE ~Due(todo) /\ Head(todo) = Up(k)
  BY <1>2, TodoFacts, DueFacts DEF Rising
<1>3. ASSUME NEW k \in 1 .. size, NEW p \in Members, RisingFirst(k, p) \/ RisingThenFix(k, p)
      PROVE  ~Due(todo) /\ Head(todo) = Up(k)
  BY <1>3, TodoFacts, DueFacts DEF RisingFirst, RisingThenFix
<1>4. ASSUME NEW p \in Members, Shuffling(p) \/ Fixing(p)
      PROVE  ~Due(todo) /\ (Head(todo) = Fix(p) \/ Head(todo) = Shuffle(p))
  BY <1>4, TodoFacts, DueFacts DEF Shuffling, Fixing
<1>5. ASSUME NEW p \in Members, NEW q \in Members, FixingTwo(p, q)
      PROVE  ~Due(todo) /\ Head(todo) = Fix(p)
  BY <1>5, TodoFacts, DueFacts DEF FixingTwo
<1>6. ASSUME NEW c \in 1 .. size, NEW k \in 1 .. size, NEW q \in Members, SinkingFirst(c, k, q)
      PROVE  ~Due(todo) /\ Head(todo) = Down(c, size)
  BY <1>6, TodoFacts, DueFacts DEF SinkingFirst
<1>7. ASSUME NEW c \in 1 .. size, NEW k \in 1 .. size, Sinking(c, k)
      PROVE  ~Due(todo) /\ Head(todo) = Down(c, size)
  BY <1>7, TodoFacts, DueFacts DEF Sinking
<1>8. ASSUME NEW c \in 1 .. size - 1, NEW k \in 1 .. size - 1, SinkingToPop(c, k)
      PROVE  Due(todo) /\ Tail(todo) # <<>> /\ Head(todo) = Down(c, size - 1) /\ c \in 1 .. size
  <2>1. c \in 1 .. size
    BY BaseFacts
  <2> QED
    BY <1>8, <2>1, TodoFacts, DueFacts DEF SinkingToPop
<1>9. ASSUME NEW k \in 1 .. size - 1, RisingToPop(k)
      PROVE  Due(todo) /\ Tail(todo) # <<>> /\ Head(todo) = Up(k)
  BY <1>9, TodoFacts, DueFacts DEF RisingToPop
<1>10. ASSUME NEW c \in 1 .. size, PoppingFirst(c)
       PROVE  Due(todo) /\ Tail(todo) # <<>> /\ Head(todo) = Down(c, size - 1)
  BY <1>10, TodoFacts, DueFacts DEF PoppingFirst
<1>11. Popping => todo = <<Pop>> /\ size > 0
  BY DEF Popping
<1> QED
  BY <1>1, <1>2, <1>3, <1>4, <1>5, <1>6, <1>7, <1>8, <1>9, <1>10, <1>11 DEF Progress

\* Who is in the heap when the operation in progress ends.
LEMMA StayingFacts ==
  ASSUME Base, PopDue => size > 0
  PROVE  Staying = IF PopDue THEN Members \ {peers[size]} ELSE Members
<1>1. /\ size \in Nat /\ size = Len(peers) /\ peers \in Seq(Peers)
      /\ \A i, j \in 1 .. size : peers[i] = peers[j] => i = j
  BY BaseFacts DEF Distinct
<1>2. CASE ~PopDue
  BY <1>2 DEF Staying, Members
<1>3. CASE PopDue
  <2>1. Staying = {peers[i] : i \in 1 .. size - 1}
    BY <1>3 DEF Staying
  <2>2. size \in 1 .. size /\ \A i \in 1 .. size : i \in 1 .. size - 1 <=> i # size
    BY <1>1, <1>3
  <2>3. {peers[i] : i \in 1 .. size - 1} = {peers[i] : i \in 1 .. size} \ {peers[size]}
    BY <1>1, <2>2
  <2> QED
    BY <1>3, <2>1, <2>3 DEF Members
<1> QED
  BY <1>2, <1>3

\* What every step of the heap keeps: the ranks, who stays, and who has ever been in it.
Keeps ==
  /\ rank' = rank /\ Staying' = Staying /\ Members' \subseteq Members
  /\ \A p \in Peers : index'[p] = 0 <=> index[p] = 0

\* The peers change places, and the last one keeps its own if it is to go.
LEMMA KeepsPlaces ==
  ASSUME Base, Base', size' = size, Members' = Members, rank' = rank,
         PopDue' <=> PopDue, PopDue => size > 0 /\ peers'[size] = peers[size],
         \A p \in Peers \ Members : index'[p] = index[p]
  PROVE  Keeps
<1>1. Staying = IF PopDue THEN Members \ {peers[size]} ELSE Members
  BY StayingFacts
<1>2. Staying' = IF PopDue' THEN Members' \ {peers'[size']} ELSE Members'
  <2>1. PopDue' => size' > 0
    OBVIOUS
  <2>2. /\ size' \in Nat /\ \A i, j \in 1 .. size' : peers'[i] = peers'[j] => i = j
    <3>1. \A i \in 1 .. size' : index'[peers'[i]] = i
      BY DEF Base, IndexIsPosition
    <3>2. size' \in Nat
      BY BaseFacts
    <3> QED
      BY <3>1, <3>2
  <2>3. CASE ~PopDue'
    BY <2>3 DEF Staying, Members
  <2>4. CASE PopDue'
    <3> DEFINE n == size'
               x == peers'
    <3>1. n \in Nat /\ n \in 1 .. n /\ \A i \in 1 .. n : i \in 1 .. n - 1 <=> i # n
      BY <2>1, <2>2, <2>4
    <3>2. Staying' = {x[i] : i \in 1 .. n - 1} /\ Members' = {x[i] : i \in 1 .. n}
      BY <2>4 DEF Staying, Members
    <3> HIDE DEF n, x
    <3>3. {x[i] : i \in 1 .. n - 1} = {x[i] : i \in 1 .. n} \ {x[n]}
      <4>1. \A i, j \in 1 .. n : x[i] = x[j] => i = j
        BY <2>2 DEF n, x
      <4> QED
        BY <3>1, <4>1
    <3> QED
      BY <2>4, <3>2, <3>3 DEF n, x
  <2> QED
    BY <2>3, <2>4
<1>3. Staying' = Staying
  BY <1>1, <1>2
<1>4. ASSUME NEW p \in Peers PROVE index'[p] = 0 <=> index[p] = 0
  <2>1. CASE p \in Members
    <3>1. PICK i \in 1 .. size : p = peers[i]
      BY <2>1 DEF Members
    <3>2. PICK j \in 1 .. size' : p = peers'[j]
      <4>1. p \in Members'
        BY <2>1
      <4> QED
        BY <4>1 DEF Members
    <3>3. index[p] = i /\ i # 0
      <4>1. size \in Nat
        BY BaseFacts
      <4> QED
        BY <3>1, <4>1 DEF Base, IndexIsPosition
    <3>4. \A k \in 1 .. size' : index'[peers'[k]] = k
      BY DEF Base, IndexIsPosition
    <3>5. index'[p] = j /\ j # 0
      <4>1. size' \in Nat
        BY BaseFacts
      <4> QED
        BY <3>2, <3>4, <4>1
    <3> QED
      BY <3>3, <3>5
  <2>2. CASE p \notin Members
    BY <2>2
  <2> QED
    BY <2>1, <2>2
<1> QED
  BY <1>3, <1>4 DEF Keeps

\* The last peer goes.
LEMMA KeepsPop ==
  ASSUME Base, todo = <<Pop>>, size > 0, PopStep
  PROVE  Keeps
<1>1. /\ size \in Nat /\ size = Len(peers) /\ peers \in Seq(Peers)
  BY BaseFacts
<1>2. /\ peers' = SubSeq(peers, 1, size - 1) /\ todo' = <<>> /\ rank' = rank /\ index' = index
  BY TodoFacts DEF PopStep
<1>3. PopDue /\ ~PopDue'
  BY <1>2, DueFacts DEF Due, PopDue
<1>4. size' = size - 1 /\ \A i \in 1 .. size - 1 : peers'[i] = peers[i]
  BY <1>1, <1>2 DEF size
<1>5. Staying = {peers[i] : i \in 1 .. size - 1} /\ Staying' = {peers'[i] : i \in 1 .. size'}
  BY <1>3 DEF Staying
<1>6. Staying' = Staying
  BY <1>4, <1>5
<1>7. Members' = Staying' /\ Staying \subseteq Members
  <2>1. 1 .. size - 1 \subseteq 1 .. size
    BY <1>1
  <2> QED
    BY <1>5, <2>1 DEF Members
<1> QED
  BY <1>2, <1>6, <1>7 DEF Keeps

\* A step of an operation keeps what it should.
LEMMA ProgressKeeps ==
  ASSUME Base, Progress, HeapStep
  PROVE  Keeps
<1>1. HeapNext /\ todo # <<>>
  BY DEF HeapNext, HeapStep, UpStep, DownStep, FixStep, ShuffleStep, PopStep, Calling
<1>2. /\ todo \in Seq(Tasks) /\ size \in Nat
  BY ProgressType, BaseFacts DEF Base
<1>3. PopDue <=> Due(todo)
  BY DEF PopDue, Due
<1>4. PopDue' <=> Due(todo')
  BY DEF PopDue, Due
<1>5. rank' = rank
  BY DEF HeapStep, UpStep, DownStep, FixStep, ShuffleStep, PopStep
<1>b. ASSUME NEW t, todo' = <<t>> \o Tail(todo), t # Pop
      PROVE  Due(todo') <=> Due(todo) /\ Tail(todo) # <<>>
  <2> DEFINE T == Tasks \cup {t}
             u == <<t>>
  <2>1. u \in Seq(T) /\ todo \in Seq(T) /\ u # <<>> /\ u[Len(u)] = t
    BY <1>2
  <2> HIDE DEF T, u
  <2>2. Due(u \o Tail(todo)) <=> Due(todo) /\ Tail(todo) # <<>>
    BY <1>1, <1>b, <2>1, DueAfter
  <2> QED
    BY <1>b, <2>2 DEF u
<1>c. ASSUME NEW t1, NEW t2, todo' = <<t1, t2>> \o Tail(todo), t2 # Pop
      PROVE  Due(todo') <=> Due(todo) /\ Tail(todo) # <<>>
  <2> DEFINE T == Tasks \cup {t1, t2}
             u == <<t1, t2>>
  <2>1. u \in Seq(T) /\ todo \in Seq(T) /\ u # <<>> /\ u[Len(u)] = t2
    BY <1>2
  <2> HIDE DEF T, u
  <2>2. Due(u \o Tail(todo)) <=> Due(todo) /\ Tail(todo) # <<>>
    BY <1>1, <1>c, <2>1, DueAfter
  <2> QED
    BY <1>c, <2>2 DEF u
<1>d. ASSUME todo' = Tail(todo) PROVE Due(todo') <=> Due(todo) /\ Tail(todo) # <<>>
  <2> DEFINE u == SubSeq(todo, 1, 0)
  <2>1. u = <<>> /\ u \in Seq(Tasks)
    BY <1>2
  <2>2. Due(u \o Tail(todo)) <=> Due(todo) /\ Tail(todo) # <<>>
    <3> HIDE DEF u
    <3> QED
      BY <1>1, <1>2, <2>1, DueAfter
  <2>3. u \o Tail(todo) = Tail(todo)
    BY <1>1, <1>2, <2>1
  <2> QED
    BY <1>d, <2>2, <2>3
<1>6. ASSUME NEW k \in 1 .. size, Head(todo) = Up(k), Due(todo) => k \in 1 .. size - 1,
             Due(todo) => Tail(todo) # <<>>
      PROVE  Keeps
  <2>1. /\ Base' /\ size' = size /\ Members' = Members
        /\ UpMoves(k) \/ UpStops(k)
    BY <1>1, <1>6, UpIteration
  <2>2. PopDue' <=> PopDue
    <3>1. todo' = Tail(todo) \/ todo' = <<Up(Par(k))>> \o Tail(todo)
      BY <2>1 DEF UpMoves, UpStops
    <3> QED
      BY <1>3, <1>4, <1>6, <1>b, <1>d, <3>1, DueFacts
  <2>3. UpStep
    BY <1>1, <1>6, OnlyStep
  <2>4. PopDue => size > 0 /\ peers'[size] = peers[size]
    <3> SUFFICES ASSUME PopDue PROVE size > 0 /\ peers'[size] = peers[size]
      OBVIOUS
    <3>1. k \in 1 .. size - 1
      BY <1>3, <1>6
    <3>2. CASE UpStops(k)
      BY <1>2, <3>1, <3>2 DEF UpStops
    <3>3. CASE UpMoves(k)
      <4>1. /\ peers' = Swapped(peers, Par(k), k) /\ Par(k) \in 1 .. size /\ k \in 2 .. size
        BY <3>3 DEF UpMoves, Swaps
      <4>2. Par(k) < k
        BY <1>2, <4>1, AncestorFacts
      <4>3. size # k /\ size # Par(k) /\ size \in 1 .. size
        BY <1>2, <3>1, <4>1, <4>2
      <4>4. /\ peers \in Seq(Peers) /\ Par(k) \in 1 .. Len(peers) /\ k \in 1 .. Len(peers)
            /\ size \in 1 .. Len(peers) /\ size > 0
        BY <1>2, <4>1, <4>3, BaseFacts
      <4> QED
        BY <4>1, <4>3, <4>4, SwappedFacts
    <3> QED
      BY <2>1, <3>2, <3>3
  <2>5. \A p \in Peers \ Members : index'[p] = index[p]
    <3>1. index' = index \/ (k \in 2 .. size /\ swap(k \div 2, k))
      BY <1>2, <1>6, <2>3 DEF UpStep, Up
    <3>2. k \in 2 .. size => peers[k \div 2] \in Members /\ peers[k] \in Members
      BY <1>2, AncestorFacts DEF Par, Members
    <3> QED
      BY <3>1, <3>2 DEF swap, Base
  <2> QED
    BY <1>5, <2>1, <2>2, <2>4, <2>5, KeepsPlaces
<1>7. ASSUME NEW c \in 1 .. size, NEW n \in 0 .. size, Head(todo) = Down(c, n),
             Due(todo) => n = size - 1, Due(todo) => Tail(todo) # <<>>
      PROVE  Keeps
  <2>1. /\ Base' /\ size' = size /\ Members' = Members
        /\ (\E e \in 2 .. n : DownMoves(c, n, e)) \/ DownStops(c, n)
    BY <1>1, <1>7, DownIteration
  <2>2. PopDue' <=> PopDue
    <3>1. todo' = Tail(todo) \/ \E e \in 2 .. n : todo' = <<Down(e, n)>> \o Tail(todo)
      BY <2>1 DEF DownMoves, DownStops
    <3> QED
      BY <1>3, <1>4, <1>7, <1>b, <1>d, <3>1, DueFacts
  <2>3. DownStep
    BY <1>1, <1>7, OnlyStep
  <2>4. PopDue => size > 0 /\ peers'[size] = peers[size]
    <3> SUFFICES ASSUME PopDue PROVE size > 0 /\ peers'[size] = peers[size]
      OBVIOUS
    <3>1. n = size - 1 /\ size > 0
      BY <1>2, <1>3, <1>7
    <3>2. CASE DownStops(c, n)
      BY <3>1, <3>2 DEF DownStops
    <3>3. ASSUME NEW e \in 2 .. n, DownMoves(c, n, e) PROVE peers'[size] = peers[size]
      <4>1. peers' = Swapped(peers, c, e) /\ c \in 1 .. n
        BY <3>3 DEF DownMoves, Swaps
      <4>3. size # c /\ size # e /\ size \in 1 .. size /\ e \in 1 .. size
        BY <1>2, <3>1, <4>1
      <4>4. /\ peers \in Seq(Peers) /\ c \in 1 .. Len(peers) /\ e \in 1 .. Len(peers)
            /\ size \in 1 .. Len(peers)
        BY <4>3, BaseFacts
      <4> QED
        BY <4>1, <4>3, <4>4, SwappedFacts
    <3> QED
      BY <2>1, <3>1, <3>2, <3>3
  <2>5. \A p \in Peers \ Members : index'[p] = index[p]
    <3> DEFINE e == MinChild(c, n)
    <3>1. index' = index \/ (2 * c <= n /\ swap(c, e))
      BY <1>7, <2>3 DEF DownStep, Down
    <3>2. 2 * c <= n => e \in 1 .. size
      BY <1>2 DEF MinChild
    <3> HIDE DEF e
    <3>3. 2 * c <= n => peers[c] \in Members /\ peers[e] \in Members
      BY <3>2 DEF Members
    <3> QED
      BY <3>1, <3>3 DEF swap, Base
  <2> QED
    BY <1>5, <2>1, <2>2, <2>4, <2>5, KeepsPlaces
<1>8. ASSUME ~Due(todo), FixStep \/ ShuffleStep PROVE Keeps
  <2>1. peers' = peers /\ index' = index /\ counter' = counter
    BY <1>8 DEF FixStep, ShuffleStep
  <2>2. size' = size /\ Members' = Members
    BY <2>1 DEF size, Members
  <2>3. ~Due(todo')
    <3>1. CASE FixStep
      BY <1>8, <1>c, <3>1, DueFacts DEF FixStep, FixCalls
    <3>2. CASE ShuffleStep
      <4>1. todo' = Tail(todo) \/ \E p, q : todo' = <<Fix(p), Fix(q)>> \o Tail(todo)
        BY <3>2, Zenon DEF ShuffleStep
      <4> QED
        BY <1>8, <1>c, <1>d, <4>1, DueFacts
    <3> QED
      BY <1>8, <3>1, <3>2
  <2>4. ~PopDue /\ ~PopDue'
    BY <1>3, <1>4, <1>8, <2>3
  <2>5. Staying' = Staying
    BY <2>1, <2>2, <2>4 DEF Staying
  <2> QED
    BY <1>5, <2>1, <2>2, <2>5 DEF Keeps
<1>9. ASSUME todo = <<Pop>>, size > 0 PROVE Keeps
  <2>1. PopStep
    BY <1>1, <1>9, OnlyStep, TodoFacts
  <2> QED
    BY <1>9, <2>1, KeepsPop
<1>10. ASSUME ~Due(todo), NEW p \in Members, Head(todo) = Fix(p) \/ Head(todo) = Shuffle(p)
       PROVE  Keeps
  BY <1>1, <1>8, <1>10, OnlyStep
<1>11. ASSUME ~Due(todo), NEW c \in 1 .. size, Head(todo) = Down(c, size) PROVE Keeps
  <2>1. size \in 0 .. size
    BY <1>2
  <2> QED
    BY <1>7, <1>11, <2>1
<1>12. ASSUME Tail(todo) # <<>>, NEW c \in 1 .. size, Head(todo) = Down(c, size - 1) PROVE Keeps
  <2>1. size - 1 \in 0 .. size
    BY <1>2
  <2> QED
    BY <1>7, <1>12, <2>1
<1>13. ASSUME Tail(todo) # <<>>, NEW k \in 1 .. size - 1, Head(todo) = Up(k) PROVE Keeps
  <2>1. k \in 1 .. size
    BY <1>2
  <2> QED
    BY <1>6, <1>13, <2>1
<1>14. ASSUME ~Due(todo), NEW k \in 1 .. size, Head(todo) = Up(k) PROVE Keeps
  BY <1>6, <1>14
<1> QED
  BY <1>1, <1>9, <1>10, <1>11, <1>12, <1>13, <1>14, NextCall

\* The update of a removed peer finds the heap in order and leaves it as it is.
LEMMA StaleStep ==
  ASSUME Base, Stale, HeapStep
  PROVE  GroupHeap' /\ Keeps
<1>1. HeapNext /\ todo # <<>>
  BY DEF HeapNext, HeapStep, UpStep, DownStep, FixStep, ShuffleStep, PopStep, Calling
<1>2. /\ size \in Nat /\ Ord(weights, peers, size, {}, {})
      /\ \A i \in 2 .. size : LE(weights, peers[Par(i)], peers[i])
  BY BaseFacts DEF Stale, Ord, AfterAncestors
<1>3. ASSUME peers' = peers, index' = index, UNCHANGED <<counter, rank, order>>,
             todo' = <<>> \/ \E i \in 1 .. size + 1 : Place(i) /\ (todo' = <<Down(i, size), Up(i)>> \/ todo' = <<Up(i)>>),
             ~Due(todo)
      PROVE  GroupHeap' /\ Keeps
  <2>1. /\ Base' /\ size' = size /\ Members' = Members /\ weights' = weights
    BY <1>3 DEF Base, IndexIsPosition, size, Members, weights
  <2>2. Ord(weights, peers, size, {}, {})'
    BY <1>2, <1>3, <2>1
  <2>3. AtRest' \/ Stale'
    <3>1. CASE todo' = <<>>
      BY <2>2, <3>1 DEF AtRest
    <3>2. CASE \E i \in 1 .. size + 1 : Place(i) /\ (todo' = <<Down(i, size), Up(i)>> \/ todo' = <<Up(i)>>)
      <4>1. \A i : Place(i)' <=> Place(i)
        BY <2>1 DEF Place
      <4> QED
        BY <2>1, <2>2, <3>2, <4>1 DEF Stale
    <3> QED
      BY <1>3, <3>1, <3>2
  <2>4. ~Due(todo')
    BY <1>3, DueFacts
  <2>5. Staying' = Staying
    <3>1. ~PopDue /\ ~PopDue'
      BY <1>3, <2>4 DEF PopDue, Due
    <3> QED
      BY <1>3, <2>1, <3>1 DEF Staying
  <2> QED
    BY <1>3, <2>1, <2>3, <2>5 DEF GroupHeap, Progress, Keeps
<1>4. ASSUME NEW p \in Peers \ Members, todo = <<Fix(p)>>, Place(index[p])
      PROVE  GroupHeap' /\ Keeps
  <2>1. Head(todo) = Fix(p) /\ Tail(todo) = <<>> /\ ~Due(todo)
    BY <1>4, TodoFacts, DueFacts
  <2>2. FixStep /\ Fix(p).p = p
    BY <1>1, <2>1, OnlyStep DEF Fix
  <2> DEFINE i == index[p]
  <2>3. /\ todo' = <<Down(i, size), Up(i)>> \o <<>>
        /\ UNCHANGED <<peers, counter, rank, order, index>>
    BY <2>1, <2>2 DEF FixStep, FixCalls
  <2>4. todo' = <<Down(i, size), Up(i)>> /\ i \in 1 .. size + 1
    BY <1>2, <1>4, <2>3, TodoFacts DEF Place
  <2> QED
    BY <1>3, <1>4, <2>1, <2>3, <2>4
<1>5. ASSUME NEW i \in 1 .. size + 1, Place(i), todo = <<Down(i, size), Up(i)>>
      PROVE  GroupHeap' /\ Keeps
  <2>1. Head(todo) = Down(i, size) /\ Tail(todo) = <<Up(i)>> /\ ~Due(todo)
    BY <1>5, TodoFacts, DueFacts
  <2>2. DownStep /\ Down(i, size).i = i /\ Down(i, size).n = size
    BY <1>1, <2>1, OnlyStep DEF Down
  <2> DEFINE e == MinChild(i, size)
  <2>3. ~(2 * i <= size /\ lt(e, i))
    <3> SUFFICES ASSUME 2 * i <= size PROVE ~lt(e, i)
      OBVIOUS
    <3>1. e = 2 * i \/ (e = 2 * i + 1 /\ 2 * i + 1 <= size)
      BY DEF MinChild
    <3>2. e \in 2 .. size /\ Par(e) = i
      <4>1. i \in Nat /\ i >= 1 /\ 2 * i >= 2
        BY <1>2
      <4>2. e \in 2 .. size
        BY <1>2, <3>1, <4>1
      <4> QED
        BY <3>1, <4>1, <4>2, ParFacts
    <3> HIDE DEF e
    <3>3. LE(weights, peers[i], peers[e])
      BY <1>2, <3>2
    <3> QED
      BY <3>3, BeforeIsLess DEF lt, LE
  <2>4. todo' = <<Up(i)>> /\ UNCHANGED <<peers, index, counter, rank, order>>
    BY <2>1, <2>2, <2>3 DEF DownStep
  <2> QED
    BY <1>3, <1>5, <2>1, <2>4
<1>6. ASSUME NEW i \in 1 .. size + 1, Place(i), todo = <<Up(i)>>
      PROVE  GroupHeap' /\ Keeps
  <2>1. Head(todo) = Up(i) /\ Tail(todo) = <<>> /\ ~Due(todo)
    BY <1>6, TodoFacts, DueFacts
  <2>2. UpStep /\ Up(i).i = i
    BY <1>1, <2>1, OnlyStep DEF Up
  <2>3. ~(i > 1 /\ lt(i, i \div 2))
    <3> SUFFICES ASSUME i > 1 PROVE ~lt(i, i \div 2)
      OBVIOUS
    <3>1. i \in 2 .. size
      BY <1>2, <1>6 DEF Place
    <3> QED
      BY <1>2, <3>1, BeforeIsLess DEF lt, LE, Par
  <2>4. todo' = <<>> /\ UNCHANGED <<peers, index, counter, rank, order>>
    BY <2>1, <2>2, <2>3 DEF UpStep
  <2> QED
    BY <1>3, <1>6, <2>1, <2>4
<1> QED
  BY <1>4, <1>5, <1>6 DEF Stale

LEMMA HeapStepKeeps ==
  ASSUME GroupHeap, HeapStep
  PROVE  GroupHeap' /\ Keeps
<1>1. CASE Progress
  <2>1. HeapNext
    BY DEF HeapNext
  <2>2. Inv'
    BY <1>1, <2>1, InvStep DEF Inv, GroupHeap
  <2> QED
    BY <1>1, <2>2, ProgressKeeps DEF Inv, GroupHeap
<1>2. CASE Stale
  BY <1>2, StaleStep DEF GroupHeap
<1> QED
  BY <1>1, <1>2 DEF GroupHeap

-----------------------------------------------------------------------------
(* What the group's calls do to the heap.                                  *)

LEMMA IdleHeap ==
  ASSUME GroupHeap, Idle
  PROVE  Base /\ AtRest /\ Inv /\ ~PopDue /\ Staying = Members
<1>1. ~Stale
  BY TodoFacts DEF Idle, Stale
<1>2. Base /\ Progress
  BY <1>1 DEF GroupHeap
<1>3. AtRest
  BY <1>2, TodoFacts DEF Idle, Progress, AtRest, Rising, RisingFirst, Shuffling, FixingTwo,
     SinkingFirst, RisingThenFix, Fixing, Sinking, SinkingToPop, RisingToPop, PoppingFirst,
     Popping
<1>4. ~PopDue
  BY DEF PopDue, Idle
<1> QED
  BY <1>2, <1>3, <1>4 DEF Inv, Staying, Members

LEMMA AddHeap ==
  ASSUME GroupHeap, Idle, NEW p \in Peers \ Members, add_and_shuffle(p)
  PROVE  /\ GroupHeap' /\ rank' = rank
         /\ Members' = Members \cup {p} /\ Staying' = Members'
         /\ index'[p] # 0 /\ \A q \in Peers : q # p => index'[q] = index[q]
<1>1. Base /\ Inv
  BY IdleHeap
<1>2. HeapNext
  BY DEF HeapNext, HeapCall
<1>3. Inv'
  BY <1>1, <1>2, InvStep
<1>4. size \in Nat /\ peers \in Seq(Peers) /\ size = Len(peers)
  BY <1>1, BaseFacts
<1>5. /\ peers' = Append(peers, p) /\ index' = [index EXCEPT ![p] = size + 1] /\ rank' = rank
      /\ todo' = <<Up(size + 1)>> \o <<Shuffle(p)>>
  BY DEF add_and_shuffle, Push
<1>6. todo' = <<Up(size + 1), Shuffle(p)>>
  BY <1>5, TodoFacts
<1>7. ~PopDue'
  <2>1. ~Due(todo')
    BY <1>6, DueFacts
  <2> QED
    BY <2>1 DEF PopDue, Due
<1>8. Staying' = Members'
  BY <1>7 DEF Staying, Members
<1>9. Members' = Members \cup {p}
  <2>1. /\ size' = size + 1 /\ peers'[size + 1] = p /\ \A i \in 1 .. size : peers'[i] = peers[i]
    BY <1>4, <1>5 DEF size
  <2>2. \A i \in 1 .. size + 1 : i \in 1 .. size \/ i = size + 1
    BY <1>4
  <2>3. 1 .. size \subseteq 1 .. size + 1 /\ size + 1 \in 1 .. size + 1
    BY <1>4
  <2>4. Members' = {peers'[i] : i \in 1 .. size + 1}
    BY <2>1 DEF Members
  <2>5. {peers'[i] : i \in 1 .. size + 1} = {peers[i] : i \in 1 .. size} \cup {p}
    BY <2>1, <2>2, <2>3
  <2> QED
    BY <2>4, <2>5 DEF Members
<1>10. index'[p] # 0 /\ \A q \in Peers : q # p => index'[q] = index[q]
  <2>1. index \in [Peers -> Nat]
    BY <1>1 DEF Base
  <2> QED
    BY <1>4, <1>5, <2>1
<1> QED
  BY <1>3, <1>5, <1>8, <1>9, <1>10 DEF GroupHeap, Inv

LEMMA RemoveHeap ==
  ASSUME GroupHeap, Idle, NEW p \in Members, remove_peer(p)
  PROVE  /\ GroupHeap' /\ rank' = rank
         /\ Members' = Members /\ Staying' = Members \ {p}
         /\ \A q \in Peers : index'[q] = 0 <=> index[q] = 0
<1>1. Base /\ Inv
  BY IdleHeap
<1>2. HeapNext
  BY DEF HeapNext, HeapCall
<1>3. Inv'
  BY <1>1, <1>2, InvStep
<1>4. /\ size \in Nat /\ peers \in Seq(Peers) /\ size = Len(peers)
      /\ index[p] \in 1 .. size /\ peers[index[p]] = p
      /\ \A i, j \in 1 .. size : peers[i] = peers[j] => i = j
  BY <1>1, BaseFacts DEF Distinct
<1>5. remove(index[p]) /\ UNCHANGED <<counter, rank, order>>
  BY DEF remove_peer
<1>6. Due(todo')
  <2>1. todo' = <<Pop>> \/ \E a, b : todo' = <<a, b, Pop>>
    BY <1>5, Zenon DEF remove
  <2> QED
    BY <2>1, DueFacts
<1>7. PopDue'
  BY <1>6 DEF PopDue, Due
<1>8. /\ Members' = Members /\ size' = size /\ peers'[size] = p
      /\ \A q \in Peers \ Members : index'[q] = index[q]
  <2>1. CASE index[p] = size
    <3>1. peers' = peers /\ index' = index
      BY <1>5, <2>1 DEF remove
    <3> QED
      BY <1>4, <2>1, <3>1 DEF Members, size
  <2>2. CASE index[p] # size
    <3>1. swap(index[p], size) /\ size \in 1 .. size
      BY <1>4, <1>5, <2>2 DEF remove
    <3>2. Base' /\ peers' = Swapped(peers, index[p], size) /\ size' = size /\ Members' = Members
      BY <1>1, <1>4, <1>5, <3>1, SwapStep
    <3>3. peers'[size] = p
      BY <1>4, <3>1, <3>2, SwappedFacts, ZenonT(30)
    <3>4. peers[index[p]] \in Members /\ peers[size] \in Members
      BY <1>4, <3>1 DEF Members
    <3>5. \A q \in Peers \ Members : index'[q] = index[q]
      <4>1. index \in [Peers -> Nat]
        BY <1>1 DEF Base
      <4> QED
        BY <3>1, <3>4, <4>1 DEF swap
    <3> QED
      BY <3>2, <3>3, <3>5
  <2> QED
    BY <2>1, <2>2
<1>9. Staying' = Members \ {p}
  <2>1. Staying' = {peers'[i] : i \in 1 .. size' - 1} /\ Members' = {peers'[i] : i \in 1 .. size'}
    BY <1>7 DEF Staying, Members
  <2> DEFINE n == size'
             x == peers'
  <2>2. n \in Nat /\ n \in 1 .. n /\ \A i \in 1 .. n : i \in 1 .. n - 1 <=> i # n
    BY <1>4, <1>8
  <2>3. \A i, j \in 1 .. n : x[i] = x[j] => i = j
    <3>1. \A i \in 1 .. size' : index'[peers'[i]] = i
      BY <1>3 DEF Inv, Base, IndexIsPosition
    <3> QED
      BY <3>1
  <2>4. x[n] = p
    BY <1>8
  <2>5. Staying' = {x[i] : i \in 1 .. n - 1} /\ Members' = {x[i] : i \in 1 .. n}
    BY <2>1
  <2> HIDE DEF n, x
  <2>6. {x[i] : i \in 1 .. n - 1} = {x[i] : i \in 1 .. n} \ {x[n]}
    BY <2>2, <2>3
  <2> QED
    BY <1>8, <2>4, <2>5, <2>6
<1>10. ASSUME NEW q \in Peers PROVE index'[q] = 0 <=> index[q] = 0
  <2>1. CASE q \in Members
    <3>1. index[q] # 0
      BY <1>1, <2>1, BaseFacts
    <3>2. PICK j \in 1 .. size' : q = peers'[j]
      BY <1>8, <2>1 DEF Members
    <3>3. index'[q] = j
      BY <1>3, <3>2 DEF Inv, Base, IndexIsPosition
    <3>4. j # 0
      BY <1>4, <1>8
    <3> QED
      BY <3>1, <3>3, <3>4
  <2>2. CASE q \notin Members
    BY <1>8, <2>2
  <2> QED
    BY <2>1, <2>2
<1> QED
  BY <1>3, <1>5, <1>8, <1>9, <1>10 DEF GroupHeap, Inv

\* The ranks of peers that are not in the list do not matter.
LEMMA OutsideOrd ==
  ASSUME NEW w, NEW v, NEW p \in Peers, Agree(v, w, p), NEW n \in Nat,
         NEW x \in Seq(Peers), n <= Len(x), \A i \in 1 .. n : x[i] # p, Ord(w, x, n, {}, {})
  PROVE  Ord(v, x, n, {}, {})
<1> SUFFICES ASSUME NEW i \in 2 .. n PROVE AfterAncestors(v, x, {}, {}, i)
  BY DEF Ord
<1>1. Par(i) \in 1 .. n /\ i \in 1 .. n
  BY AncestorFacts
<1>2. LE(w, x[Par(i)], x[i])
  BY DEF Ord, AfterAncestors
<1>3. x[Par(i)] \in Peers \ {p} /\ x[i] \in Peers \ {p}
  BY <1>1
<1>4. LE(v, x[Par(i)], x[i])
  BY <1>2, <1>3 DEF LE, Less, Agree
<1> QED
  BY <1>4 DEF AfterAncestors

\* What _update_heap does for the peer p, which has now the rank r.
Updated(p, r) ==
  /\ GroupHeap' /\ Members' = Members /\ Staying' = Members /\ index' = index
  /\ \A q \in Peers : q # p => rank'[q] = rank[q]
  /\ p \in watched => rank'[p] = r
  /\ p \notin watched => rank'[p] = rank[p]
  /\ failed' = failed \/ (failed' = failed \cup {p} /\ p \in watched \ Members)

LEMMA UpdateFacts ==
  ASSUME GroupHeap, Idle, Members \subseteq watched,
         \A q \in Peers : q \in watched <=> index[q] # 0,
         NEW p \in Peers, NEW r \in Ranks, r = get_rank(connections'[p], pending'), UpdateHeap(p)
  PROVE  Updated(p, r)
<1>1. /\ Base /\ AtRest /\ Inv /\ ~PopDue /\ Staying = Members /\ todo = <<>>
      /\ Ord(weights, peers, size, {}, {})
  BY IdleHeap DEF AtRest, Idle
<1>2. /\ size \in Nat /\ peers \in Seq(Peers) /\ size = Len(peers) /\ Members \subseteq Peers
      /\ \A i \in 1 .. size : peers[i] \in Members
      /\ \A q \in Members : index[q] \in 1 .. size /\ peers[index[q]] = q
  BY <1>1, BaseFacts
<1>3. rank \in [Peers -> Ranks] /\ index \in [Peers -> Nat]
  BY <1>1 DEF Base
<1>4. CASE p \notin watched \/ r = rank[p]
  <2>1. UNCHANGED <<heapVars, failed>>
    BY <1>4 DEF UpdateHeap
  <2>2. /\ peers' = peers /\ counter' = counter /\ rank' = rank /\ order' = order
        /\ index' = index /\ todo' = todo /\ failed' = failed
    BY <2>1 DEF heapVars
  <2>3. Inv'
    BY <1>1, <2>1, InvStep
  <2>4. Members' = Members /\ Staying' = Staying
    BY <2>2 DEF Members, Staying, size, PopDue
  <2> QED
    BY <1>1, <1>4, <2>2, <2>3, <2>4 DEF Updated, GroupHeap, Inv
<1>5. ASSUME p \in watched, r # rank[p], rank' = [rank EXCEPT ![p] = r],
             UNCHANGED <<peers, counter, order, index>>
      PROVE  /\ Base' /\ size' = size /\ Members' = Members /\ Agree(weights', weights, p)
             /\ rank'[p] = r /\ \A q \in Peers : q # p => rank'[q] = rank[q]
             /\ p \notin Members => Ord(weights, peers, size, {}, {})'
  <2>1. size' = size /\ Members' = Members
    BY <1>5 DEF size, Members
  <2>2. /\ rank'[p] = r /\ rank' \in [Peers -> Ranks]
        /\ \A q \in Peers : q # p => rank'[q] = rank[q]
    BY <1>3, <1>5
  <2>3. Base'
    BY <1>1, <1>5, <2>1, <2>2 DEF Base, IndexIsPosition
  <2>4. Agree(weights', weights, p)
    BY <1>5, <2>2 DEF Agree, weights
  <2>5. ASSUME p \notin Members PROVE Ord(weights, peers, size, {}, {})'
    <3>1. \A i \in 1 .. size : peers[i] # p
      BY <1>2, <2>5
    <3>2. size <= Len(peers)
      BY <1>2
    <3>3. Ord(weights', peers, size, {}, {})
      BY <1>1, <1>2, <2>4, <3>1, <3>2, OutsideOrd
    <3> QED
      BY <1>5, <2>1, <3>3
  <2> QED
    BY <2>1, <2>2, <2>3, <2>4, <2>5
<1>6. CASE p \in watched /\ r # rank[p] /\ index[p] > size /\ index[p] > 1
  <2>1. /\ rank' = [rank EXCEPT ![p] = r] /\ failed' = failed \cup {p} /\ todo' = <<>>
        /\ UNCHANGED <<peers, counter, order, index>>
    BY <1>1, <1>6 DEF UpdateHeap
  <2>2. p \notin Members
    BY <1>2, <1>6
  <2>3. AtRest' /\ Base' /\ Members' = Members
    BY <1>5, <1>6, <2>1, <2>2 DEF AtRest
  <2>4. Staying' = Members'
    BY <2>1 DEF Staying, Members, PopDue
  <2> QED
    BY <1>5, <1>6, <2>1, <2>2, <2>3, <2>4 DEF Updated, GroupHeap, Progress
<1>7. CASE p \in watched /\ r # rank[p] /\ ~(index[p] > size /\ index[p] > 1)
  <2>1. update_peer(p, r) /\ failed' = failed
    BY <1>7 DEF UpdateHeap
  <2>2. /\ rank' = [rank EXCEPT ![p] = r] /\ todo' = <<Fix(p)>>
        /\ UNCHANGED <<peers, counter, order, index>>
    BY <2>1 DEF update_peer
  <2>3. Base' /\ Members' = Members
    BY <1>5, <1>7, <2>2
  <2>4. Staying' = Members'
    <3>1. ~Due(todo')
      BY <2>2, DueFacts
    <3>2. ~PopDue'
      BY <3>1 DEF PopDue, Due
    <3> QED
      BY <3>2 DEF Staying, Members
  <2>5. CASE p \in Members
    <3>1. HeapNext
      BY <1>7, <2>1, <2>5 DEF HeapNext, HeapCall
    <3>2. Inv'
      BY <1>1, <3>1, InvStep
    <3> QED
      BY <1>5, <1>7, <2>1, <2>2, <2>3, <2>4, <3>2 DEF Updated, GroupHeap, Inv
  <2>6. CASE p \notin Members
    <3>1. Ord(weights, peers, size, {}, {})' /\ size' = size
      BY <1>5, <1>7, <2>2, <2>6
    <3>2. Place(index[p])'
      <4>1. index[p] \in Nat /\ index[p] # 0
        BY <1>3, <1>7
      <4>2. index[p] \in 1 .. size \/ index[p] = 1
        BY <1>2, <1>7, <4>1
      <4> QED
        BY <2>2, <3>1, <4>2 DEF Place
    <3>3. Stale'
      BY <2>2, <2>3, <2>6, <3>1, <3>2 DEF Stale
    <3> QED
      BY <1>5, <1>7, <2>1, <2>2, <2>3, <2>4, <3>3 DEF Updated, GroupHeap
  <2> QED
    BY <2>5, <2>6
<1> QED
  BY <1>4, <1>6, <1>7

-----------------------------------------------------------------------------
(* The group's invariant is kept.                                          *)

LEMMA GroupInit == Init => GroupInv
<1> SUFFICES ASSUME Init PROVE GroupInv
  OBVIOUS
<1>1. /\ peers = <<>> /\ todo = <<>> /\ index = [p \in Peers |-> 0] /\ HeapInit
      /\ rank = [p \in Peers |-> Tier[1]]
      /\ known = [h \in Hosts |-> NoPeer] /\ host = [p \in Peers |-> NoHost] /\ watched = {}
      /\ connections = [p \in Peers |-> <<>>] /\ direction = [c \in Conns |-> "new"]
      /\ closed = {} /\ asked = {} /\ failed = {} /\ pending = [c \in Conns |-> 0] /\ clears = 0
  BY DEF Init, HeapInit
<1>2. GroupTypeOK
  BY <1>1, GroupAssumption DEF GroupTypeOK
<1>3. GroupHeap /\ Idle
  BY <1>1, InvInit DEF Inv, GroupHeap, Idle
<1>4. Members = {} /\ Staying = {}
  <2>1. Members = {}
    BY <1>1 DEF Members, size
  <2> QED
    BY <1>3, <2>1, IdleHeap
<1>5. PeerInv
  BY <1>1 DEF PeerInv
<1>6. KeptInv
  BY <1>1, <1>4 DEF KeptInv
<1>7. ConnInv
  BY <1>1 DEF ConnInv, ToSet, IsInjective, IncomingFirst
<1> QED
  BY <1>2, <1>3, <1>4, <1>5, <1>6, <1>7 DEF GroupInv, RankIsCurrent

LEMMA GroupHeapStep ==
  ASSUME GroupInv, Step
  PROVE  GroupInv'
<1>1. GroupHeap /\ HeapStep /\ UNCHANGED groupVars
  BY DEF GroupInv, Step
<1>2. GroupHeap' /\ Keeps
  BY <1>1, HeapStepKeeps
<1>3. /\ known' = known /\ host' = host /\ watched' = watched /\ connections' = connections
      /\ direction' = direction /\ closed' = closed /\ pending' = pending /\ asked' = asked
      /\ clears' = clears /\ failed' = failed
  BY <1>1 DEF groupVars
<1>4. /\ rank' = rank /\ Staying' = Staying /\ Members' \subseteq Members
      /\ \A p \in Peers : index'[p] = 0 <=> index[p] = 0
  BY <1>2 DEF Keeps
<1>5. GroupTypeOK' /\ ConnInv'
  BY <1>3 DEF GroupInv, GroupTypeOK, ConnInv
<1>6. PeerInv'
  BY <1>3, <1>4 DEF GroupInv, PeerInv
<1>7. KeptInv'
  BY <1>3, <1>4 DEF GroupInv, KeptInv
<1>8. \A p : CurrentRank(p)' = CurrentRank(p)
  BY <1>3 DEF CurrentRank, HasIncoming, Outbound, total_outbound_pendings
<1>9. RankIsCurrent'
  BY <1>4, <1>8 DEF GroupInv, RankIsCurrent
<1> QED
  BY <1>2, <1>5, <1>6, <1>7, <1>9 DEF GroupInv

\* What an idle group knows.
LEMMA IdleFacts ==
  ASSUME GroupInv, Idle
  PROVE  /\ GroupHeap /\ Staying = Members /\ Members \subseteq watched /\ Members \subseteq Peers
         /\ watched \subseteq Peers
         /\ \A p \in Peers : p \in watched <=> index[p] # 0
         /\ \A h \in Hosts : known[h] \in watched => known[h] \in Members
         /\ clears = 0 => \A p \in Members : known[host[p]] = p
         /\ \A p \in Peers : host[p] = NoHost =>
              /\ connections[p] = <<>> /\ rank[p] = Tier[1] /\ p \notin watched
              /\ p \notin failed /\ p \notin Members
<1>1. GroupHeap /\ GroupTypeOK /\ KeptInv /\ PeerInv
  BY DEF GroupInv
<1>2. Staying = Members /\ Members \subseteq Peers
  BY <1>1, IdleHeap, BaseFacts
<1> QED
  BY <1>1, <1>2 DEF KeptInv, PeerInv, GroupTypeOK

\* The deques are as before.
LEMMA SameConns ==
  ASSUME GroupInv, connections' = connections, direction' = direction, pending' = pending
  PROVE  ConnInv' /\ \A p : CurrentRank(p)' = CurrentRank(p)
BY DEF GroupInv, ConnInv, CurrentRank, HasIncoming, Outbound, total_outbound_pendings

\* A new Peer is made for a host-port the group does not know.
LEMMA NewPeerFacts ==
  ASSUME GroupInv, Idle, NEW h \in Hosts, NEW p \in Peers, known[h] = NoPeer, NewPeer(h, p)
  PROVE  /\ host[p] = NoHost /\ host'[p] = h /\ known'[h] = p
         /\ known' \in [Hosts -> Peers \cup {NoPeer}] /\ host' \in [Peers -> Hosts \cup {NoHost}]
         /\ \A q \in Peers : q # p => host'[q] = host[q]
         /\ \A g \in Hosts : g # h => known'[g] = known[g] /\ known[g] # p
         /\ \A g \in Hosts : known'[g] # NoPeer => host'[known'[g]] = g
         /\ \A q \in Members : known[host[q]] = q => known'[host'[q]] = q
         /\ p \notin Members /\ p \notin watched /\ p \notin failed
<1>1. /\ known \in [Hosts -> Peers \cup {NoPeer}] /\ host \in [Peers -> Hosts \cup {NoHost}]
      /\ \A g \in Hosts : known[g] # NoPeer => host[known[g]] = g
      /\ NoPeer \notin Peers /\ NoHost \notin Hosts
  BY GroupAssumption DEF GroupInv, GroupTypeOK, PeerInv
<1>2. /\ host[p] = NoHost /\ host' = [host EXCEPT ![p] = h] /\ known' = [known EXCEPT ![h] = p]
  BY DEF NewPeer
<1>3. /\ host'[p] = h /\ known'[h] = p
      /\ known' \in [Hosts -> Peers \cup {NoPeer}] /\ host' \in [Peers -> Hosts \cup {NoHost}]
      /\ \A q \in Peers : q # p => host'[q] = host[q]
      /\ \A g \in Hosts : g # h => known'[g] = known[g]
  BY <1>1, <1>2
<1>4. \A g \in Hosts : g # h => known[g] # p
  BY <1>1, <1>2
<1>5. p \notin Members /\ p \notin watched /\ p \notin failed /\ Members \subseteq Peers
  BY <1>2, IdleFacts
<1>6. \A g \in Hosts : known'[g] # NoPeer => host'[known'[g]] = g
  BY <1>1, <1>3, <1>4
<1>7. ASSUME NEW q \in Members, known[host[q]] = q PROVE known'[host'[q]] = q
  <2>1. q # p /\ q \in Peers /\ q # NoPeer /\ host'[q] = host[q]
    BY <1>1, <1>3, <1>5
  <2>2. host[q] # h
    BY <1>7, <2>1
  <2>3. CASE host[q] \in Hosts
    BY <1>3, <1>7, <2>1, <2>2, <2>3
  <2>4. CASE host[q] = NoHost
    BY <2>1, <2>4, IdleFacts
  <2> QED
    BY <1>1, <2>1, <2>3, <2>4
<1> QED
  BY <1>2, <1>3, <1>4, <1>5, <1>6, <1>7

LEMMA AddKeeps ==
  ASSUME GroupInv, Idle, NEW h \in Hosts, NEW p \in Peers, Add(h, p)
  PROVE  GroupInv'
<1>1. /\ known[h] = NoPeer /\ NewPeer(h, p) /\ watched' = watched \cup {p}
      /\ add_and_shuffle(p) /\ asked' = asked \cup {h}
      /\ connections' = connections /\ direction' = direction /\ closed' = closed
      /\ pending' = pending /\ clears' = clears /\ failed' = failed
  BY DEF Add
<1>2. /\ host[p] = NoHost /\ host'[p] = h /\ known'[h] = p
      /\ known' \in [Hosts -> Peers \cup {NoPeer}] /\ host' \in [Peers -> Hosts \cup {NoHost}]
      /\ \A q \in Peers : q # p => host'[q] = host[q]
      /\ \A g \in Hosts : g # h => known'[g] = known[g] /\ known[g] # p
      /\ \A g \in Hosts : known'[g] # NoPeer => host'[known'[g]] = g
      /\ \A q \in Members : known[host[q]] = q => known'[host'[q]] = q
      /\ p \notin Members /\ p \notin watched /\ p \notin failed
  BY <1>1, NewPeerFacts
<1>3. /\ GroupHeap /\ Members \subseteq watched /\ watched \subseteq Peers
      /\ \A q \in Peers : q \in watched <=> index[q] # 0
      /\ \A g \in Hosts : known[g] \in watched => known[g] \in Members
      /\ clears = 0 => \A q \in Members : known[host[q]] = q
      /\ connections[p] = <<>> /\ rank[p] = Tier[1]
  BY <1>2, IdleFacts
<1>4. /\ GroupHeap' /\ rank' = rank /\ Members' = Members \cup {p} /\ Staying' = Members'
      /\ index'[p] # 0 /\ \A q \in Peers : q # p => index'[q] = index[q]
  BY <1>1, <1>2, <1>3, AddHeap
<1>5. GroupTypeOK'
  <2>1. watched' \subseteq Peers /\ asked' \subseteq Hosts
    BY <1>1, <1>3 DEF GroupInv, GroupTypeOK
  <2> QED
    BY <1>1, <1>2, <2>1 DEF GroupInv, GroupTypeOK
<1>6. PeerInv'
  <2>1. ASSUME NEW q \in Peers, host'[q] = NoHost
        PROVE  connections'[q] = <<>> /\ rank'[q] = Tier[1] /\ q \notin watched' /\ q \notin failed'
    <3>1. q # p /\ host[q] = NoHost
      BY <1>2, <2>1, GroupAssumption
    <3> QED
      BY <1>1, <1>4, <3>1 DEF GroupInv, PeerInv
  <2>2. \A q \in Peers : q \in watched' <=> index'[q] # 0
    BY <1>1, <1>3, <1>4
  <2> QED
    BY <1>2, <2>1, <2>2 DEF PeerInv
<1>7. KeptInv'
  <2>1. Members' \subseteq watched'
    BY <1>1, <1>3, <1>4
  <2>2. \A g \in Hosts : known'[g] \in watched' => known'[g] \in Staying'
    BY <1>1, <1>2, <1>3, <1>4
  <2>3. clears' = 0 => \A q \in Staying' : known'[host'[q]] = q
    BY <1>1, <1>2, <1>3, <1>4
  <2>4. \A g \in Hosts : known'[g] \notin failed'
    BY <1>1, <1>2 DEF GroupInv, KeptInv
  <2> QED
    BY <2>1, <2>2, <2>3, <2>4 DEF KeptInv
<1>8. ConnInv' /\ \A q : CurrentRank(q)' = CurrentRank(q)
  BY <1>1, SameConns
<1>9. CurrentRank(p) = Tier[1]
  BY <1>3 DEF CurrentRank
<1>10. RankIsCurrent'
  BY <1>3, <1>4, <1>8, <1>9 DEF GroupInv, RankIsCurrent
<1> QED
  BY <1>4, <1>5, <1>6, <1>7, <1>8, <1>10 DEF GroupInv

\* The heap is as before.
LEMMA SameHeap ==
  ASSUME GroupInv, Idle, UNCHANGED heapVars
  PROVE  /\ GroupHeap' /\ rank' = rank /\ index' = index /\ Members' = Members
         /\ Staying' = Members
<1>1. Inv /\ Staying = Members
  BY IdleHeap DEF GroupInv
<1>2. Inv'
  BY <1>1, InvStep
<1>3. peers' = peers /\ rank' = rank /\ index' = index /\ todo' = todo
  BY DEF heapVars
<1>4. Members' = Members /\ Staying' = Staying
  BY <1>3 DEF Members, Staying, size, PopDue
<1> QED
  BY <1>1, <1>2, <1>3, <1>4 DEF Inv, GroupHeap

LEMMA GetIsolatedKeeps ==
  ASSUME GroupInv, Idle, NEW h \in Hosts, NEW p \in Peers, GetIsolated(h, p)
  PROVE  GroupInv'
<1>1. /\ known[h] = NoPeer /\ NewPeer(h, p) /\ UNCHANGED heapVars /\ watched' = watched
      /\ asked' = asked
      /\ connections' = connections /\ direction' = direction /\ closed' = closed
      /\ pending' = pending /\ clears' = clears /\ failed' = failed
  BY DEF GetIsolated
<1>2. /\ host[p] = NoHost /\ host'[p] = h /\ known'[h] = p
      /\ known' \in [Hosts -> Peers \cup {NoPeer}] /\ host' \in [Peers -> Hosts \cup {NoHost}]
      /\ \A q \in Peers : q # p => host'[q] = host[q]
      /\ \A g \in Hosts : g # h => known'[g] = known[g] /\ known[g] # p
      /\ \A g \in Hosts : known'[g] # NoPeer => host'[known'[g]] = g
      /\ \A q \in Members : known[host[q]] = q => known'[host'[q]] = q
      /\ p \notin Members /\ p \notin watched /\ p \notin failed
  BY <1>1, NewPeerFacts
<1>3. /\ Members \subseteq watched /\ watched \subseteq Peers
      /\ \A q \in Peers : q \in watched <=> index[q] # 0
      /\ \A g \in Hosts : known[g] \in watched => known[g] \in Members
      /\ clears = 0 => \A q \in Members : known[host[q]] = q
  BY IdleFacts
<1>4. /\ GroupHeap' /\ rank' = rank /\ Members' = Members /\ Staying' = Members /\ index' = index
  BY <1>1, SameHeap
<1>5. GroupTypeOK'
  BY <1>1, <1>2 DEF GroupInv, GroupTypeOK
<1>6. PeerInv'
  <2>1. ASSUME NEW q \in Peers, host'[q] = NoHost
        PROVE  connections'[q] = <<>> /\ rank'[q] = Tier[1] /\ q \notin watched' /\ q \notin failed'
    <3>1. q # p /\ host[q] = NoHost
      BY <1>2, <2>1, GroupAssumption
    <3> QED
      BY <1>1, <1>4, <3>1 DEF GroupInv, PeerInv
  <2> QED
    BY <1>1, <1>2, <1>3, <1>4, <2>1 DEF PeerInv
<1>7. KeptInv'
  <2>1. \A g \in Hosts : known'[g] \in watched' => known'[g] \in Staying'
    BY <1>1, <1>2, <1>3, <1>4
  <2>2. \A g \in Hosts : known'[g] \notin failed'
    BY <1>1, <1>2 DEF GroupInv, KeptInv
  <2> QED
    BY <1>1, <1>2, <1>3, <1>4, <2>1, <2>2 DEF KeptInv
<1>8. ConnInv' /\ \A q : CurrentRank(q)' = CurrentRank(q)
  BY <1>1, SameConns
<1>9. RankIsCurrent'
  BY <1>4, <1>8 DEF GroupInv, RankIsCurrent
<1> QED
  BY <1>4, <1>5, <1>6, <1>7, <1>8, <1>9 DEF GroupInv

LEMMA GetKnownKeeps ==
  ASSUME GroupInv, Idle, NEW h \in Hosts, GetKnown(h)
  PROVE  GroupInv'
<1>1. /\ UNCHANGED heapVars /\ asked' = asked \cup {h}
      /\ known' = known /\ host' = host /\ watched' = watched
      /\ connections' = connections /\ direction' = direction /\ closed' = closed
      /\ pending' = pending /\ clears' = clears /\ failed' = failed
  BY DEF GetKnown
<1>2. /\ GroupHeap' /\ rank' = rank /\ Members' = Members /\ Staying' = Members /\ index' = index
  BY <1>1, SameHeap
<1>3. Staying = Members
  BY IdleFacts
<1>4. GroupTypeOK'
  BY <1>1 DEF GroupInv, GroupTypeOK
<1>5. PeerInv' /\ KeptInv'
  BY <1>1, <1>2, <1>3 DEF GroupInv, PeerInv, KeptInv
<1>6. ConnInv' /\ \A q : CurrentRank(q)' = CurrentRank(q)
  BY <1>1, SameConns
<1>7. RankIsCurrent'
  BY <1>2, <1>6 DEF GroupInv, RankIsCurrent
<1> QED
  BY <1>2, <1>4, <1>5, <1>6, <1>7 DEF GroupInv

LEMMA RemoveHostKeeps ==
  ASSUME GroupInv, Idle, NEW h \in Hosts, RemoveHost(h)
  PROVE  GroupInv'
<1> DEFINE p == known[h]
<1>1. /\ p # NoPeer /\ known' = [known EXCEPT ![h] = NoPeer] /\ asked' = asked \ {h}
      /\ IF index[p] # 0 THEN remove_peer(p) ELSE UNCHANGED heapVars
      /\ host' = host /\ watched' = watched
      /\ connections' = connections /\ direction' = direction /\ closed' = closed
      /\ pending' = pending /\ clears' = clears /\ failed' = failed
  BY DEF RemoveHost, InHeap
<1>2. /\ known \in [Hosts -> Peers \cup {NoPeer}] /\ failed \subseteq Peers
      /\ NoPeer \notin Peers /\ \A g \in Hosts : known[g] # NoPeer => host[known[g]] = g
  BY GroupAssumption DEF GroupInv, GroupTypeOK, PeerInv
<1>3. p \in Peers /\ host[p] = h
  BY <1>1, <1>2
<1>4. /\ GroupHeap /\ Members \subseteq watched /\ watched \subseteq Peers
      /\ \A q \in Peers : q \in watched <=> index[q] # 0
      /\ \A g \in Hosts : known[g] \in watched => known[g] \in Members
      /\ clears = 0 => \A q \in Members : known[host[q]] = q
  BY IdleFacts
<1>5. /\ known'[h] = NoPeer /\ \A g \in Hosts : g # h => known'[g] = known[g]
      /\ known' \in [Hosts -> Peers \cup {NoPeer}]
  BY <1>1, <1>2
<1> HIDE DEF p
<1>6. /\ GroupHeap' /\ rank' = rank /\ Members' = Members /\ Staying' = Members \ {p}
      /\ \A q \in Peers : index'[q] = 0 <=> index[q] = 0
  <2>1. CASE index[p] # 0
    <3>1. p \in Members
      BY <1>3, <1>4, <2>1 DEF p
    <3> QED
      BY <1>1, <1>4, <2>1, <3>1, RemoveHeap
  <2>2. CASE index[p] = 0
    <3>1. Members \ {p} = Members
      BY <1>3, <1>4, <2>2
    <3>2. UNCHANGED heapVars
      BY <1>1, <2>2
    <3> QED
      BY <3>1, <3>2, SameHeap
  <2> QED
    BY <2>1, <2>2
<1>7. GroupTypeOK'
  <2>1. asked' \subseteq Hosts
    BY <1>1 DEF GroupInv, GroupTypeOK
  <2> QED
    BY <1>1, <1>5, <2>1 DEF GroupInv, GroupTypeOK
<1>8. PeerInv'
  <2>1. \A g \in Hosts : known'[g] # NoPeer => host'[known'[g]] = g
    BY <1>1, <1>2, <1>5
  <2>2. \A q \in Peers : q \in watched' <=> index'[q] # 0
    BY <1>1, <1>4, <1>6
  <2> QED
    BY <1>1, <1>6, <2>1, <2>2 DEF GroupInv, PeerInv
<1>9. KeptInv'
  <2>1. \A g \in Hosts : known'[g] \in watched' => known'[g] \in Staying'
    <3> SUFFICES ASSUME NEW g \in Hosts, known'[g] \in watched' PROVE known'[g] \in Staying'
      OBVIOUS
    <3>1. g # h /\ known'[g] = known[g] /\ known[g] # NoPeer
      BY <1>1, <1>2, <1>4, <1>5
    <3>2. known[g] # p
      BY <1>2, <1>3, <3>1
    <3> QED
      BY <1>1, <1>4, <1>6, <3>1, <3>2
  <2>2. clears' = 0 => \A q \in Staying' : known'[host'[q]] = q
    <3> SUFFICES ASSUME clears' = 0, NEW q \in Staying' PROVE known'[host'[q]] = q
      OBVIOUS
    <3>1. q \in Members /\ q # p /\ known[host[q]] = q /\ host' = host /\ q \in Peers
      BY <1>1, <1>4, <1>6
    <3>2. host[q] # h
      BY <3>1 DEF p
    <3>3. host[q] \in Hosts
      <4>1. host[q] # NoHost
        BY <3>1, IdleFacts
      <4> QED
        BY <3>1, <4>1 DEF GroupInv, GroupTypeOK
    <3> QED
      BY <1>5, <3>1, <3>2, <3>3
  <2>3. \A g \in Hosts : known'[g] \notin failed'
    BY <1>1, <1>2, <1>5 DEF GroupInv, KeptInv
  <2> QED
    BY <1>1, <1>4, <1>6, <2>1, <2>2, <2>3 DEF KeptInv
<1>10. ConnInv' /\ \A q : CurrentRank(q)' = CurrentRank(q)
  BY <1>1, SameConns
<1>11. RankIsCurrent'
  BY <1>6, <1>10 DEF GroupInv, RankIsCurrent
<1> QED
  BY <1>6, <1>7, <1>8, <1>9, <1>10, <1>11 DEF GroupInv

LEMMA ClearKeeps ==
  ASSUME GroupInv, Idle, Clear
  PROVE  GroupInv'
<1>1. /\ clears < MaxClears /\ clears' = clears + 1 /\ known' = [h \in Hosts |-> NoPeer]
      /\ closed' = closed \cup UNION {Range(connections[p]) : p \in Range(known) \ {NoPeer}}
      /\ asked' = {} /\ UNCHANGED heapVars /\ host' = host /\ watched' = watched
      /\ connections' = connections /\ direction' = direction
      /\ pending' = pending /\ failed' = failed
  BY DEF Clear
<1>2. /\ GroupHeap' /\ rank' = rank /\ Members' = Members /\ Staying' = Members /\ index' = index
  BY <1>1, SameHeap
<1>3. /\ known \in [Hosts -> Peers \cup {NoPeer}] /\ connections \in [Peers -> Seq(Conns)]
      /\ closed \subseteq Conns /\ clears \in 0 .. MaxClears /\ watched \subseteq Peers
      /\ failed \subseteq Peers /\ NoPeer \notin Peers /\ MaxClears \in Nat
  BY GroupAssumption DEF GroupInv, GroupTypeOK
<1>4. GroupTypeOK'
  <2>1. closed' \subseteq Conns
    <3>1. \A p \in Range(known) \ {NoPeer} : p \in Peers
      BY <1>3 DEF Range
    <3>2. \A p \in Peers : Range(connections[p]) \subseteq Conns
      BY <1>3 DEF Range
    <3> QED
      BY <1>1, <1>3, <3>1, <3>2
  <2>2. clears' \in 0 .. MaxClears /\ known' \in [Hosts -> Peers \cup {NoPeer}]
    BY <1>1, <1>3
  <2> QED
    BY <1>1, <2>1, <2>2 DEF GroupInv, GroupTypeOK
<1>5. PeerInv' /\ KeptInv'
  <2>1. /\ clears' # 0 /\ \A h \in Hosts : known'[h] = NoPeer
        /\ NoPeer \notin watched /\ NoPeer \notin failed
    BY <1>1, <1>3
  <2>2. Members \subseteq watched
    BY IdleFacts
  <2> QED
    BY <1>1, <1>2, <2>1, <2>2 DEF GroupInv, PeerInv, KeptInv
<1>6. ConnInv' /\ \A q : CurrentRank(q)' = CurrentRank(q)
  BY <1>1, SameConns
<1>7. RankIsCurrent'
  BY <1>2, <1>6 DEF GroupInv, RankIsCurrent
<1> QED
  BY <1>2, <1>4, <1>5, <1>6, <1>7 DEF GroupInv

-----------------------------------------------------------------------------
(* A change of one peer's connections.                                     *)

\* The deque of p, or the load of its connections, is another.
DequeChange(p) ==
  /\ connections' \in [Peers -> Seq(Conns)] /\ direction' \in [Conns -> {"new", "in", "out"}]
  /\ pending' \in [Conns -> 0 .. MaxPending] /\ closed' \subseteq Conns
  /\ watched' = watched /\ asked' = asked /\ clears' = clears
  /\ ConnInv'
  /\ \A q \in Peers : q # p =>
       /\ connections'[q] = connections[q]
       /\ \A c \in ToSet(connections[q]) : pending'[c] = pending[c] /\ direction'[c] = direction[c]

LEMMA DequeUpdate ==
  ASSUME GroupInv, Idle, NEW p \in Peers, DequeChange(p), UpdateHeap(p)
  PROVE  Updated(p, RankOf(connections'[p], pending', direction')) /\ RankIsCurrent'
<1> DEFINE r == RankOf(connections'[p], pending', direction')
<1>1. /\ GroupHeap /\ Staying = Members /\ Members \subseteq watched /\ Members \subseteq Peers
      /\ \A q \in Peers : q \in watched <=> index[q] # 0
  BY IdleFacts
<1>2. /\ connections'[p] \in Seq(Conns) /\ pending' \in [Conns -> 0 .. MaxPending]
      /\ IsInjective(connections'[p]) /\ IncomingFirst(connections'[p], direction')
  BY DEF DequeChange, ConnInv
<1>3. r \in Ranks /\ r = get_rank(connections'[p], pending')
  BY <1>2, RankInRanks, GetRankIsRank
<1> HIDE DEF r
<1>4. Updated(p, r)
  BY <1>1, <1>3, UpdateFacts
<1>5. \A q \in Peers : CurrentRank(q) = RankOf(connections[q], pending, direction)
  BY DEF CurrentRank, RankOf, HasIncoming, Outbound
<1>6. \A q \in Peers : CurrentRank(q)' = RankOf(connections'[q], pending', direction')
  BY DEF CurrentRank, RankOf, HasIncoming, Outbound
<1>7. ASSUME NEW q \in Members' PROVE rank'[q] = CurrentRank(q)'
  <2>1. q \in Members /\ q \in Peers /\ q \in watched
    BY <1>1, <1>4 DEF Updated
  <2>2. CASE q = p
    BY <1>4, <1>6, <2>1, <2>2 DEF Updated, r
  <2>3. CASE q # p
    <3>1. rank'[q] = rank[q] /\ rank[q] = CurrentRank(q)
      BY <1>4, <2>1, <2>3 DEF Updated, GroupInv, RankIsCurrent
    <3>2. /\ connections'[q] = connections[q] /\ connections[q] \in Seq(Conns)
          /\ \A c \in ToSet(connections[q]) : pending'[c] = pending[c] /\ direction'[c] = direction[c]
      BY <2>1, <2>3 DEF DequeChange, GroupInv, GroupTypeOK
    <3>3. RankOf(connections[q], pending', direction') = RankOf(connections[q], pending, direction)
      BY <3>2, RankStays
    <3> QED
      BY <1>5, <1>6, <2>1, <3>1, <3>2, <3>3
  <2> QED
    BY <2>2, <2>3
<1> QED
  BY <1>4, <1>7 DEF RankIsCurrent, r

\* The peer is one that was made before.
LEMMA DequeOfKnown ==
  ASSUME GroupInv, Idle, NEW p \in Peers, DequeChange(p), UpdateHeap(p),
         known' = known, host' = host, host[p] # NoHost
  PROVE  GroupInv'
<1> DEFINE r == RankOf(connections'[p], pending', direction')
<1>1. Updated(p, r) /\ RankIsCurrent'
  BY DequeUpdate
<1> HIDE DEF r
<1>2. /\ GroupHeap' /\ Members' = Members /\ Staying' = Members /\ index' = index
      /\ \A q \in Peers : q # p => rank'[q] = rank[q]
      /\ failed' = failed \/ (failed' = failed \cup {p} /\ p \in watched \ Members)
  BY <1>1 DEF Updated
<1>3. /\ watched' = watched /\ asked' = asked /\ clears' = clears /\ ConnInv'
      /\ \A q \in Peers : q # p => connections'[q] = connections[q]
  BY DEF DequeChange
<1>4. /\ Staying = Members /\ \A h \in Hosts : known[h] \in watched => known[h] \in Members
  BY IdleFacts
<1>5. GroupTypeOK'
  <2>1. failed' \subseteq Peers
    BY <1>2 DEF GroupInv, GroupTypeOK
  <2> QED
    BY <2>1 DEF GroupInv, GroupTypeOK, DequeChange
<1>6. PeerInv'
  <2>1. ASSUME NEW q \in Peers, host'[q] = NoHost
        PROVE  connections'[q] = <<>> /\ rank'[q] = Tier[1] /\ q \notin watched' /\ q \notin failed'
    <3>1. q # p /\ host[q] = NoHost
      BY <2>1
    <3> QED
      BY <1>2, <1>3, <3>1 DEF GroupInv, PeerInv
  <2> QED
    BY <1>2, <1>3, <2>1 DEF GroupInv, PeerInv
<1>7. KeptInv'
  <2>1. \A h \in Hosts : known'[h] \notin failed'
    BY <1>2, <1>4 DEF GroupInv, KeptInv
  <2> QED
    BY <1>2, <1>3, <1>4, <2>1 DEF GroupInv, KeptInv
<1> QED
  BY <1>1, <1>2, <1>3, <1>5, <1>6, <1>7 DEF GroupInv

\* The peer is made for its first connection.
LEMMA DequeOfNew ==
  ASSUME GroupInv, Idle, NEW p \in Peers, DequeChange(p), UpdateHeap(p),
         NEW h \in Hosts, known[h] = NoPeer, NewPeer(h, p)
  PROVE  GroupInv'
<1> DEFINE r == RankOf(connections'[p], pending', direction')
<1>1. Updated(p, r) /\ RankIsCurrent'
  BY DequeUpdate
<1> HIDE DEF r
<1>2. /\ host[p] = NoHost /\ host'[p] = h /\ known'[h] = p
      /\ known' \in [Hosts -> Peers \cup {NoPeer}] /\ host' \in [Peers -> Hosts \cup {NoHost}]
      /\ \A q \in Peers : q # p => host'[q] = host[q]
      /\ \A g \in Hosts : g # h => known'[g] = known[g] /\ known[g] # p
      /\ \A g \in Hosts : known'[g] # NoPeer => host'[known'[g]] = g
      /\ \A q \in Members : known[host[q]] = q => known'[host'[q]] = q
      /\ p \notin Members /\ p \notin watched /\ p \notin failed
  BY NewPeerFacts
<1>3. /\ GroupHeap' /\ Members' = Members /\ Staying' = Members /\ index' = index
      /\ \A q \in Peers : q # p => rank'[q] = rank[q]
      /\ failed' = failed
  BY <1>1, <1>2 DEF Updated
<1>4. /\ watched' = watched /\ asked' = asked /\ clears' = clears /\ ConnInv'
      /\ \A q \in Peers : q # p => connections'[q] = connections[q]
  BY DEF DequeChange
<1>5. /\ Staying = Members /\ \A g \in Hosts : known[g] \in watched => known[g] \in Members
  BY IdleFacts
<1>6. GroupTypeOK'
  BY <1>2, <1>3 DEF GroupInv, GroupTypeOK, DequeChange
<1>7. PeerInv'
  <2>1. ASSUME NEW q \in Peers, host'[q] = NoHost
        PROVE  connections'[q] = <<>> /\ rank'[q] = Tier[1] /\ q \notin watched' /\ q \notin failed'
    <3>1. q # p /\ host[q] = NoHost
      BY <1>2, <2>1, GroupAssumption
    <3> QED
      BY <1>3, <1>4, <3>1 DEF GroupInv, PeerInv
  <2> QED
    BY <1>2, <1>3, <1>4, <2>1 DEF GroupInv, PeerInv
<1>8. KeptInv'
  <2>1. \A g \in Hosts : known'[g] \notin failed'
    BY <1>2, <1>3 DEF GroupInv, KeptInv
  <2>2. \A g \in Hosts : known'[g] \in watched' => known'[g] \in Staying'
    BY <1>2, <1>3, <1>4, <1>5
  <2>3. clears' = 0 => \A q \in Staying' : known'[host'[q]] = q
    BY <1>2, <1>3, <1>4, <1>5 DEF GroupInv, KeptInv
  <2> QED
    BY <1>3, <1>4, <2>1, <2>2, <2>3 DEF GroupInv, KeptInv
<1> QED
  BY <1>1, <1>3, <1>4, <1>6, <1>7, <1>8 DEF GroupInv

\* A new connection is in no deque.
LEMMA NewConn ==
  ASSUME GroupInv, NEW c \in Conns, direction[c] = "new", NEW dir, dir # "new", dir \in {"in", "out"},
         direction' = [direction EXCEPT ![c] = dir], pending' = pending, closed' = closed,
         watched' = watched, asked' = asked, clears' = clears,
         NEW p \in Peers, NEW s, connections' = [connections EXCEPT ![p] = s],
         s \in Seq(Conns), IsInjective(s), ToSet(s) = ToSet(connections[p]) \cup {c},
         IncomingFirst(s, direction')
  PROVE  DequeChange(p)
<1>1. /\ connections \in [Peers -> Seq(Conns)] /\ direction \in [Conns -> {"new", "in", "out"}]
      /\ pending \in [Conns -> 0 .. MaxPending] /\ closed \subseteq Conns
      /\ \A q \in Peers : /\ IsInjective(connections[q])
                          /\ IncomingFirst(connections[q], direction)
                          /\ \A e \in ToSet(connections[q]) : direction[e] # "new"
      /\ \A q, o \in Peers : q # o => ToSet(connections[q]) \cap ToSet(connections[o]) = {}
  BY DEF GroupInv, GroupTypeOK, ConnInv
<1>2. /\ connections'[p] = s /\ connections' \in [Peers -> Seq(Conns)]
      /\ \A q \in Peers : q # p => connections'[q] = connections[q]
  BY <1>1
<1>3. \A q \in Peers : c \notin ToSet(connections[q])
  BY <1>1
<1>4. /\ direction'[c] = dir /\ direction' \in [Conns -> {"new", "in", "out"}]
      /\ \A e \in Conns : e # c => direction'[e] = direction[e]
  BY <1>1
<1>5. \A q \in Peers : ToSet(connections[q]) \subseteq Conns
  BY <1>1 DEF ToSet
<1>6. \A q \in Peers : \A e \in ToSet(connections[q]) : direction'[e] = direction[e]
  BY <1>3, <1>4, <1>5
<1>7. ASSUME NEW q \in Peers
      PROVE  /\ IsInjective(connections'[q]) /\ IncomingFirst(connections'[q], direction')
             /\ \A e \in ToSet(connections'[q]) : direction'[e] # "new"
  <2>1. CASE q = p
    BY <1>1, <1>2, <1>4, <1>6, <2>1
  <2>2. CASE q # p
    <3>1. \A k \in DOMAIN connections[q] : direction'[connections[q][k]] = direction[connections[q][k]]
      BY <1>1, <1>6 DEF ToSet
    <3>2. IncomingFirst(connections[q], direction')
      BY <1>1, <3>1 DEF IncomingFirst
    <3> QED
      BY <1>1, <1>2, <1>6, <2>2, <3>2
  <2> QED
    BY <2>1, <2>2
<1>8. ASSUME NEW q \in Peers, NEW o \in Peers, q # o
      PROVE  ToSet(connections'[q]) \cap ToSet(connections'[o]) = {}
  BY <1>1, <1>2, <1>3, <1>8
<1>9. ConnInv'
  BY <1>7, <1>8 DEF ConnInv
<1> QED
  BY <1>1, <1>2, <1>4, <1>6, <1>9 DEF DequeChange

LEMMA RegisterOutgoingKeeps ==
  ASSUME GroupInv, Idle, NEW p \in Peers, NEW c \in Conns, RegisterOutgoing(p, c)
  PROVE  GroupInv'
<1>1. /\ host[p] # NoHost /\ direction[c] = "new" /\ direction' = [direction EXCEPT ![c] = "out"]
      /\ connections' = [connections EXCEPT ![p] = Append(connections[p], c)]
      /\ pending' = pending /\ UpdateHeap(p) /\ known' = known /\ host' = host
      /\ watched' = watched /\ closed' = closed /\ asked' = asked /\ clears' = clears
  BY DEF RegisterOutgoing
<1>2. /\ connections[p] \in Seq(Conns) /\ IsInjective(connections[p])
      /\ IncomingFirst(connections[p], direction) /\ c \notin ToSet(connections[p])
      /\ direction \in [Conns -> {"new", "in", "out"}]
  BY <1>1 DEF GroupInv, GroupTypeOK, ConnInv
<1>3. direction'[c] = "out" /\ \A e \in ToSet(connections[p]) : direction'[e] = direction[e]
  <2>1. ToSet(connections[p]) \subseteq Conns
    BY <1>2 DEF ToSet
  <2> QED
    BY <1>1, <1>2, <2>1
<1> DEFINE s == Append(connections[p], c)
<1>4. s \in Seq(Conns) /\ IsInjective(s) /\ ToSet(s) = ToSet(connections[p]) \cup {c}
  <2> DEFINE t == connections[p]
  <2>1. t \in Seq(Conns) /\ IsInjective(t) /\ c \notin ToSet(t)
    BY <1>2
  <2> HIDE DEF t
  <2>2. Append(t, c) \in Seq(Conns)
    BY <2>1
  <2>3. IsInjective(Append(t, c))
    BY <2>1, AddFacts, Zenon
  <2>4. ToSet(Append(t, c)) = ToSet(t) \cup {c}
    <3> DEFINE u == Append(t, c)
    <3>1. DOMAIN u = 1 .. Len(t) + 1 /\ u[Len(t) + 1] = c /\ \A i \in 1 .. Len(t) : u[i] = t[i]
      BY <2>1, AddPlaces
    <3>2. DOMAIN t = 1 .. Len(t) /\ Len(t) \in Nat
      BY <2>1
    <3> HIDE DEF u
    <3>3. ToSet(u) = ToSet(t) \cup {c}
      BY <3>1, <3>2 DEF ToSet
    <3> QED
      BY <3>3 DEF u
  <2> QED
    BY <2>2, <2>3, <2>4 DEF t
<1>5. IncomingFirst(s, direction')
  BY <1>2, <1>3, AddIncomings
<1>6. connections' = [connections EXCEPT ![p] = s]
  BY <1>1
<1> HIDE DEF s
<1>7. DequeChange(p)
  <2> DEFINE dir == "out"
  <2>1. dir # "new" /\ dir \in {"in", "out"} /\ direction' = [direction EXCEPT ![c] = dir]
    BY <1>1
  <2> HIDE DEF dir
  <2> QED
    BY <1>1, <1>4, <1>5, <1>6, <2>1, NewConn
<1> QED
  BY <1>1, <1>7, DequeOfKnown

LEMMA RegisterIncomingKeeps ==
  ASSUME GroupInv, Idle, NEW h \in Hosts, NEW p \in Peers, NEW c \in Conns, RegisterIncoming(h, p, c)
  PROVE  GroupInv'
<1>1. /\ direction[c] = "new" /\ direction' = [direction EXCEPT ![c] = "in"]
      /\ connections' = [connections EXCEPT ![p] = <<c>> \o connections[p]]
      /\ pending' = pending /\ UpdateHeap(p)
      /\ watched' = watched /\ closed' = closed /\ asked' = asked /\ clears' = clears
      /\ IF known[h] = NoPeer THEN NewPeer(h, p) ELSE p = known[h] /\ known' = known /\ host' = host
  BY DEF RegisterIncoming, AddIncoming
<1>2. /\ connections[p] \in Seq(Conns) /\ IsInjective(connections[p])
      /\ IncomingFirst(connections[p], direction) /\ c \notin ToSet(connections[p])
      /\ direction \in [Conns -> {"new", "in", "out"}]
  BY <1>1 DEF GroupInv, GroupTypeOK, ConnInv
<1>3. direction'[c] = "in" /\ \A e \in ToSet(connections[p]) : direction'[e] = direction[e]
  <2>1. ToSet(connections[p]) \subseteq Conns
    BY <1>2 DEF ToSet
  <2> QED
    BY <1>1, <1>2, <2>1
<1> DEFINE s == <<c>> \o connections[p]
<1>4. s \in Seq(Conns) /\ IsInjective(s) /\ ToSet(s) = ToSet(connections[p]) \cup {c}
  <2> DEFINE t == connections[p]
  <2>1. t \in Seq(Conns) /\ IsInjective(t) /\ c \notin ToSet(t)
    BY <1>2
  <2> HIDE DEF t
  <2>2. /\ <<c>> \o t \in Seq(Conns) /\ IsInjective(<<c>> \o t)
        /\ ToSet(<<c>> \o t) = ToSet(t) \cup {c}
    BY <2>1, AddFacts
  <2> QED
    BY <2>2 DEF t
<1>5. IncomingFirst(s, direction')
  BY <1>2, <1>3, AddIncomings
<1>6. connections' = [connections EXCEPT ![p] = s]
  BY <1>1
<1> HIDE DEF s
<1>7. DequeChange(p)
  <2> DEFINE dir == "in"
  <2>1. dir # "new" /\ dir \in {"in", "out"} /\ direction' = [direction EXCEPT ![c] = dir]
    BY <1>1
  <2> HIDE DEF dir
  <2> QED
    BY <1>1, <1>4, <1>5, <1>6, <2>1, NewConn
<1>8. CASE known[h] = NoPeer
  BY <1>1, <1>7, <1>8, DequeOfNew
<1>9. CASE known[h] # NoPeer
  <2>1. p = known[h] /\ known' = known /\ host' = host
    BY <1>1, <1>9
  <2>2. host[p] # NoHost
    BY <1>9, <2>1, GroupAssumption DEF GroupInv, PeerInv
  <2> QED
    BY <1>1, <1>7, <2>1, <2>2, DequeOfKnown
<1> QED
  BY <1>8, <1>9

LEMMA OnCloseKeeps ==
  ASSUME GroupInv, Idle, NEW p \in Peers, NEW c \in Conns, OnClose(p, c)
  PROVE  GroupInv'
<1> DEFINE s == RemoveFirst(connections[p], c)
<1>1. /\ c \in Range(connections[p]) /\ closed' = closed \cup {c}
      /\ connections' = [connections EXCEPT ![p] = s]
      /\ direction' = direction /\ pending' = pending /\ UpdateHeap(p) /\ known' = known
      /\ host' = host /\ watched' = watched /\ asked' = asked /\ clears' = clears
  BY DEF OnClose
<1>2. /\ connections \in [Peers -> Seq(Conns)] /\ direction \in [Conns -> {"new", "in", "out"}]
      /\ pending \in [Conns -> 0 .. MaxPending] /\ closed \subseteq Conns
      /\ \A q \in Peers : /\ IsInjective(connections[q])
                          /\ IncomingFirst(connections[q], direction)
                          /\ \A e \in ToSet(connections[q]) : direction[e] # "new"
      /\ \A q, o \in Peers : q # o => ToSet(connections[q]) \cap ToSet(connections[o]) = {}
  BY DEF GroupInv, GroupTypeOK, ConnInv
<1>3. host[p] # NoHost
  <2>1. connections[p] # <<>>
    BY <1>1 DEF Range
  <2> QED
    BY <2>1 DEF GroupInv, PeerInv
<1>4. s \in Seq(Conns) /\ IsInjective(s) /\ ToSet(s) \subseteq ToSet(connections[p])
  BY <1>2, RemoveFacts
<1>5. IncomingFirst(s, direction)
  BY <1>2, RemoveIncoming
<1> HIDE DEF s
<1>6. /\ connections'[p] = s /\ connections' \in [Peers -> Seq(Conns)]
      /\ \A q \in Peers : q # p => connections'[q] = connections[q]
  BY <1>1, <1>2, <1>4
<1>7. \A q \in Peers : ToSet(connections'[q]) \subseteq ToSet(connections[q])
  BY <1>4, <1>6
<1>8. ASSUME NEW q \in Peers
      PROVE  /\ IsInjective(connections'[q]) /\ IncomingFirst(connections'[q], direction')
             /\ \A e \in ToSet(connections'[q]) : direction'[e] # "new"
  BY <1>1, <1>2, <1>4, <1>5, <1>6, <1>7
<1>9. \A q, o \in Peers : q # o => ToSet(connections'[q]) \cap ToSet(connections'[o]) = {}
  BY <1>2, <1>7
<1>10. DequeChange(p)
  BY <1>1, <1>2, <1>6, <1>8, <1>9 DEF DequeChange, ConnInv
<1> QED
  BY <1>1, <1>3, <1>10, DequeOfKnown

LEMMA PendingChangeKeeps ==
  ASSUME GroupInv, Idle, NEW p \in Peers, NEW c \in Conns, PendingChange(p, c)
  PROVE  GroupInv'
<1>1. /\ c \in Range(connections[p]) /\ closed' = closed
      /\ connections' = connections /\ direction' = direction /\ UpdateHeap(p) /\ known' = known
      /\ host' = host /\ watched' = watched /\ asked' = asked /\ clears' = clears
      /\ PendingAdd(c) \/ (pending[c] > 0 /\ pending' = [pending EXCEPT ![c] = pending[c] - 1])
  BY DEF PendingChange
<1>2. /\ connections \in [Peers -> Seq(Conns)] /\ direction \in [Conns -> {"new", "in", "out"}]
      /\ pending \in [Conns -> 0 .. MaxPending] /\ closed \subseteq Conns /\ MaxPending \in Nat
      /\ \A q, o \in Peers : q # o => ToSet(connections[q]) \cap ToSet(connections[o]) = {}
  BY GroupAssumption DEF GroupInv, GroupTypeOK, ConnInv
<1>3. host[p] # NoHost
  <2>1. connections[p] # <<>>
    BY <1>1 DEF Range
  <2> QED
    BY <2>1 DEF GroupInv, PeerInv
<1>4. /\ pending' \in [Conns -> 0 .. MaxPending] /\ \A e \in Conns : e # c => pending'[e] = pending[e]
  <2>1. pending[c] \in 0 .. MaxPending
    BY <1>2
  <2>2. CASE PendingAdd(c)
    <3>1. pending[c] + 1 \in 0 .. MaxPending /\ pending' = [pending EXCEPT ![c] = pending[c] + 1]
      BY <1>2, <2>1, <2>2 DEF PendingAdd
    <3> QED
      BY <1>2, <3>1
  <2>3. CASE pending[c] > 0 /\ pending' = [pending EXCEPT ![c] = pending[c] - 1]
    <3>1. pending[c] - 1 \in 0 .. MaxPending
      BY <1>2, <2>1, <2>3
    <3> QED
      BY <1>2, <2>3, <3>1
  <2> QED
    BY <1>1, <2>2, <2>3
<1>5. \A q \in Peers : q # p => c \notin ToSet(connections[q])
  BY <1>1, <1>2 DEF Range, ToSet
<1>6. \A q \in Peers : ToSet(connections[q]) \subseteq Conns
  <2>1. \A q \in Peers : connections[q] \in Seq(Conns)
    BY <1>2
  <2>2. \A t \in Seq(Conns) : ToSet(t) \subseteq Conns
    BY DEF ToSet
  <2> QED
    BY <2>1, <2>2
<1>7. ConnInv'
  BY <1>1 DEF GroupInv, ConnInv
<1>8. DequeChange(p)
  BY <1>1, <1>2, <1>4, <1>5, <1>6, <1>7 DEF DequeChange
<1> QED
  BY <1>1, <1>3, <1>8, DequeOfKnown

-----------------------------------------------------------------------------
(* The theorems.                                                           *)

LEMMA GroupStep == GroupInv /\ [Next]_vars => GroupInv'
<1> SUFFICES ASSUME GroupInv, [Next]_vars PROVE GroupInv'
  OBVIOUS
<1>1. CASE Step
  BY <1>1, GroupHeapStep
<1>2. CASE Call
  BY <1>2, AddKeeps, GetIsolatedKeeps, GetKnownKeeps, RemoveHostKeeps, ClearKeeps,
     RegisterOutgoingKeeps, RegisterIncomingKeeps, OnCloseKeeps, PendingChangeKeeps DEF Call
<1>3. CASE UNCHANGED vars
  <2>1. /\ peers' = peers /\ counter' = counter /\ rank' = rank /\ order' = order
        /\ index' = index /\ todo' = todo
        /\ known' = known /\ host' = host /\ watched' = watched /\ connections' = connections
        /\ direction' = direction /\ closed' = closed /\ pending' = pending /\ asked' = asked
        /\ clears' = clears /\ failed' = failed
    BY <1>3 DEF vars, heapVars, groupVars
  <2>2. /\ size' = size /\ Members' = Members /\ Staying' = Staying /\ weights' = weights
    BY <2>1 DEF size, Members, Staying, PopDue, weights
  <2>3. GroupHeap'
    <3>1. CASE Progress
      <4>1. Inv'
        BY <2>1, <3>1, InvStep DEF GroupInv, GroupHeap, Inv, heapVars
      <4> QED
        BY <4>1 DEF GroupHeap, Inv
    <3>2. CASE Stale
      <4>1. Stale'
        BY <2>1, <2>2, <3>2 DEF Stale, Place
      <4>2. Base'
        BY <2>1, <2>2 DEF GroupInv, GroupHeap, Base, IndexIsPosition
      <4> QED
        BY <4>1, <4>2 DEF GroupHeap
    <3> QED
      BY <3>1, <3>2 DEF GroupInv, GroupHeap
  <2>4. GroupTypeOK' /\ PeerInv' /\ KeptInv' /\ ConnInv'
    BY <2>1, <2>2 DEF GroupInv, GroupTypeOK, PeerInv, KeptInv, ConnInv
  <2>5. RankIsCurrent'
    BY <2>1, <2>2 DEF GroupInv, RankIsCurrent, CurrentRank, HasIncoming, Outbound, total_outbound_pendings
  <2> QED
    BY <2>3, <2>4, <2>5 DEF GroupInv
<1> QED
  BY <1>1, <1>2, <1>3 DEF Next

LEMMA RanksPreferNow == GroupInv => RanksPrefer
<1> SUFFICES ASSUME GroupInv, NEW p \in Members, NEW q \in Members
             PROVE  /\ HasIncoming(p) /\ ~HasIncoming(q) => rank[p] < rank[q]
                    /\ connections[p] # <<>> /\ connections[q] = <<>> => rank[p] < rank[q]
                    /\ HasIncoming(p) /\ HasIncoming(q) =>
                         (rank[p] < rank[q] <=> Outbound(p) < Outbound(q))
                    /\ OnlyOutgoing(p) /\ OnlyOutgoing(q) =>
                         /\ Outbound(p) <= Outbound(q) => rank[p] <= rank[q]
                         /\ Outbound(p) + Grain < Outbound(q) => rank[p] < rank[q]
  BY DEF RanksPrefer
<1>1. p \in Peers /\ q \in Peers
  BY BaseFacts DEF GroupInv, GroupHeap
<1>2. Outbound(p) \in 0 .. MaxOutbound /\ Outbound(q) \in 0 .. MaxOutbound
  BY <1>1, OutboundBound DEF GroupInv, GroupTypeOK, ConnInv, Outbound
<1>3. /\ rank[p] = IF connections[p] = <<>> THEN Tier[1]
                   ELSE IF HasIncoming(p) THEN Tier[3] + Outbound(p)
                   ELSE Tier[2] + Rounded(Outbound(p))
      /\ rank[q] = IF connections[q] = <<>> THEN Tier[1]
                   ELSE IF HasIncoming(q) THEN Tier[3] + Outbound(q)
                   ELSE Tier[2] + Rounded(Outbound(q))
  BY DEF GroupInv, RankIsCurrent, CurrentRank
<1>4. HasIncoming(p) => connections[p] # <<>>
  BY DEF HasIncoming
<1> DEFINE a == Outbound(p)
           b == Outbound(q)
<1>5. /\ Tier[3] + a < Tier[2] + Rounded(b) /\ Tier[3] + a < Tier[1]
      /\ Tier[2] + Rounded(a) < Tier[1]
      /\ Tier[3] + a < Tier[3] + b <=> a < b
      /\ a <= b => Tier[2] + Rounded(a) <= Tier[2] + Rounded(b)
      /\ a + Grain < b => Tier[2] + Rounded(a) < Tier[2] + Rounded(b)
  BY <1>2, RanksCompare
<1> DEFINE u == Tier[2] + Rounded(a)
           v == Tier[2] + Rounded(b)
           x == Tier[3] + a
           y == Tier[3] + b
           t == Tier[1]
<1>6. /\ rank[p] = IF connections[p] = <<>> THEN t ELSE IF HasIncoming(p) THEN x ELSE u
      /\ rank[q] = IF connections[q] = <<>> THEN t ELSE IF HasIncoming(q) THEN y ELSE v
      /\ x < v /\ x < t /\ u < t /\ (x < y <=> a < b) /\ (a <= b => u <= v)
      /\ (a + Grain < b => u < v)
  BY <1>3, <1>5
<1>7. a = Outbound(p) /\ b = Outbound(q)
  OBVIOUS
<1> HIDE DEF a, b, t, u, v, x, y
<1>8. HasIncoming(p) /\ ~HasIncoming(q) => rank[p] < rank[q]
  BY <1>4, <1>6
<1>9. connections[p] # <<>> /\ connections[q] = <<>> => rank[p] < rank[q]
  BY <1>6
<1>10. ASSUME HasIncoming(p), HasIncoming(q)
       PROVE  rank[p] < rank[q] <=> Outbound(p) < Outbound(q)
  <2>1. connections[q] # <<>>
    BY <1>10 DEF HasIncoming
  <2> QED
    BY <1>4, <1>6, <1>7, <1>10, <2>1
<1>11. ASSUME OnlyOutgoing(p), OnlyOutgoing(q)
       PROVE  /\ Outbound(p) <= Outbound(q) => rank[p] <= rank[q]
              /\ Outbound(p) + Grain < Outbound(q) => rank[p] < rank[q]
  BY <1>6, <1>7, <1>11 DEF OnlyOutgoing
<1> QED
  BY <1>8, <1>9, <1>10, <1>11

\* For any number of peers, hosts, connections and calls pending, and for the integers of
\* Python 2 as for the floats of Python 3: the peers of the group's heap are in heap order,
\* each has the rank its present connections and pending calls call for, although a rank is
\* computed only when a connection of that peer changes and get_rank looks at the leftmost
\* one only, and the ranks put peers with incoming connections first and then the less
\* loaded, as far as the space between two floats lets a difference of load be seen.
THEOREM RanksStaySound == Spec => []RanksAreSound
<1>1. Init => GroupInv
  BY GroupInit
<1>2. GroupInv /\ [Next]_vars => GroupInv'
  BY GroupStep
<1>3. GroupInv => RanksAreSound
  <2> SUFFICES ASSUME GroupInv PROVE RanksAreSound
    OBVIOUS
  <2>1. HeapOrdered
    <3> SUFFICES ASSUME Idle, NEW i \in 2 .. size PROVE ~lt(i, i \div 2)
      BY DEF HeapOrdered
    <3>1. AtRest
      BY IdleHeap DEF GroupInv
    <3> QED
      BY <3>1, BeforeIsLess DEF AtRest, Ord, AfterAncestors, LE, Par, lt
  <2> QED
    BY <2>1, RanksPreferNow DEF GroupInv, RanksAreSound
<1> QED
  BY <1>1, <1>2, <1>3, PTL DEF Spec

\* For any number of peers, hosts and connections: until clear is called, choose can return
\* only peers the group knows; a host-port that was asked for can be chosen until it is
\* removed, if its Peer has the callback; and no update of a known peer raises IndexError,
\* although a removed peer keeps its callback and an index that is no longer its place.
THEOREM CandidatesStayRight == Spec => []CandidatesAreRight
<1>1. Init => GroupInv
  BY GroupInit
<1>2. GroupInv /\ [Next]_vars => GroupInv'
  BY GroupStep
<1>3. GroupInv => CandidatesAreRight
  <2> SUFFICES ASSUME GroupInv PROVE CandidatesAreRight
    OBVIOUS
  <2>1. KnownPeersAreUpdated
    BY DEF GroupInv, KeptInv, KnownPeersAreUpdated
  <2>2. ASSUME Idle PROVE OnlyKnownUntilCleared /\ AskedAreCandidates
    <3>1. /\ \A h \in Hosts : known[h] \in watched => known[h] \in Members
          /\ clears = 0 => \A p \in Members : known[host[p]] = p
      BY <2>2, IdleFacts
    <3>2. asked \subseteq Hosts
      BY DEF GroupInv, GroupTypeOK
    <3> QED
      BY <3>1, <3>2 DEF OnlyKnownUntilCleared, OnlyKnownAreCandidates, AskedAreCandidates
  <2>3. ~Idle => OnlyKnownUntilCleared /\ AskedAreCandidates
    BY DEF OnlyKnownUntilCleared, OnlyKnownAreCandidates, AskedAreCandidates
  <2> QED
    BY <2>1, <2>2, <2>3 DEF CandidatesAreRight
<1> QED
  BY <1>1, <1>2, <1>3, PTL DEF Spec

-----------------------------------------------------------------------------
(* The choice of a peer: the search visits every position, each once.      *)

\* s is what the search has yet to check after each of its first n turns.
Queues(s, matching, n) ==
  s = [k \in 0 .. n |-> IF k = 0 THEN <<1>> ELSE Turn(s[k - 1], matching)]

LEMMA QueuesExist ==
  ASSUME NEW matching, NEW n \in Nat
  PROVE  \E s : Queues(s, matching, n)
<1> DEFINE B == {m \in Nat : ~\E s : Queues(s, matching, m)}
<1> SUFFICES ASSUME n \in B PROVE FALSE
  OBVIOUS
<1>1. PICK m \in B : \A k \in B : m <= k
  <2> HIDE DEF B
  <2>1. B \in SUBSET Nat
    BY DEF B
  <2> QED
    BY <2>1, LeastNumber
<1>2. CASE m = 0
  <2> DEFINE s == [k \in 0 .. 0 |-> <<1>>]
  <2>1. Queues(s, matching, 0)
    BY DEF Queues
  <2> QED
    BY <1>1, <1>2, <2>1
<1>3. CASE m # 0
  <2>1. m - 1 \in Nat /\ m \in Nat /\ m - 1 \notin B
    BY <1>1, <1>3
  <2>2. PICK s : Queues(s, matching, m - 1)
    BY <2>1
  <2> DEFINE t == [k \in 0 .. m |-> IF k <= m - 1 THEN s[k] ELSE Turn(s[m - 1], matching)]
  <2>3. ASSUME NEW k \in 0 .. m
        PROVE  t[k] = IF k = 0 THEN <<1>> ELSE Turn(t[k - 1], matching)
    <3>1. CASE k = m
      <4>1. t[m] = Turn(s[m - 1], matching) /\ t[m - 1] = s[m - 1]
        BY <2>1
      <4> QED
        BY <1>3, <3>1, <4>1
    <3>2. CASE k # m
      <4>1. k \in 0 .. m - 1 /\ (k # 0 => k - 1 \in 0 .. m - 1)
        BY <2>1, <3>2
      <4>2. t[k] = s[k] /\ (k # 0 => t[k - 1] = s[k - 1])
        BY <4>1
      <4>3. s[k] = IF k = 0 THEN <<1>> ELSE Turn(s[k - 1], matching)
        BY <2>2, <4>1 DEF Queues
      <4> QED
        BY <4>2, <4>3
    <3> QED
      BY <3>1, <3>2
  <2>4. t = [k \in 0 .. m |-> t[k]]
    OBVIOUS
  <2> HIDE DEF t
  <2>5. Queues(t, matching, m)
    BY <2>3, <2>4 DEF Queues
  <2> QED
    BY <1>1, <2>5
<1> QED
  BY <1>2, <1>3

\* What smallest returns is at the head of the queue after the last turn.
LEMMA SmallestFacts ==
  ASSUME NEW matching, size \in Nat
  PROVE  \E s : /\ s[0] = <<1>>
                /\ \A k \in 1 .. size + 1 : s[k] = Turn(s[k - 1], matching)
                /\ smallest(matching) = IF s[size + 1] = <<>> THEN 0 ELSE Head(s[size + 1])
<1> DEFINE s == CHOOSE x :
             x = [k \in 0 .. size + 1 |-> IF k = 0 THEN <<1>> ELSE Turn(x[k - 1], matching)]
<1>1. Queues(s, matching, size + 1)
  BY QueuesExist DEF Queues
<1>2. smallest(matching) = IF s[size + 1] = <<>> THEN 0 ELSE Head(s[size + 1])
  BY DEF smallest
<1> HIDE DEF s
<1>3. s[0] = <<1>>
  BY <1>1 DEF Queues
<1>4. \A k \in 1 .. size + 1 : s[k] = Turn(s[k - 1], matching)
  BY <1>1 DEF Queues
<1> QED
  BY <1>2, <1>3, <1>4

\* What a turn of the search does to the positions yet to be checked.
LEMMA QueueFacts ==
  ASSUME NEW S, NEW a \in Seq(S), NEW b \in Seq(S), a # <<>>, Distinct(a), Distinct(b),
         ToSet(a) \cap ToSet(b) = {}
  PROVE  /\ Head(a) \in ToSet(a) /\ Tail(a) \o b \in Seq(S) /\ Distinct(Tail(a) \o b)
         /\ ToSet(Tail(a) \o b) = (ToSet(a) \ {Head(a)}) \cup ToSet(b)
<1> DEFINE t == Tail(a)
           c == t \o b
           n == Len(t)
           l == Len(b)
<1>1. /\ Len(a) \in Nat /\ Len(a) = n + 1 /\ n \in Nat /\ t \in Seq(S) /\ Head(a) = a[1]
      /\ \A i \in 1 .. n : t[i] = a[i + 1]
      /\ l \in Nat
  OBVIOUS
<1>2. /\ c \in Seq(S) /\ Len(c) = n + l
      /\ \A i \in 1 .. n : c[i] = t[i]
      /\ \A i \in 1 .. l : c[n + i] = b[i]
  BY <1>1, ConcatProperties
<1>3. /\ ToSet(a) = {a[i] : i \in 1 .. n + 1} /\ ToSet(b) = {b[i] : i \in 1 .. l}
      /\ ToSet(c) = {c[i] : i \in 1 .. n + l}
  <2> HIDE DEF t, c, n, l
  <2>1. DOMAIN a = 1 .. n + 1 /\ DOMAIN c = 1 .. n + l
    BY <1>1, <1>2
  <2>2. DOMAIN b = 1 .. l
    BY DEF l
  <2> QED
    BY <2>1, <2>2 DEF ToSet
<1>4. /\ \A i, j \in 1 .. n + 1 : a[i] = a[j] => i = j
      /\ \A i, j \in 1 .. l : b[i] = b[j] => i = j
      /\ \A i \in 1 .. n + 1, j \in 1 .. l : a[i] # b[j]
  <2>1. \A i \in 1 .. n + 1, j \in 1 .. l : a[i] # b[j]
    BY <1>3
  <2> QED
    BY <1>1, <2>1 DEF Distinct
<1> HIDE DEF t, c, n, l
<1>5. \A i \in 1 .. n : c[i] = a[i + 1]
  BY <1>1, <1>2
<1>6. \A i \in n + 1 .. n + l : i - n \in 1 .. l /\ c[i] = b[i - n]
  <2> SUFFICES ASSUME NEW i \in n + 1 .. n + l PROVE i - n \in 1 .. l /\ c[i] = b[i - n]
    OBVIOUS
  <2>1. i - n \in 1 .. l /\ n + (i - n) = i
    BY <1>1
  <2> QED
    BY <1>2, <2>1
<1>7. ASSUME NEW i \in 1 .. n + l, NEW j \in 1 .. n + l, c[i] = c[j], i < j PROVE FALSE
  <2>0. n \in Nat /\ l \in Nat /\ i \in Nat /\ j \in Nat
    BY <1>1
  <2>1. CASE j <= n
    <3>1. /\ c[i] = a[i + 1] /\ c[j] = a[j + 1] /\ i + 1 \in 1 .. n + 1 /\ j + 1 \in 1 .. n + 1
          /\ i + 1 # j + 1
      BY <1>5, <1>7, <2>0, <2>1
    <3> QED
      BY <1>4, <1>7, <3>1
  <2>2. CASE i <= n /\ j > n
    <3>1. c[i] = a[i + 1] /\ i + 1 \in 1 .. n + 1 /\ c[j] = b[j - n] /\ j - n \in 1 .. l
      BY <1>5, <1>6, <1>7, <2>0, <2>2
    <3> QED
      BY <1>4, <1>7, <3>1
  <2>3. CASE i > n
    <3>1. /\ c[i] = b[i - n] /\ i - n \in 1 .. l /\ c[j] = b[j - n] /\ j - n \in 1 .. l
          /\ i - n # j - n
      BY <1>6, <1>7, <2>0, <2>3
    <3> QED
      BY <1>4, <1>7, <3>1
  <2> QED
    BY <1>7, <2>0, <2>1, <2>2, <2>3
<1>8. Distinct(c)
  <2>1. DOMAIN c = 1 .. n + l /\ n + l \in Nat
    BY <1>1, <1>2
  <2> QED
    BY <1>7, <2>1 DEF Distinct
<1>9. ASSUME NEW x PROVE x \in ToSet(c) <=> x \in (ToSet(a) \ {a[1]}) \cup ToSet(b)
  <2>0. n \in Nat /\ l \in Nat
    BY <1>1
  <2>1. ASSUME NEW i \in 1 .. n + l PROVE c[i] \in (ToSet(a) \ {a[1]}) \cup ToSet(b)
    <3>1. CASE i <= n
      <4>1. i + 1 \in 1 .. n + 1 /\ 1 \in 1 .. n + 1 /\ i + 1 # 1 /\ c[i] = a[i + 1]
        BY <1>5, <2>0, <3>1
      <4>2. a[i + 1] # a[1] /\ a[i + 1] \in ToSet(a)
        BY <1>3, <1>4, <4>1
      <4> QED
        BY <4>1, <4>2
    <3>2. CASE i > n
      <4>1. i - n \in 1 .. l /\ c[i] = b[i - n]
        BY <1>6, <2>0, <3>2
      <4> QED
        BY <1>3, <4>1
    <3> QED
      BY <2>0, <3>1, <3>2
  <2>2. ASSUME NEW i \in 1 .. n + 1, a[i] # a[1] PROVE a[i] \in ToSet(c)
    <3>1. i - 1 \in 1 .. n /\ i - 1 \in 1 .. n + l /\ (i - 1) + 1 = i
      BY <2>0, <2>2
    <3>2. c[i - 1] = a[i]
      BY <1>5, <3>1
    <3> QED
      BY <1>3, <3>1, <3>2
  <2>3. ASSUME NEW i \in 1 .. l PROVE b[i] \in ToSet(c)
    <3>1. n + i \in 1 .. n + l /\ c[n + i] = b[i]
      BY <1>2, <2>0
    <3> QED
      BY <1>3, <3>1
  <2> QED
    BY <1>3, <2>1, <2>2, <2>3
<1>10. Head(a) \in ToSet(a)
  BY <1>1, <1>3
<1>11. ToSet(c) = (ToSet(a) \ {Head(a)}) \cup ToSet(b)
  BY <1>1, <1>9
<1> QED
  BY <1>2, <1>8, <1>10, <1>11 DEF c, t

LEMMA ChildFacts ==
  ASSUME size \in Nat, NEW h \in 1 .. size
  PROVE  /\ Children(h) \in Seq(1 .. size) /\ Distinct(Children(h))
         /\ ToSet(Children(h)) = {i \in 2 .. size : Par(i) = h}
<1> DEFINE c == Children(h)
           F == {i \in 2 .. size : Par(i) = h}
<1>0. h \in Nat /\ h >= 1 /\ 2 * h \in Nat
  OBVIOUS
<1>1. Par(2 * h) = h /\ Par(2 * h + 1) = h
  BY <1>0, ParFacts
<1>2. \A i \in F : i = 2 * h \/ i = 2 * h + 1
  BY <1>0, ParFacts
<1>3. CASE 2 * h + 1 <= size
  <2>1. F = {2 * h, 2 * h + 1} /\ 2 * h \in 1 .. size /\ 2 * h + 1 \in 1 .. size
    BY <1>0, <1>1, <1>2, <1>3
  <2>2. c = <<2 * h, 2 * h + 1>> \/ c = <<2 * h + 1, 2 * h>>
    BY <1>3 DEF Children
  <2>3. 2 * h # 2 * h + 1
    BY <1>0
  <2> HIDE DEF c, F
  <2>4. \A x, y : x \in 1 .. size /\ y \in 1 .. size /\ x # y =>
          /\ <<x, y>> \in Seq(1 .. size) /\ Distinct(<<x, y>>) /\ ToSet(<<x, y>>) = {x, y}
    BY DEF Distinct, ToSet
  <2>5. c \in Seq(1 .. size) /\ Distinct(c) /\ ToSet(c) = F
    <3> DEFINE x == 2 * h
               y == 2 * h + 1
    <3>1. x \in 1 .. size /\ y \in 1 .. size /\ x # y /\ F = {x, y} /\ (c = <<x, y>> \/ c = <<y, x>>)
      BY <2>1, <2>2, <2>3
    <3> HIDE DEF x, y
    <3>2. CASE c = <<x, y>>
      BY <2>4, <3>1, <3>2
    <3>3. CASE c = <<y, x>>
      <4>1. c \in Seq(1 .. size) /\ Distinct(c) /\ ToSet(c) = {y, x}
        BY <2>4, <3>1, <3>3
      <4> QED
        BY <3>1, <4>1
    <3> QED
      BY <3>1, <3>2, <3>3
  <2> QED
    BY <2>5 DEF c, F
<1>4. CASE ~(2 * h + 1 <= size) /\ 2 * h <= size
  <2>1. F = {2 * h} /\ 2 * h \in 1 .. size
    BY <1>0, <1>1, <1>2, <1>4
  <2>2. c = <<2 * h>>
    BY <1>4 DEF Children
  <2> HIDE DEF c, F
  <2>3. \A x : x \in 1 .. size =>
          <<x>> \in Seq(1 .. size) /\ Distinct(<<x>>) /\ ToSet(<<x>>) = {x}
    BY DEF Distinct, ToSet
  <2>4. c \in Seq(1 .. size) /\ Distinct(c) /\ ToSet(c) = F
    BY <2>1, <2>2, <2>3
  <2> QED
    BY <2>4 DEF c, F
<1>5. CASE ~(2 * h + 1 <= size) /\ ~(2 * h <= size)
  <2>1. F = {}
    BY <1>0, <1>2, <1>5
  <2>2. c = <<>>
    BY <1>5 DEF Children
  <2> QED
    BY <2>1, <2>2 DEF Distinct, ToSet
<1> QED
  BY <1>3, <1>4, <1>5

\* The search has checked the k positions in D, without a match, and is to check those in
\* items and their descendants.
Searched(D, items, matching, k) ==
  /\ D \subseteq 1 .. size /\ Cardinality(D) = k
  /\ items \in Seq(1 .. size) /\ Distinct(items) /\ D \cap ToSet(items) = {}
  /\ 1 \in D \cup ToSet(items)
  /\ \A i \in 2 .. size : i \in D \cup ToSet(items) <=> Par(i) \in D
  /\ \A d \in D : peers[d] \notin matching

NoMatch(matching) == \A i \in 1 .. size : peers[i] \notin matching

\* After k turns.
Looking(items, matching, k) ==
  \/ items \in Seq(1 .. size) /\ Found(items, matching)
  \/ items = <<>> /\ NoMatch(matching)
  \/ \E D : Searched(D, items, matching, k)

\* A search that has nothing left to check has checked everything.
LEMMA AllSearched ==
  ASSUME size \in Nat, NEW D, NEW matching, NEW k, Searched(D, <<>>, matching, k)
  PROVE  NoMatch(matching)
<1> DEFINE B == (1 .. size) \ D
<1>1. /\ 1 \in D /\ \A i \in 2 .. size : Par(i) \in D => i \in D
      /\ \A d \in D : peers[d] \notin matching
  <2>1. ToSet(<<>>) = {}
    BY DEF ToSet
  <2> QED
    BY <2>1 DEF Searched
<1>2. ASSUME B # {} PROVE FALSE
  <2>1. PICK i \in B : \A j \in B : i <= j
    <3>1. B \in SUBSET Nat
      OBVIOUS
    <3> HIDE DEF B
    <3> QED
      BY <1>2, <3>1, LeastNumber
  <2>2. i \in 2 .. size /\ i \in Nat
    BY <1>1, <2>1
  <2>3. Par(i) \in Nat /\ 1 <= Par(i) /\ Par(i) < i
    BY <2>2, ParFacts
  <2>4. Par(i) \in 1 .. size /\ Par(i) \notin B
    BY <2>1, <2>2, <2>3
  <2> QED
    BY <1>1, <2>1, <2>2, <2>4
<1> QED
  BY <1>1, <1>2 DEF NoMatch

\* A position is checked and its children are to be.
LEMMA OneMoreSearched ==
  ASSUME size \in Nat, NEW k \in Nat, NEW D, NEW items, NEW matching,
         Searched(D, items, matching, k), items # <<>>, ~Found(items, matching)
  PROVE  Searched(D \cup {Head(items)}, Turn(items, matching), matching, k + 1)
<1> DEFINE h == Head(items)
           C == Children(h)
           q == Tail(items) \o C
           E == D \cup {h}
<1>1. /\ D \subseteq 1 .. size /\ Cardinality(D) = k
      /\ items \in Seq(1 .. size) /\ Distinct(items) /\ D \cap ToSet(items) = {}
      /\ 1 \in D \cup ToSet(items)
      /\ \A i \in 2 .. size : i \in D \cup ToSet(items) <=> Par(i) \in D
      /\ \A d \in D : peers[d] \notin matching
  BY DEF Searched
<1>2. h \in 1 .. size /\ h \in ToSet(items)
  <2>1. Len(items) \in Nat /\ Len(items) >= 1 /\ DOMAIN items = 1 .. Len(items) /\ h = items[1]
    BY <1>1
  <2>2. 1 \in DOMAIN items
    BY <2>1
  <2> QED
    BY <1>1, <2>1, <2>2 DEF ToSet
<1>3. peers[h] \notin matching /\ Turn(items, matching) = q
  <2>1. h <= size
    BY <1>2
  <2> QED
    BY <2>1 DEF Found, Turn
<1>4. C \in Seq(1 .. size) /\ Distinct(C) /\ ToSet(C) = {i \in 2 .. size : Par(i) = h}
  BY <1>2, ChildFacts
<1> HIDE DEF h, C
<1>5. h \notin D
  BY <1>1, <1>2
<1>6. ToSet(items) \cap ToSet(C) = {} /\ D \cap ToSet(C) = {} /\ h \notin ToSet(C)
  <2>1. ASSUME NEW i \in ToSet(C) PROVE i \notin D \cup ToSet(items)
    BY <1>1, <1>4, <1>5
  <2> QED
    BY <1>2, <2>1
<1>7. q \in Seq(1 .. size) /\ Distinct(q) /\ ToSet(q) = (ToSet(items) \ {h}) \cup ToSet(C)
  BY <1>1, <1>4, <1>6, QueueFacts DEF h
<1> HIDE DEF q
<1>8. E \subseteq 1 .. size /\ E \cap ToSet(q) = {} /\ 1 \in E \cup ToSet(q)
  BY <1>1, <1>2, <1>6, <1>7
<1>9. \A i \in 2 .. size : i \in E \cup ToSet(q) <=> Par(i) \in E
  BY <1>1, <1>2, <1>4, <1>7
<1>10. Cardinality(E) = k + 1
  <2>1. IsFiniteSet(1 .. size)
    BY FS_Interval
  <2>2. IsFiniteSet(D)
    BY <1>1, <2>1, FS_Subset
  <2> QED
    BY <1>1, <1>5, <2>2, FS_AddElement
<1>11. \A d \in E : peers[d] \notin matching
  BY <1>1, <1>3
<1>12. Searched(E, q, matching, k + 1)
  BY <1>7, <1>8, <1>9, <1>10, <1>11 DEF Searched
<1> QED
  BY <1>3, <1>12 DEF h

LEMMA TurnKeeps ==
  ASSUME size \in Nat, NEW k \in Nat, NEW items, NEW matching, Looking(items, matching, k)
  PROVE  Looking(Turn(items, matching), matching, k + 1)
<1>1. CASE Found(items, matching) \/ items = <<>>
  <2>1. Turn(items, matching) = items
    BY <1>1 DEF Turn
  <2>2. CASE \E D : Searched(D, items, matching, k)
    <3>1. PICK D : Searched(D, items, matching, k)
      BY <2>2
    <3>2. CASE Found(items, matching)
      BY <2>1, <3>1, <3>2 DEF Looking, Searched
    <3>3. CASE items = <<>>
      <4>1. NoMatch(matching)
        BY <3>1, <3>3, AllSearched
      <4> QED
        BY <2>1, <3>3, <4>1 DEF Looking
    <3> QED
      BY <1>1, <3>2, <3>3
  <2>3. CASE ~\E D : Searched(D, items, matching, k)
    BY <2>1, <2>3 DEF Looking
  <2> QED
    BY <2>2, <2>3
<1>2. CASE ~Found(items, matching) /\ items # <<>>
  <2>1. PICK D : Searched(D, items, matching, k)
    BY <1>2 DEF Looking
  <2>2. Searched(D \cup {Head(items)}, Turn(items, matching), matching, k + 1)
    BY <1>2, <2>1, OneMoreSearched
  <2> QED
    BY <2>2 DEF Looking
<1> QED
  BY <1>1, <1>2

\* The search ends with the first match, or when no position is left.
LEMMA SearchEnds ==
  ASSUME Base, NEW matching \in SUBSET Peers, size > 0
  PROVE  \/ smallest(matching) \in 1 .. size /\ peers[smallest(matching)] \in matching
         \/ smallest(matching) = 0 /\ NoMatch(matching)
<1>1. size \in Nat
  BY BaseFacts
<1>2. PICK s : /\ s[0] = <<1>>
               /\ \A k \in 1 .. size + 1 : s[k] = Turn(s[k - 1], matching)
               /\ smallest(matching) = IF s[size + 1] = <<>> THEN 0 ELSE Head(s[size + 1])
  BY <1>1, SmallestFacts
<1> DEFINE B == {k \in 0 .. size + 1 : ~Looking(s[k], matching, k)}
<1>3. Looking(s[0], matching, 0)
  <2>1. /\ <<1>> \in Seq(1 .. size) /\ Distinct(<<1>>) /\ ToSet(<<1>>) = {1}
    <3>1. \A x : x \in 1 .. size =>
            <<x>> \in Seq(1 .. size) /\ Distinct(<<x>>) /\ ToSet(<<x>>) = {x}
      BY DEF Distinct, ToSet
    <3> QED
      BY <1>1, <3>1
  <2>2. Cardinality({}) = 0
    BY FS_EmptySet
  <2>3. Searched({}, <<1>>, matching, 0)
    BY <2>1, <2>2 DEF Searched
  <2> QED
    BY <1>2, <2>3 DEF Looking
<1>4. ASSUME B # {} PROVE FALSE
  <2>1. PICK k \in B : \A j \in B : k <= j
    <3>1. B \in SUBSET Nat
      BY <1>1
    <3> HIDE DEF B
    <3> QED
      BY <1>4, <3>1, LeastNumber
  <2>2. k # 0
    BY <1>3, <2>1
  <2>3. k \in 1 .. size + 1 /\ k - 1 \in Nat /\ (k - 1) + 1 = k /\ k - 1 \in 0 .. size + 1 /\ k - 1 \notin B
    BY <1>1, <2>1, <2>2
  <2>4. Looking(s[k - 1], matching, k - 1)
    BY <2>3
  <2>5. Looking(Turn(s[k - 1], matching), matching, (k - 1) + 1)
    BY <1>1, <2>3, <2>4, TurnKeeps
  <2> QED
    BY <1>2, <2>1, <2>3, <2>5
<1> DEFINE q == s[size + 1]
<1>5. Looking(q, matching, size + 1)
  BY <1>1, <1>4
<1>6. smallest(matching) = IF q = <<>> THEN 0 ELSE Head(q)
  BY <1>2
<1> HIDE DEF q
<1>7. ASSUME NEW D, Searched(D, q, matching, size + 1) PROVE FALSE
  <2>1. D \subseteq 1 .. size /\ Cardinality(D) = size + 1
    BY <1>7 DEF Searched
  <2>2. IsFiniteSet(1 .. size) /\ Cardinality(1 .. size) = size
    BY <1>1, FS_Interval
  <2>3. Cardinality(D) <= Cardinality(1 .. size)
    BY <2>1, <2>2, FS_Subset
  <2> QED
    BY <1>1, <2>1, <2>2, <2>3
<1>8. CASE q \in Seq(1 .. size) /\ Found(q, matching)
  <2>1. q # <<>> /\ peers[Head(q)] \in matching
    BY <1>8 DEF Found
  <2>2. Head(q) \in 1 .. size
    BY <1>8, <2>1, HeadTailProperties
  <2> QED
    BY <1>6, <2>1, <2>2
<1>9. CASE q = <<>> /\ NoMatch(matching)
  BY <1>6, <1>9
<1> QED
  BY <1>5, <1>7, <1>8, <1>9 DEF Looking

-----------------------------------------------------------------------------
(* The choice of a peer: who is the smallest.                              *)

\* In a heap no position comes before a, if every position but those above a has its parent
\* among those that a comes before.
LEMMA SmallestBelow ==
  ASSUME Base, AtRest, NEW a \in 1 .. size, NEW f \in 1 .. size,
         \A i \in f .. size : (i = f \/ Par(i) < f) => ~lt(i, a)
  PROVE  \A i \in f .. size : ~lt(i, a)
<1> DEFINE B == {i \in f .. size : lt(i, a)}
<1>1. Ranked(weights) /\ size \in Nat /\ \A i \in 1 .. size : peers[i] \in Peers
  BY BaseFacts
<1>2. \A i, j : ~lt(i, j) <=> LE(weights, peers[j], peers[i])
  BY BeforeIsLess DEF lt, LE
<1>3. \A i \in 2 .. size : LE(weights, peers[Par(i)], peers[i])
  BY DEF AtRest, Ord, AfterAncestors
<1>4. ASSUME B # {} PROVE FALSE
  <2>1. PICK i \in B : \A j \in B : i <= j
    <3>1. B \in SUBSET Nat
      BY <1>1
    <3> HIDE DEF B
    <3> QED
      BY <1>4, <3>1, LeastNumber
  <2>2. i \in f .. size /\ lt(i, a) /\ i # f /\ ~(Par(i) < f)
    BY <2>1
  <2>3. i \in 2 .. size /\ i \in Nat /\ f \in Nat
    BY <1>1, <2>2
  <2>4. Par(i) \in Nat /\ 1 <= Par(i) /\ Par(i) < i
    BY <2>3, ParFacts
  <2>5. Par(i) \in f .. size /\ Par(i) \in 1 .. size /\ Par(i) \notin B
    BY <1>1, <2>1, <2>2, <2>3, <2>4
  <2>6. LE(weights, peers[a], peers[Par(i)]) /\ LE(weights, peers[Par(i)], peers[i])
    BY <1>2, <1>3, <2>3, <2>5
  <2>7. LE(weights, peers[a], peers[i])
    <3>1. peers[a] \in Peers /\ peers[i] \in Peers /\ peers[Par(i)] \in Peers
      BY <1>1, <2>3, <2>5
    <3> QED
      BY <1>1, <2>6, <3>1, LEFacts
  <2> QED
    BY <1>2, <2>2, <2>7
<1> QED
  BY <1>4

LEMMA NotBeforeItself ==
  ASSUME Base, NEW i \in 1 .. size PROVE ~lt(i, i)
<1>1. peers[i] \in Peers /\ Ranked(weights)
  BY BaseFacts
<1>2. rank[peers[i]] \in Nat /\ order[peers[i]] \in Nat
  BY <1>1, HeapAssumption DEF Ranked, weights
<1> QED
  BY <1>2 DEF lt, Before

\* A search that is over stays as it is.
LEMMA SearchStays ==
  ASSUME size \in Nat, NEW matching, NEW s, NEW j \in 0 .. size + 1,
         \A k \in 1 .. size + 1 : s[k] = Turn(s[k - 1], matching),
         Found(s[j], matching) \/ s[j] = <<>>
  PROVE  s[size + 1] = s[j]
<1> DEFINE B == {k \in j .. size + 1 : s[k] # s[j]}
<1>1. ASSUME B # {} PROVE FALSE
  <2>1. PICK k \in B : \A i \in B : k <= i
    <3>1. B \in SUBSET Nat
      OBVIOUS
    <3> HIDE DEF B
    <3> QED
      BY <1>1, <3>1, LeastNumber
  <2>2. k \in 1 .. size + 1 /\ k - 1 \in j .. size + 1 /\ k - 1 \notin B
    BY <2>1
  <2>3. s[k - 1] = s[j] /\ s[k] = Turn(s[k - 1], matching)
    BY <2>2
  <2>4. Turn(s[j], matching) = s[j]
    BY DEF Turn
  <2> QED
    BY <2>1, <2>3, <2>4
<1> QED
  BY <1>1

\* The first position, or the smaller of its children, is where the search for any peer but
\* p ends.
LEMMA FirstFound ==
  ASSUME Base, NEW p \in Peers, smallest(Peers \ {p}) # 0, size > 0
  PROVE  \/ smallest(Peers \ {p}) = 1
         \/ /\ peers[1] = p /\ size >= 2 /\ smallest(Peers \ {p}) \in 2 .. 3
            /\ smallest(Peers \ {p}) \in 1 .. size
            /\ \A i \in 2 .. 3 : i <= size => ~lt(i, smallest(Peers \ {p}))
<1> DEFINE matching == Peers \ {p}
<1>1. size \in Nat /\ Distinct(peers) /\ DOMAIN peers = 1 .. size /\ \A i \in 1 .. size : peers[i] \in Peers
  BY BaseFacts
<1>2. PICK s : /\ s[0] = <<1>>
               /\ \A k \in 1 .. size + 1 : s[k] = Turn(s[k - 1], matching)
               /\ smallest(matching) = IF s[size + 1] = <<>> THEN 0 ELSE Head(s[size + 1])
  BY <1>1, SmallestFacts
<1>3. <<1>> # <<>> /\ Head(<<1>>) = 1 /\ Tail(<<1>>) = <<>> /\ 1 \in 1 .. size
  BY <1>1
<1>4. CASE peers[1] # p
  <2>1. Found(s[0], matching)
    BY <1>1, <1>2, <1>3, <1>4 DEF Found
  <2>2. s[size + 1] = s[0]
    <3>1. 0 \in 0 .. size + 1
      BY <1>1
    <3> HIDE DEF matching
    <3> QED
      BY <1>1, <1>2, <2>1, <3>1, SearchStays
  <2>3. smallest(matching) = 1
    BY <1>2, <1>3, <2>2
  <2> QED
    BY <2>3
<1>5. CASE peers[1] = p
  <2>1. ~Found(s[0], matching)
    BY <1>2, <1>3, <1>5 DEF Found
  <2>2. s[1] = Children(1)
    <3>1. s[1] = Turn(s[0], matching)
      <4>1. 1 \in 1 .. size + 1 /\ 1 - 1 = 0
        BY <1>1
      <4> HIDE DEF matching
      <4>2. s[1] = Turn(s[1 - 1], matching)
        BY <1>2, <4>1
      <4> QED
        BY <4>1, <4>2
    <3>2. Turn(s[0], matching) = <<>> \o Children(1)
      BY <1>2, <1>3, <2>1 DEF Turn
    <3>3. Children(1) \in Seq(1 .. size)
      BY <1>1, <1>3, ChildFacts
    <3>4. <<>> \o Children(1) = Children(1)
      BY <3>3
    <3> QED
      BY <3>1, <3>2, <3>4
  <2>3. Found(s[1], matching) \/ s[1] = <<>>
    <3> SUFFICES ASSUME Children(1) # <<>> PROVE Found(Children(1), matching)
      BY <2>2
    <3>1. Children(1) \in Seq(1 .. size) /\ ToSet(Children(1)) = {i \in 2 .. size : Par(i) = 1}
      BY <1>1, <1>3, ChildFacts
    <3> DEFINE c == Children(1)
    <3>2. Head(c) \in ToSet(c)
      <4> HIDE DEF c
      <4>1. Len(c) \in Nat /\ Len(c) >= 1 /\ DOMAIN c = 1 .. Len(c) /\ Head(c) = c[1]
        BY <3>1 DEF c
      <4>2. 1 \in DOMAIN c
        BY <4>1
      <4> QED
        BY <4>1, <4>2 DEF ToSet
    <3>3. Head(c) \in 2 .. size
      BY <3>1, <3>2
    <3>4. peers[Head(c)] # peers[1] /\ peers[Head(c)] \in Peers /\ Head(c) <= size
      BY <1>1, <1>3, <3>3 DEF Distinct
    <3> QED
      BY <1>5, <3>4 DEF Found
  <2>4. s[size + 1] = Children(1)
    <3>1. 1 \in 0 .. size + 1
      BY <1>1
    <3>2. s[size + 1] = s[1]
      BY <1>1, <1>2, <2>3, <3>1, SearchStays, ZenonT(30)
    <3> QED
      BY <2>2, <3>2
  <2>5. Children(1) # <<>> /\ smallest(matching) = Head(Children(1))
    BY <1>2, <2>4
  <2> DEFINE r == smallest(matching)
  <2>6. CASE 3 <= size /\ lt(3, 2)
    <3>1. Children(1) = <<3, 2>>
      BY <2>6 DEF Children
    <3>2. r = 3
      BY <2>5, <3>1
    <3>3. ~lt(3, 3) /\ ~lt(2, 3)
      <4>1. 2 \in 1 .. size /\ 3 \in 1 .. size
        BY <1>1, <2>6
      <4>2. ~lt(3, 3)
        BY <4>1, NotBeforeItself
      <4>3. Ranked(weights) /\ peers[2] \in Peers /\ peers[3] \in Peers
        BY <1>1, <4>1, BaseFacts
      <4>4. ~lt(2, 3)
        BY <2>6, <4>3, BeforeIsLess, LEFacts DEF lt, LE
      <4> QED
        BY <4>2, <4>4
    <3>4. \A i \in 2 .. 3 : i = 2 \/ i = 3
      OBVIOUS
    <3> QED
      BY <1>1, <1>5, <2>6, <3>2, <3>3, <3>4
  <2>7. CASE 2 <= size /\ ~(3 <= size /\ lt(3, 2))
    <3>1. Children(1) = <<2, 3>> \/ Children(1) = <<2>>
      BY <1>1, <2>7 DEF Children
    <3>2. r = 2
      BY <2>5, <3>1
    <3>3. ~lt(2, 2)
      <4>1. 2 \in 1 .. size
        BY <1>1, <2>7
      <4> QED
        BY <4>1, NotBeforeItself
    <3>4. \A i \in 2 .. 3 : i = 2 \/ i = 3
      OBVIOUS
    <3> QED
      BY <1>1, <1>5, <2>7, <3>2, <3>3, <3>4
  <2>8. CASE ~(2 <= size)
    <3>1. Children(1) = <<>>
      BY <1>1, <2>8 DEF Children
    <3> QED
      BY <2>5, <3>1
  <2> QED
    BY <1>1, <2>6, <2>7, <2>8
<1> QED
  BY <1>4, <1>5

LEMMA ChoiceFacts == Base /\ (Idle => AtRest) => ChoiceIsRight
<1> SUFFICES ASSUME Base, Idle => AtRest PROVE ChoiceIsRight
  OBVIOUS
<1>1. size \in Nat /\ Members \subseteq Peers /\ \A i \in 1 .. size : peers[i] \in Peers
  BY BaseFacts
<1>2. \A q \in Members : \E i \in 1 .. size : q = peers[i]
  BY DEF Members
<1>3. \A i \in 1 .. size : peers[i] \in Members
  BY DEF Members
<1>4. ASSUME NEW matching \in SUBSET Peers, size = 0
      PROVE  smallest(matching) = 0 /\ Members = {}
  <2>1. PICK s : /\ s[0] = <<1>>
                 /\ \A k \in 1 .. size + 1 : s[k] = Turn(s[k - 1], matching)
                 /\ smallest(matching) = IF s[size + 1] = <<>> THEN 0 ELSE Head(s[size + 1])
    BY <1>1, SmallestFacts
  <2>2. <<1>> # <<>> /\ Head(<<1>>) = 1 /\ Tail(<<1>>) = <<>> /\ <<>> \o <<>> = <<>>
    OBVIOUS
  <2>3. Children(1) = <<>>
    BY <1>4 DEF Children
  <2>4. Turn(<<1>>, matching) = <<>>
    BY <1>4, <2>2, <2>3 DEF Turn, Found
  <2>5. size + 1 = 1 /\ 1 \in 1 .. size + 1 /\ 1 - 1 = 0
    BY <1>4
  <2>6. s[1] = <<>>
    BY <2>1, <2>4, <2>5
  <2> QED
    BY <1>4, <2>1, <2>5, <2>6 DEF Members
<1>5. ASSUME NEW matching \in SUBSET Peers
      PROVE  \/ /\ smallest(matching) \in 1 .. size /\ peers[smallest(matching)] \in matching
                /\ smallest_peer(matching) = {peers[smallest(matching)]}
             \/ smallest_peer(matching) = {} /\ smallest(matching) = 0 /\ Members \cap matching = {}
  <2>1. CASE smallest(matching) \in 1 .. size /\ peers[smallest(matching)] \in matching
    <3>1. {smallest(matching)} \ {0} = {smallest(matching)}
      BY <1>1, <2>1
    <3> QED
      BY <2>1, <3>1 DEF smallest_peer
  <2>2. CASE smallest(matching) = 0 /\ Members \cap matching = {}
    <3>1. {smallest(matching)} \ {0} = {}
      BY <2>2
    <3> QED
      BY <2>2, <3>1 DEF smallest_peer
  <2>3. CASE size = 0
    BY <1>4, <2>2, <2>3
  <2>4. CASE size > 0
    <3>1. NoMatch(matching) => Members \cap matching = {}
      BY <1>2 DEF NoMatch
    <3> QED
      BY <2>1, <2>2, <2>4, <3>1, SearchEnds
  <2> QED
    BY <1>1, <2>3, <2>4
<1>6. FindsAMatch
  <2> SUFFICES ASSUME NEW matching \in SUBSET Peers
               PROVE  /\ smallest_peer(matching) \subseteq Members \cap matching
                      /\ (smallest_peer(matching) = {}) <=> (Members \cap matching = {})
    BY DEF FindsAMatch
  <2>1. CASE /\ smallest(matching) \in 1 .. size /\ peers[smallest(matching)] \in matching
             /\ smallest_peer(matching) = {peers[smallest(matching)]}
    <3>1. peers[smallest(matching)] \in Members \cap matching
      BY <1>3, <2>1
    <3> QED
      BY <2>1, <3>1
  <2> QED
    BY <1>5, <2>1
<1>7. FirstRetryIsSmallest
  <2> SUFFICES ASSUME Idle, NEW p \in Peers, NEW q \in smallest_peer(Peers \ {p})
               PROVE  IsSmallestOf(q, Peers \ {p})
    BY DEF FirstRetryIsSmallest
  <2> DEFINE matching == Peers \ {p}
             r == smallest(matching)
  <2>1. r \in 1 .. size /\ r # 0 /\ size > 0 /\ q = peers[r] /\ q \in matching
    <3>1. matching \in SUBSET Peers
      OBVIOUS
    <3> HIDE DEF matching
    <3>2. q \in smallest_peer(matching)
      BY DEF matching
    <3>3. r \in 1 .. size /\ q = peers[r] /\ q \in matching
      BY <1>5, <3>1, <3>2
    <3> QED
      BY <1>1, <3>3
  <2>2. ASSUME NEW i \in 1 .. size, peers[i] # p PROVE ~lt(i, r)
    <3> HIDE DEF r
    <3>1. CASE r = 1
      <4>1. ~lt(1, r)
        BY <2>1, <3>1, NotBeforeItself
      <4>2. \A j \in 1 .. size : (j = 1 \/ Par(j) < 1) => ~lt(j, r)
        <5> SUFFICES ASSUME NEW j \in 1 .. size, j # 1, Par(j) < 1 PROVE FALSE
          BY <4>1
        <5>1. j \in Nat /\ j >= 2
          OBVIOUS
        <5> QED
          BY <5>1, ParFacts
      <4>3. 1 \in 1 .. size
        BY <1>1, <2>1
      <4> QED
        BY <2>1, <2>2, <4>2, <4>3, SmallestBelow
    <3>2. CASE /\ peers[1] = p /\ size >= 2 /\ \A j \in 2 .. 3 : j <= size => ~lt(j, r)
      <4>1. \A j \in 2 .. size : (j = 2 \/ Par(j) < 2) => ~lt(j, r)
        <5> SUFFICES ASSUME NEW j \in 2 .. size, j = 2 \/ Par(j) < 2 PROVE j \in 2 .. 3 /\ j <= size
          BY <3>2
        <5>1. j \in Nat /\ j >= 2 /\ j <= size
          BY <1>1
        <5>2. CASE Par(j) < 2
          <6>1. Par(j) = 1
            BY <5>1, <5>2, ParFacts
          <6>2. j = 2 \/ j = 3
            BY <5>1, <6>1, ParFacts
          <6> QED
            BY <5>1, <6>2
        <5> QED
          BY <5>1, <5>2
      <4>2. 2 \in 1 .. size
        BY <1>1, <3>2
      <4>3. \A j \in 2 .. size : ~lt(j, r)
        BY <2>1, <4>1, <4>2, SmallestBelow
      <4>4. i # 1
        BY <2>2, <3>2
      <4> QED
        BY <1>1, <4>3, <4>4
    <3>3. \/ r = 1
          \/ peers[1] = p /\ size >= 2 /\ \A j \in 2 .. 3 : j <= size => ~lt(j, r)
      BY <2>1, FirstFound DEF r
    <3> QED
      BY <3>1, <3>2, <3>3
  <2>3. ASSUME NEW x \in Members \cap matching PROVE ~Before(x, q)
    <3>1. PICK i \in 1 .. size : x = peers[i]
      BY <1>2, <2>3
    <3>2. peers[i] # p
      BY <2>3, <3>1
    <3>3. ~lt(i, r)
      BY <2>2, <3>2
    <3> QED
      BY <2>1, <3>1, <3>3 DEF lt
  <2> QED
    BY <2>1, <2>3 DEF IsSmallestOf
<1> QED
  BY <1>6, <1>7 DEF ChoiceIsRight

\* For heaps of every size and any set of peers ruled out, after any sequence of operations:
\* heap.smallest ends, what it returns matches, it finds a match whenever the heap holds one,
\* and with at most one peer ruled out it finds the smallest of the others.
THEOREM ChoiceStaysRight == HeapSpec => []ChoiceIsRight
<1>1. HeapInit => Inv
  BY InvInit
<1>2. Inv /\ [HeapNext]_heapVars => Inv'
  BY InvStep
<1>3. Inv => ChoiceIsRight
  <2> SUFFICES ASSUME Inv PROVE ChoiceIsRight
    OBVIOUS
  <2>1. Base
    BY DEF Inv
  <2>2. ASSUME Idle PROVE AtRest
    BY <2>2, TodoFacts DEF Inv, Idle, Progress, AtRest, Rising, RisingFirst, Shuffling, FixingTwo,
       SinkingFirst, RisingThenFix, Fixing, Sinking, SinkingToPop, RisingToPop, PoppingFirst,
       Popping
  <2> QED
    BY <2>1, <2>2, ChoiceFacts
<1> QED
  BY <1>1, <1>2, <1>3, PTL DEF HeapSpec

\* The same of the heap of a group, with the ranks its connections give the peers and with
\* the updates of peers that were removed from it: what choose returns for a first retry is
\* the peer of the best current rank, and it raises no error while a peer is left to try.
THEOREM GroupChoosesRight == Spec => []ChoiceIsRight
<1>1. Init => GroupInv
  BY GroupInit
<1>2. GroupInv /\ [Next]_vars => GroupInv'
  BY GroupStep
<1>3. GroupInv => ChoiceIsRight
  <2> SUFFICES ASSUME GroupInv PROVE ChoiceIsRight
    OBVIOUS
  <2>1. GroupHeap
    BY DEF GroupInv
  <2>2. Base /\ (Idle => AtRest)
    BY <2>1, IdleHeap DEF GroupHeap
  <2> QED
    BY <2>2, ChoiceFacts
<1> QED
  BY <1>1, <1>2, <1>3, PTL DEF Spec

=============================================================================
