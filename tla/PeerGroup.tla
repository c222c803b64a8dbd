------------------------------ MODULE PeerGroup -----------------------------
(***************************************************************************)
(* tchannel.tornado.peer: PeerGroup, the peers it knows, their connections *)
(* and the ranks that PreferIncomingCalculator gives them, on top of the   *)
(* heap of PeerHeap.                                                       *)
(*                                                                         *)
(* All of it runs on the event loop: a call runs to its end, the heap's    *)
(* loops included, before the next one starts.                             *)
(***************************************************************************)
EXTENDS PeerHeap, FiniteSets, SequencesExt

CONSTANTS
  Hosts,       \* host-ports
  Conns,       \* connections
  MaxPending,  \* bound on a connection's total_outbound_pendings
  MaxClears,   \* bound on calls of clear
  Grain,       \* space between the numbers of the second tier: 1 for the integers of
               \* Python 2, 1024 for the floats near 2^62 of Python 3
  NoPeer, NoHost

VARIABLES
  known,       \* _peers: the Peer of each host-port, or NoPeer
  host,        \* the host-port each Peer object was made for, or NoHost
  watched,     \* Peers made with an _on_conn_change_cb
  connections, \* the deque of connections of each Peer
  direction,   \* of each connection: "in" or "out", "new" before it is made
  closed,      \* connections that were closed
  pending,     \* total_outbound_pendings of each connection
  asked,       \* host-ports passed to get since they were last removed
  clears,      \* calls of clear so far
  failed       \* Peers whose update raised IndexError

groupVars ==
  <<known, host, watched, connections, direction, closed, pending, asked, clears, failed>>
vars == <<heapVars, groupVars>>

GroupTypeOK ==
  /\ known \in [Hosts -> Peers \cup {NoPeer}]
  /\ host \in [Peers -> Hosts \cup {NoHost}]
  /\ watched \subseteq Peers
  /\ connections \in [Peers -> Seq(Conns)]
  /\ direction \in [Conns -> {"new", "in", "out"}]
  /\ closed \subseteq Conns
  /\ pending \in [Conns -> 0 .. MaxPending]
  /\ asked \subseteq Hosts
  /\ clears \in 0 .. MaxClears
  /\ failed \subseteq Peers

-----------------------------------------------------------------------------
(* Ranks.                                                                  *)

\* TIERS, with the space between them that MaxPending asks for.
MaxOutbound == MaxPending * Cardinality(Conns)
Tier == <<2 * (MaxOutbound + Grain) + 1, MaxOutbound + Grain + 1, 0>>

\* What is left of n when it is added to sys.maxsize / 2: the nearest multiple of Grain,
\* the even one of two.
Rounded(n) ==
  LET over == n % Grain
      up   == 2 * over > Grain \/ (2 * over = Grain /\ (n \div Grain) % 2 = 1)
  IN  IF up THEN n - over + Grain ELSE n - over

ASSUME GroupAssumption ==
  /\ IsFiniteSet(Conns) /\ MaxPending \in Nat /\ MaxClears \in Nat /\ Grain \in Nat \ {0}
  /\ NoPeer \notin Peers /\ NoHost \notin Hosts

ASSUME RanksAssumption == Ranks = 0 .. Tier[1]

Total(counts) ==
  LET sum[k \in 0 .. Len(counts)] == IF k = 0 THEN 0 ELSE sum[k - 1] + counts[k]
  IN  sum[Len(counts)]

total_outbound_pendings(cs, pend) == Total([k \in DOMAIN cs |-> pend[cs[k]]])

has_incoming_connections(cs) == cs # <<>> /\ direction'[cs[1]] = "in"

\* Rank of a peer with the connections cs in the next state.
get_rank(cs, pend) ==
  IF cs = <<>> THEN Tier[1]
  ELSE IF has_incoming_connections(cs) THEN Tier[3] + total_outbound_pendings(cs, pend)
  ELSE Tier[2] + Rounded(total_outbound_pendings(cs, pend))

\* _on_conn_change and _update_heap, for the connections and pendings of the next
\* state.  A peer removed from the heap keeps its callback and its index.
UpdateHeap(p) ==
  LET r == get_rank(connections'[p], pending')
  IN  IF p \notin watched \/ r = rank[p]
      THEN UNCHANGED <<heapVars, failed>>
      ELSE IF index[p] > size /\ index[p] > 1
      THEN /\ rank' = [rank EXCEPT ![p] = r]
           /\ failed' = failed \cup {p}
           /\ UNCHANGED <<peers, counter, order, index, todo>>
      ELSE update_peer(p, r) /\ UNCHANGED failed

-----------------------------------------------------------------------------
(* The group.                                                              *)

Init ==
  /\ HeapInit /\ rank = [p \in Peers |-> Tier[1]]
  /\ known = [h \in Hosts |-> NoPeer]
  /\ host = [p \in Peers |-> NoHost]
  /\ watched = {}
  /\ connections = [p \in Peers |-> <<>>]
  /\ direction = [c \in Conns |-> "new"]
  /\ closed = {} /\ asked = {} /\ failed = {}
  /\ pending = [c \in Conns |-> 0]
  /\ clears = 0

\* The Peer object p is made for h.
NewPeer(h, p) ==
  /\ host[p] = NoHost
  /\ host' = [host EXCEPT ![p] = h]
  /\ known' = [known EXCEPT ![h] = p]

\* get of a host-port the group does not know: _add.
Add(h, p) ==
  /\ known[h] = NoPeer
  /\ NewPeer(h, p)
  /\ watched' = watched \cup {p}
  /\ add_and_shuffle(p)
  /\ asked' = asked \cup {h}
  /\ UNCHANGED <<connections, direction, closed, pending, clears, failed>>

\* get of a host-port the group knows.
GetKnown(h) ==
  /\ known[h] # NoPeer /\ h \notin asked
  /\ asked' = asked \cup {h}
  /\ UNCHANGED <<heapVars, known, host, watched, connections, direction, closed, pending,
                 clears, failed>>

\* choose with a host-port the group does not know: _get_isolated.
GetIsolated(h, p) ==
  /\ known[h] = NoPeer
  /\ NewPeer(h, p)
  /\ UNCHANGED <<heapVars, watched, connections, direction, closed, pending, asked, clears,
                 failed>>

\* remove's test of a Peer's index, which is never reset.
InHeap(p) == index[p] # 0

RemoveHost(h) ==
  /\ known[h] # NoPeer
  /\ known' = [known EXCEPT ![h] = NoPeer]
  /\ asked' = asked \ {h}
  /\ IF InHeap(known[h]) THEN remove_peer(known[h]) ELSE UNCHANGED heapVars
  /\ UNCHANGED <<host, watched, connections, direction, closed, pending, clears, failed>>

\* clear: every connection of every known peer is closed, and _peers is emptied.
Clear ==
  /\ clears < MaxClears
  /\ clears' = clears + 1
  /\ closed' = closed \cup UNION {Range(connections[p]) : p \in Range(known) \ {NoPeer}}
  /\ known' = [h \in Hosts |-> NoPeer]
  /\ asked' = {}
  /\ UNCHANGED <<heapVars, host, watched, connections, direction, pending, failed>>

-----------------------------------------------------------------------------
(* Connections.  One that is closed before it is registered is added and   *)
(* removed by the same call and leaves no trace.                           *)

\* register_outgoing_conn, when peer.connect() succeeds.
RegisterOutgoing(p, c) ==
  /\ host[p] # NoHost /\ direction[c] = "new"
  /\ direction' = [direction EXCEPT ![c] = "out"]
  /\ connections' = [connections EXCEPT ![p] = Append(@, c)]
  /\ UNCHANGED pending
  /\ UpdateHeap(p)
  /\ UNCHANGED <<known, host, watched, closed, asked, clears>>

\* Mutant of AddIncoming: the connection goes to the right.
AddIncomingRight(cs, c) == Append(cs, c)

AddIncoming(cs, c) == <<c>> \o cs

\* handle_stream: _get_isolated and register_incoming_conn after the handshake.
RegisterIncoming(h, p, c) ==
  /\ IF known[h] = NoPeer THEN NewPeer(h, p) ELSE p = known[h] /\ UNCHANGED <<known, host>>
  /\ direction[c] = "new"
  /\ direction' = [direction EXCEPT ![c] = "in"]
  /\ connections' = [connections EXCEPT ![p] = AddIncoming(@, c)]
  /\ UNCHANGED pending
  /\ UpdateHeap(p)
  /\ UNCHANGED <<watched, closed, asked, clears>>

\* on_close, for a connection that either side has closed.
OnClose(p, c) ==
  /\ c \in Range(connections[p])
  /\ connections' = [connections EXCEPT ![p] = RemoveFirst(@, c)]
  /\ closed' = closed \cup {c}
  /\ UNCHANGED <<direction, pending>>
  /\ UpdateHeap(p)
  /\ UNCHANGED <<known, host, watched, asked, clears>>

PendingAdd(c) ==
  /\ c \notin closed /\ pending[c] < MaxPending
  /\ pending' = [pending EXCEPT ![c] = @ + 1]

\* add_pending_outbound and remove_pending_outbound
PendingChange(p, c) ==
  /\ c \in Range(connections[p])
  /\ \/ PendingAdd(c)
     \/ pending[c] > 0 /\ pending' = [pending EXCEPT ![c] = @ - 1]
  /\ UNCHANGED <<connections, direction>>
  /\ UpdateHeap(p)
  /\ UNCHANGED <<known, host, watched, closed, asked, clears>>

Call ==
  /\ Idle
  /\ \/ \E h \in Hosts, p \in Peers : Add(h, p) \/ GetIsolated(h, p)
     \/ \E h \in Hosts : GetKnown(h) \/ RemoveHost(h)
     \/ Clear
     \/ \E p \in Peers, c \in Conns :
          \/ RegisterOutgoing(p, c) \/ OnClose(p, c) \/ PendingChange(p, c)
          \/ \E h \in Hosts : RegisterIncoming(h, p, c)

Step == HeapStep /\ UNCHANGED groupVars

Next == Call \/ Step

Spec == Init /\ [][Next]_vars

-----------------------------------------------------------------------------
(* Properties.                                                             *)

HasIncoming(p) == \E k \in DOMAIN connections[p] : direction[connections[p][k]] = "in"

OnlyOutgoing(p) == connections[p] # <<>> /\ ~HasIncoming(p)

Outbound(p) == total_outbound_pendings(connections[p], pending)

CurrentRank(p) ==
  IF connections[p] = <<>> THEN Tier[1]
  ELSE IF HasIncoming(p) THEN Tier[3] + Outbound(p)
  ELSE Tier[2] + Rounded(Outbound(p))

\* The heap never works with a stale rank: that of every peer in it is the one its
\* connections call for, an incoming connection anywhere in the deque counting.
RankIsCurrent == \A p \in Members : rank[p] = CurrentRank(p)

\* How the ranks compare is what the calculator is for.  Of two peers in the heap, one with
\* an incoming connection comes before one without, and one with a connection before one
\* without.  Of two with incoming connections, the one with fewer calls pending comes first.
\* Of two with outgoing ones only it does not come second, and it surely comes first when
\* the other has more than Grain calls more: with the floats of Python 3, which end at
\* every 1024th number, smaller differences of load may not be told apart.
RanksPrefer ==
  \A p, q \in Members :
    /\ HasIncoming(p) /\ ~HasIncoming(q) => rank[p] < rank[q]
    /\ connections[p] # <<>> /\ connections[q] = <<>> => rank[p] < rank[q]
    /\ HasIncoming(p) /\ HasIncoming(q) => (rank[p] < rank[q] <=> Outbound(p) < Outbound(q))
    /\ OnlyOutgoing(p) /\ OnlyOutgoing(q) =>
         /\ Outbound(p) <= Outbound(q) => rank[p] <= rank[q]
         /\ Outbound(p) + Grain < Outbound(q) => rank[p] < rank[q]

\* What choose can return is a peer the group knows: a peer that was removed or
\* forgotten gets no more requests.
OnlyKnownAreCandidates == Idle => \A p \in Members : known[host[p]] = p

\* What choose can return is a peer the group knows, whatever was removed and made anew,
\* until clear is called.
OnlyKnownUntilCleared == clears = 0 => OnlyKnownAreCandidates

\* A host-port that was passed to get can be chosen until it is removed, unless its Peer
\* was first made by _get_isolated, for a connection or for a request with a hostport.
AskedAreCandidates ==
  Idle => \A h \in asked : known[h] \in Members \/ known[h] \notin watched

\* A change of rank finds the peer in the heap, unless it was removed: fix raises
\* IndexError for no peer that the group knows.
KnownPeersAreUpdated == \A h \in Hosts : known[h] \notin failed

\* The heap of the group stays a heap, of peers with their current ranks, whatever
\* happens to their connections, and the ranks compare as the strategy says.
RanksAreSound == GroupTypeOK /\ HeapOrdered /\ RankIsCurrent /\ RanksPrefer

\* The peers that choose can return, and that on_conn_change finds in the heap, are those
\* the group should have, whatever was asked for, removed and made anew.
CandidatesAreRight == OnlyKnownUntilCleared /\ AskedAreCandidates /\ KnownPeersAreUpdated
=============================================================================
