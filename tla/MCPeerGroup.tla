---------------------------- MODULE MCPeerGroup -----------------------------
(* Instances of PeerGroup for TLC.                                         *)
EXTENDS PeerGroup, TLC

GroupSymmetry == Permutations(Peers) \cup Permutations(Hosts) \cup Permutations(Conns)
=============================================================================
