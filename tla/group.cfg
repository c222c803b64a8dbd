\* Two host-ports and the Peer objects, connections and pending calls they need.
CONSTANTS
  Peers = {p1, p2, p3}
  Hosts = {h1, h2}
  Conns = {c1, c2}
  MaxPending = 3
  MaxClears = 1
  Grain = 2
  MaxOrder = 3
  Ranks = {0, 1, 2, 3, 4, 5, 6, 7, 8, 9, 10, 11, 12, 13, 14, 15, 16, 17}
  NoPeer = NoPeer
  NoHost = NoHost
SYMMETRY GroupSymmetry
SPECIFICATION Spec
CHECK_DEADLOCK FALSE
INVARIANT RanksAreSound
INVARIANT CandidatesAreRight
