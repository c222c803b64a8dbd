\* Heaps of up to six peers, removed, re-ranked and joined by others in any order.
CONSTANTS
  Peers = {p1, p2, p3, p4, p5, p6}
  Ranks = {0, 1}
  MaxOrder = 6
SPECIFICATION PushedSpec
CHECK_DEADLOCK FALSE
INVARIANT HeapIsSound
INVARIANT ChoiceIsRight
