\* Three values, two blocking consumers and two that do not wait.
SPECIFICATION Spec
CONSTANTS
  Puts = {p1, p2, p3}
  Gets = {g1, g2}
  Nowaits = {n1, n2}
  Waiting = Waiting
  Empty = Empty
  Idle = Idle
CHECK_DEADLOCK FALSE
PROPERTY IsFifo
PROPERTY NobodyWaitsInVain
