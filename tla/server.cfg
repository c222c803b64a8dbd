CONSTANTS
  Calls = {c1}
  Cases <- MCCases
  MaxChunk = 2
SPECIFICATION Spec
CHECK_DEADLOCK FALSE
INVARIANT StreamsDeliver
INVARIANT ResponseIsWhole
INVARIANT NotBothEnds
INVARIANT CallerSeesResult
PROPERTY Answered
PROPERTY PostSettles
