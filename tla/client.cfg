\* Two requests over two peers, one of them with a hostport, with every retry flag.
CONSTANTS
  Ops = {o1, o2}
  Peers = {p1, p2}
  Group = {p1, p2}
  Pinned = {o2}
  Streaming = {}
  Flags = {"c", "n", "t", "ct"}
  retry_limit = 1
  MaxLinks = 1
  HasMessage = FALSE
  None = None
SPECIFICATION Spec
CHECK_DEADLOCK FALSE
INVARIANT NeverTwiceToAPeer
INVARIANT AttemptsBounded
PROPERTY NoResendAfterTimeout
PROPERTY RetriedRequestsEnd
