CONSTANTS
  Requests <- MCRequests
  Modes = {"once", "new_episodes", "none", "all"}
  MaxCalls = 3
  MaxSessions = 3
  MaxAwaited = 1
  MaxUnderWay = 2
SPECIFICATION Spec
CHECK_DEADLOCK FALSE
INVARIANT ReplayIsFaithful
INVARIANT PatchHolds
PROPERTY FileIsKept
PROPERTY CallsEnd
