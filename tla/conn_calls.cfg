\* Single-frame responses: the races between answer, timer, close and writer, with a
\* ping that the remote sends of its own accord.
SPECIFICATION Spec
CONSTANTS
  Requests = {r1, r2}
  NoReq = NoReq
  MaxId = 3
  AllowWrap = FALSE
  MaxFrames = 1
  MaxWire = 2
  Noise = {"PING_REQ"}
  MaxNoise = 1
CHECK_DEADLOCK FALSE
INVARIANT ResponseFindsCall
PROPERTY EveryCallAnswered
