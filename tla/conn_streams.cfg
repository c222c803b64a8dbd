\* Responses of up to three frames, damaged or cut short at any point, and a close that
\* meets calls in any state.
SPECIFICATION Spec
CONSTANTS
  Requests = {r1, r2}
  NoReq = NoReq
  MaxId = 3
  AllowWrap = FALSE
  MaxFrames = 3
  MaxWire = 2
  Noise = {}
  MaxNoise = 0
SYMMETRY RequestSymmetry
CHECK_DEADLOCK FALSE
INVARIANT OwnAnswer
INVARIANT CompleteMeansAll
INVARIANT BufferedIsRegistered
PROPERTY CompletedOnce
PROPERTY CloseFailsAll
