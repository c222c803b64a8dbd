\* Two calls and other messages through damaged frames and a closed stream.
CONSTANTS
  Fits <- FrameFits
  BodyOf <- FrameOf
  Planned <- PlannedLength
  BodyRead <- ReadBody
  Calls <- MCCalls
  Others <- MCOthers
  Cuts = {1, 5, 30}
  MaxOthers = 1
  MaxFrames = 3
  MaxDamaged = 1
SPECIFICATION WireSpec
CHECK_DEADLOCK FALSE
INVARIANT FramesArrive
INVARIANT DamageIsNoticed
INVARIANT CodecIsRight
 
