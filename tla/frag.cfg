\* Arguments of up to two chunks through frames of a few bytes.
CONSTANTS
  ChunkSizes = {1, 2, 3, 5}
  MaxChunks = 2
  FirstSpace = 7
  NextSpace = 8
SPECIFICATION FragSpec
CHECK_DEADLOCK FALSE
INVARIANT FramesAreSound
INVARIANT ArgumentsArrive
