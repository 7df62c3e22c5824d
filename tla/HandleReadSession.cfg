CONSTANTS
  MaxLength = 8
  Frames <- AllFrames
  MaxFrames = 3
SPECIFICATION Spec
INVARIANTS
  BuffersFit
PROPERTIES
  ImplementsFrameStream
\* A session ends, and the peer stops after MaxFrames frames.
CHECK_DEADLOCK FALSE
