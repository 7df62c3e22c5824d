CONSTANTS
  MaxLength = 8
  Frames <- ValidFrames
  MaxFrames = 2
SPECIFICATION Spec
INVARIANTS
  PostedWereSent
\* A session ends, and the peer stops after MaxFrames frames.
CHECK_DEADLOCK FALSE
