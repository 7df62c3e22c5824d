CONSTANTS
  Clients = {a, b}
  MaxMessages = 3
SPECIFICATION Spec
INVARIANTS
  RoomIsAllocated
  GoneIsQuiet
  OneWriteOfFront
  Consecutive
PROPERTIES
  BrokenIsFreed
  QueuedIsWritten
\* All sessions end.
CHECK_DEADLOCK FALSE
