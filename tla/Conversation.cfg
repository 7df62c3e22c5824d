CONSTANTS
  MaxSendQue = 1
  MaxPosts = 3
  Frames <- AllFrames
  Requests <- OurRequests
  Callbacks <- OurCallbacks
  MaxLength = 8
  MaxFrames = 3
SPECIFICATION ConversationSpec
INVARIANTS
  CoTypeOK
  SoleWriterOfFront
  EndedIsCleared
PROPERTIES
  ClearedIsFreed
  ImplementsOutbox
  ClosedEnds
  ImplementsFrameStream
  PatientNeverDropped
  PatientIsAnswered
\* A conversation ends.
CHECK_DEADLOCK FALSE
