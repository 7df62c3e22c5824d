CONSTANTS
  MaxSendQue = 2
  MaxPosts = 5
SPECIFICATION Spec
INVARIANTS
  FinishedWasSent
\* A session ends.
CHECK_DEADLOCK FALSE
