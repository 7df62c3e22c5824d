\* Both servers: two io threads, four messages.
CONSTANTS
  Posters = {p1, p2}
  Ids = {hello, unknown}
  Registered = {hello}
  MaxPosts = 4
SPECIFICATION Spec
INVARIANTS
  TypeOK
  NoLostWakeup
  LeavesDrained
  OnlyDrainLeavesNoData
PROPERTIES
  StopHeard
  ImplementsMailbox
\* The process ends: no step is left after join() returns, or after the
\* undefined call to front().
CHECK_DEADLOCK FALSE
