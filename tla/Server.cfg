CONSTANTS
  NumServices = 2
  MaxSessions = 3
SPECIFICATION Spec
INVARIANTS
  TypeOK
  MapIsExact
PROPERTIES
  StopEnds
\* The process ends, and the bound on the connections is reached.
CHECK_DEADLOCK FALSE
