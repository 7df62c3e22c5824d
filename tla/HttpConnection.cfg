CONSTANTS
  Clients = {c1, c2}
SPECIFICATION Spec
INVARIANTS
  TypeOK
PROPERTIES
  EveryConnectionEnds
\* Connections end, and so does the server.
CHECK_DEADLOCK FALSE
