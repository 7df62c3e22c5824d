CONSTANTS
  Clients = {c1, c2}
  Requests = {0, 5}
  Capacity = 2
  ChunkMax = 2
SPECIFICATION Spec
PROPERTIES
  ClientEnds
  SessionsEnd
  ImplementsOutbox
\* The clients are served.
CHECK_DEADLOCK FALSE
