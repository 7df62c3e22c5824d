CONSTANTS
  Clients = {c1}
  Requests <- SomeRequests
  MaxRequests = 3
SPECIFICATION Spec
INVARIANTS
  AnsweredInTurn
PROPERTIES
  SilentEnds
  ImplementsRequestStream
\* Connections end, and so does the server.
CHECK_DEADLOCK FALSE
