CONSTANTS
  MaxN = 4
  MaxServers = 2
SPECIFICATION Spec
INVARIANTS
  AnswersCount
  VerdictIsRight
  SizesAgree
PROPERTIES
  VerdictComes
\* The client ends.
CHECK_DEADLOCK FALSE
