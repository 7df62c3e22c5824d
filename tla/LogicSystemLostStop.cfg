\* The shutdown of BoostCoServer's LogicSystem against the comment on it.
CONSTANTS
  Posters = {p1, p2}
  Ids = {hello, unknown}
  Registered = {hello}
  MaxPosts = 2
SPECIFICATION Spec
PROPERTIES
  StopExits
CHECK_DEADLOCK FALSE
