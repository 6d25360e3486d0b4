SPECIFICATION Spec
CONSTANTS
  Cap = 2
  Clients = {c1}
  MaxReqs = 2
  Flags <- MCFlags
PROPERTIES StopEnds
CHECK_DEADLOCK FALSE
