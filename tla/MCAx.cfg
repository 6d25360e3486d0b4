SPECIFICATION Spec
CONSTANTS
  Cap = 2
  Clients = {c1, c2}
  MaxReqs = 3
  Flags <- MCFlags
INVARIANTS PoolPartition ResponsesFit
PROPERTIES ImplementsExchange RequestsAnswered
CHECK_DEADLOCK FALSE
