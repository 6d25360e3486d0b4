SPECIFICATION MCSpec
CONSTANTS
  NVars = 3
  MaxClauses = 4
  ClauseSpace <- MCClauseSpace
INVARIANTS TrailInv ReasonFirst WatchesMatch NoFalsifiedClause BcpComplete
PROPERTIES Level0Permanent LoopsTerminate
CHECK_DEADLOCK FALSE
