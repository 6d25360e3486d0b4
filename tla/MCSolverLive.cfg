SPECIFICATION MCSpec
CONSTANTS
  NVars = 3
  MaxClauses = 30
  ClauseSpace <- MCAddSpace
  AddSpace <- MCAddSpace
  AssumeSpace <- MCAssumeSpace
  Kinds <- LiveKinds
  MaxCalls = 3
  MaxAssumes = 1
  MaxScopes = 2
  MaxRestarts = 1
  MayEnd = TRUE
  Discipline = {"final", "solve"}
INVARIANTS PanicIsUnsat
PROPERTIES CallsReturn
CHECK_DEADLOCK FALSE
