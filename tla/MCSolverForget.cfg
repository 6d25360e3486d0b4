SPECIFICATION MCSpec
CONSTANTS
  NVars = 3
  MaxClauses = 30
  ClauseSpace <- MCAddSpace
  AddSpace <- MCAddSpace
  AssumeSpace <- MCAssumeSpace
  Kinds <- ForgetKinds
  MaxCalls = 2
  MaxAssumes = 1
  MaxScopes = 0
  MaxRestarts = 0
  MayEnd = FALSE
  Discipline = {"solve"}
INVARIANTS NoFatal
CHECK_DEADLOCK FALSE
