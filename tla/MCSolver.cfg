SPECIFICATION MCSpec
CONSTANTS
  NVars = 3
  MaxClauses = 30
  ClauseSpace <- MCAddSpace
  AddSpace <- MCAddSpace
  AssumeSpace <- MCAssumeSpace
  Kinds <- MCKinds
  MaxCalls = 4
  MaxAssumes = 1
  MaxScopes = 2
  MaxRestarts = 1
  MayEnd = FALSE
  Discipline = {"final", "solve"}
INVARIANTS SatIsModel UnsatIsUnsat LearnedImplied WhyIsCore SolverInv TestedHold
PROPERTIES TrailContract
CHECK_DEADLOCK FALSE
