SPECIFICATION MCSpec
CONSTANTS
  NVars = 2
  StrashCode <- MCStrashCode
  MaxFree = 5
  MaxMade = 2
  MaxDepth = 2
  ByteBits = 2
  UintBits = 6
  MaxGates = 2
  AnyGate = FALSE
  MaxInner = 5
  MaxCalls = 5
  MaxSolves = 2
  WordBits = 5
  GroupBits = 2
  Groups = 3
  BufLen = 4
  NProto = 4
  Messages <- MCMessages
  MaxTurns = 3
INVARIANTS LitsMean CnfExact RollSimulates FilesMean VarsInverse OrderKept AnswersMatch QuietSolver MessagesArrive
PROPERTIES RequestsAnswered
CHECK_DEADLOCK FALSE
