SPECIFICATION MCSpec
CONSTANTS
  NVars = 2
  StrashCode <- MCStrashCode
  MaxFree = 0
  MaxMade = 0
  MaxDepth = 0
  ByteBits = 2
  UintBits = 6
  MaxGates = 2
  AnyGate = TRUE
  MaxInner = 0
  MaxCalls = 0
  MaxSolves = 0
  WordBits = 5
  GroupBits = 2
  Groups = 3
  BufLen = 4
  NProto = 4
  Messages <- MCMessages
  MaxTurns = 0
INVARIANTS GatesMean
CHECK_DEADLOCK FALSE
