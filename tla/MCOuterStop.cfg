SPECIFICATION MCSpec
CONSTANTS
  NVars = 2
  StrashCode <- MCStrashCode
  MaxFree = 0
  MaxMade = 2
  MaxDepth = 2
  ByteBits = 2
  UintBits = 6
  MaxGates = 0
  AnyGate = FALSE
  MaxInner = 0
  MaxCalls = 2
  MaxSolves = 2
  WordBits = 5
  GroupBits = 2
  Groups = 3
  BufLen = 4
  NProto = 4
  Messages <- MCMessages
  MaxTurns = 0
PROPERTIES StopReturns
CHECK_DEADLOCK FALSE
