SPECIFICATION MCSpec
CONSTANTS
  NVars = 4
  MaxClauses = 5
  ClauseSpace <- MCLearnSpace
  AddSpace <- MCAddSpace
  ActVars <- MCActVars
  Factor = 1
  Discipline = {"assigned"}
  GuessClauses <- MCGuessClauses
  Short = 2
  HeadMod = 3
  BumpLim = 2
  MaxInc = 2
  SzBits = 2
  LbdBits = 1
  HeatBits = 2
  DataClauses <- MCDataClauses
  Lbds = {3}
  MaxStored = 3
  MaxBumpInc = 6
INVARIANTS ReasonsLive LiveWatched FreeLitsClean HeapSound ClauseList
PROPERTIES GcKeepsProblem
CHECK_DEADLOCK FALSE
