SPECIFICATION CtlSpec
CONSTANTS
  MaxSolves = 2
  Readers = {r1}
PROPERTIES SolveDecides
