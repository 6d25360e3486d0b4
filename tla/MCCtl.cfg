SPECIFICATION CtlSpec
CONSTANTS
  MaxSolves = 2
  Readers = {r1, r2}
INVARIANTS RmuOneHolder
PROPERTIES ResultIsOwn CallsReturn StatsCloses
