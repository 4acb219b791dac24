SPECIFICATION Spec
CONSTANTS
  Entries = {"_default", "dse"}
  MaxRuns = 2
  MaxLoads = 1
INVARIANT FormatsKnown
CHECK_DEADLOCK FALSE
