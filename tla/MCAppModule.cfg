SPECIFICATION Spec
CONSTANTS
  Entries = {"_default", "dse"}
  MaxRuns = 3
  MaxLoads = 2
INVARIANTS ModTypeOK RegisteredIsServed LoadIsAllOrNothing ReadsLastRun ChannelsOwned

CHECK_DEADLOCK FALSE
