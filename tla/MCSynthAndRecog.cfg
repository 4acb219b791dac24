SPECIFICATION SarFairSpec
CONSTANTS
  MaxCalls = 2
  MaxPrompts = 2
INVARIANTS
  SarTypeOK
  BargeInSilences
  TimersFollowPrompts
  BothReleased
PROPERTIES
  PromptsOneByOne
  ContractsKept
  RunEnds
