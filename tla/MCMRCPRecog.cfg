SPECIFICATION RecogFairSpec
CONSTANTS
  QueueCapacity = 1
  TerminateCanFail = FALSE
  MaxCalls = 2
  MaxGrammars = 2
  MaxPrompts = 2
INVARIANTS
  RecogTypeOK
  ReadyHasResults
  OutcomeIsOwn
  TimersRun
  NothingLeft
PROPERTIES
  ContractsKept
  CallEnds
