SPECIFICATION RecogSpec
CONSTANTS
  QueueCapacity = 1
  TerminateCanFail = FALSE
  MaxCalls = 1
  MaxGrammars = 1
  MaxPrompts = 1
PROPERTY CauseIsReported
