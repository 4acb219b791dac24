SPECIFICATION SynthFairSpec
CONSTANTS
  QueueCapacity = 1
  TerminateCanFail = FALSE
  MaxCalls = 3
INVARIANTS
  SynthTypeOK
  StateTracksSpeech
  NothingLeft
  CrashNeedsReuse
PROPERTIES
  CallEnds
