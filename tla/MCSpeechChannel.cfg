\* One channel; the library may refuse to terminate a session, and then destroy
\* waits for ever: the system really may stop.
SPECIFICATION ChannelFairSpec
CONSTANTS
  QueueCapacity = 2
  TerminateCanFail = TRUE
INVARIANTS
  ChannelTypeOK
  FreedIsGone
  HandleSafe
  NoAudioOutsideRequest
PROPERTIES
  StartsEmpty
  LifecycleImplemented
  CallsReturn
CHECK_DEADLOCK FALSE
