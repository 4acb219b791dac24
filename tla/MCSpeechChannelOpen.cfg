\* The library leaves a channel-add unanswered.
SPECIFICATION ChannelSilentSpec
CONSTANTS
  QueueCapacity = 1
  TerminateCanFail = FALSE
PROPERTY OpenGivesUp
