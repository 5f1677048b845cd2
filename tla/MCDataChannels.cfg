SPECIFICATION ChannelsSpec
CONSTANTS
  Channel = {c1, c2, c3, c4}
  MAX_DATA_CHANNELS_IN_FLIGHT = 1
INVARIANTS ChannelsTypeOK NoLostWakeup
PROPERTIES ChannelSettles DropIsReset
\* With every channel released the task sleeps for good.
CHECK_DEADLOCK FALSE
