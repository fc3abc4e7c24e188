CONSTANTS
  AutoReconnect = TRUE
  MaxReconnectAttempts = 2
  MaxSockets = 3
  MaxUser = 1
SPECIFICATION FairSpec
INVARIANTS NoCrossTalk
PROPERTIES ReconnectEnds ChannelSpec
CHECK_DEADLOCK FALSE
