CONSTANTS
  AutoReconnect = TRUE
  MaxReconnectAttempts = 3
  MaxSockets = 3
  MaxUser = 0
SPECIFICATION Spec
INVARIANT SingleLiveSocket
CHECK_DEADLOCK FALSE
