CONSTANTS
  MaxCalls = 3
  MaxExceptions = 1
  Sequential = TRUE
SPECIFICATION Spec
INVARIANT NoStalePosition
CHECK_DEADLOCK FALSE
