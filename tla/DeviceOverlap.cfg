CONSTANTS
  MaxCalls = 2
  MaxExceptions = 1
  Sequential = FALSE
SPECIFICATION Spec
INVARIANT CapabilitiesAgree
CHECK_DEADLOCK FALSE
