SPECIFICATION Spec
CONSTANTS
  Platforms <- OnePlatform
  ReuseExisting = FALSE
  Stubborn = {}
  MaxRetries = 0
  MaxRuns = 2
INVARIANT RerunNotRefused
