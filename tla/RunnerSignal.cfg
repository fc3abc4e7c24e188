SPECIFICATION Spec
CONSTANTS
  Platforms <- OnePlatform
  ReuseExisting = FALSE
  Stubborn = {}
  MaxRetries = 0
  MaxRuns = 1
INVARIANT SignalRemovesFiles
