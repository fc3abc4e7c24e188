SPECIFICATION RunnerSpec
CONSTANTS
  Platforms <- BothPlatforms
  ReuseExisting = TRUE
  Stubborn = {"leader", "descendant"}
  MaxRetries = 1
  MaxRuns = 2
  Lanes <- SomeLanes
  Owners <- SomeOwners
  FreeUnowned <- FreesAny
  Programs <- SomePrograms
  Pids = {1, 2}
  MaxStarts = 2
  Invocations <- SomeInvocations
  Contributions <- SomeContributions
  Requests <- SomeRequests
  Simulators <- SomeSimulators
  Phones <- SomePhones
  Emulators <- SomeEmulators
  Udids = {"S1", "S2", "S3"}
  MaxAltered = 1
INVARIANTS TypesOK CleanupComplete SignalKillsGroups ReusedMetroNotStarted ExitCodeTells OwnershipKept
PROPERTY RunEnds
