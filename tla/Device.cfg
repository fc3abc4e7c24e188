CONSTANTS
  MaxCalls = 4
  MaxExceptions = 2
  Sequential = TRUE
  MaxFileOps = 1
  MaxObjects = 2
  MaxBuffer = 1
  Headroom = 1
  RemotePaths <- SomePaths
  Targets <- SomeTargets
  TouchConfigs <- SomeConfigs
  TouchCommands = {"tap", "down", "move", "up"}
  MaxSessions = 2
  MaxAsks = 4
  MaxFailed = 1
SPECIFICATION DeviceSpec
INVARIANTS TypeOK CapabilitiesAgree NoOrphanToken OneSocket NothingLeftBehind CompanionAccountedFor NoStaleException DoneAsTold
PROPERTIES FilesNeedConnection EveryCallEnds
CHECK_DEADLOCK FALSE
