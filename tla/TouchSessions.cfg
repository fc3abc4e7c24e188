CONSTANTS
  Commands = {"down", "move", "up"}
  MaxBackends = 2
  MaxCommands = 3
  MaxWaiting = 1
SPECIFICATION Spec
INVARIANT UpInjectsPath
CHECK_DEADLOCK FALSE
