CONSTANTS
  Commands = {"down", "move", "up"}
  MaxBackends = 2
  MaxCommands = 3
  MaxWaiting = 2
  Spots = {36, 108}
  Interpolations <- SomeInterpolations
  Holds = {0, 16}
  MaxGestures = 2
  MaxLinks = 2
SPECIFICATION TouchSpec
INVARIANTS TypesOK WaiterHasSocket ResolvedMeansInjected GestureInjectedAlone GestureAsAsked
PROPERTIES InitSettles ChannelSpec
CHECK_DEADLOCK FALSE
