CONSTANTS
  Tags <- PanelAndRows
  Heights <- PanelHeights
  Places <- PanelPlaces
  Bottom = 1
  MaxChanges = 2
  MaxLookups = 1
  Inputs = {3}
  Locs <- SomeLocators
  Window = 40
  Inset = 5
  Homes = {0, 7, 30, 40, 50, 90}
  Lengths = {8, 28, 36}
  Reach = 60
  Mounted = 10
  MinStep = 4
  MaxScrolls = 4
  MaxLost = 2
  MaxTrace = 2
  MaxHeard = 4
  MaxFrames = 2
  MaxRestarts = 1
SPECIFICATION ScreenSpec
INVARIANTS LocatorTold ActionLands ScrollAsTold HarnessKeepsFaith
PROPERTIES EveryCallEnds
CHECK_DEADLOCK FALSE
