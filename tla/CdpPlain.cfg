CONSTANTS
  AutoReconnect = FALSE
  MaxReconnectAttempts = 1
  MaxSockets = 3
  MaxUser = 1
  MaxEvals = 2
  MaxPolls = 2
  MaxReloads = 1
  Runtimes <- SomeRuntimes
  Wishes <- SomeWishes
  MaxListed = 3
  MaxLooks = 2
  MaxStarts = 1
SPECIFICATION CdpSpec
INVARIANTS TypeOK WaitingIsPending SingleLiveSocket NoWaitOnDeadSocket EventsHeardOnce OwnAnswer StashEmptied
PROPERTIES EveryCallEnds
CHECK_DEADLOCK FALSE
