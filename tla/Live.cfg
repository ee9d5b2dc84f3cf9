CONSTANTS
  MaxEvents = 2
  MaxReconnects = 1
  Times <- MCTimes
  MaxFaults = 2
  MaxDrops = 2
  MaxStops = 2
SPECIFICATION LiveSpec
CHECK_DEADLOCK FALSE
INVARIANTS
  LiveInv
PROPERTIES
  MarketRowsInOrder
  StoppedForGood
