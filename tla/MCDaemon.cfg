CONSTANTS
  MaxStarts = 3
  MaxStops = 2
  MaxCalls = 1
  MaxKills = 1
  Scenarios <- AllWays
SPECIFICATION FairSpec
INVARIANTS TypeOK SingleServer StartedIsReachable ParentIsToldTruth CallReaches
PROPERTY StartReturns
CHECK_DEADLOCK FALSE
