CONSTANTS
  l1 = l1
  l2 = l2
  s1 = s1
  Loggers = {l1, l2}
  Subs = {s1}
  Levels = {1, 2}
  Sentinel = 3
  SubBuffer = 1
  MaxLogs = 1
  MaxBases = 1
SPECIFICATION FairSpec
INVARIANT OneOrder
PROPERTY LoggingReturns
CHECK_DEADLOCK FALSE
