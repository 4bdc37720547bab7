CONSTANTS
  c1 = c1
  c2 = c2
  Callers = {c1, c2}
  PublicLabels = {1}
  PrivateLabels = {2}
  Durations = {0, 1, 32, 33}
  CallFamily <- CallName
  TimeFamily <- TimeName
  Settings <- App
  Brace = 9
  LastSlot = 5
  MaxCalls = 2
SPECIFICATION Spec
INVARIANTS BucketsExact ScrapeConsistent SkippedIsImplied OneHeadPerFamily
CHECK_DEADLOCK FALSE
