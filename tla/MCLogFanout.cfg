CONSTANTS
  l1 = l1
  l2 = l2
  s1 = s1
  s2 = s2
  Loggers = {l1, l2}
  Subs = {s1, s2}
  Levels = {1, 2}
  Sentinel = 3
  SubBuffer = 1
  MaxLogs = 1
  MaxBases = 0
SPECIFICATION Spec
INVARIANTS NoChannelPanic NoSilentLoss
SYMMETRY LogSymmetry
CHECK_DEADLOCK FALSE
