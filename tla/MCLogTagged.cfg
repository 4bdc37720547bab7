CONSTANTS
  l1 = l1
  c1 = c1
  c2 = c2
  quiet = quiet
  loud = loud
  console = console
  Loggers = {l1}
  Callers = {c1, c2}
  Settings = {quiet, loud, console}
  LevelOf <- MCLevelOf
  ToStderr = {console}
  Levels = {1, 2, 3}
  Warn = 2
  BufferCap = 1
  MaxRecords = 1
  MaxSinks = 2
SPECIFICATION Spec
INVARIANT EveryLineTagged
CHECK_DEADLOCK FALSE
