CONSTANTS
  l1 = l1
  l2 = l2
  c1 = c1
  c2 = c2
  quiet = quiet
  loud = loud
  console = console
  Loggers = {l1, l2}
  Callers = {c1, c2}
  Settings = {quiet, loud, console}
  LevelOf <- MCLevelOf
  ToStderr = {console}
  Levels = {1, 2, 3}
  Warn = 2
  BufferCap = 1
  MaxRecords = 2
  MaxSinks = 3
SPECIFICATION FairSpec
INVARIANTS NothingLost UrgentVisible LinesInOrder OnlyBaseOpen OneConfiguration
PROPERTY ConfigureReturns
CHECK_DEADLOCK FALSE
