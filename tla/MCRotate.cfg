CONSTANTS
  Configs <- Rotations
  Rough <- Failing
  MaxSlot = 3
  Longest = 2
  MaxWritten = 6
  MaxWriters = 2
  MaxFiles = 8
SPECIFICATION Spec
INVARIANTS SlotsInOrder NoHole BackupsBounded Retention
PROPERTIES LiveBounded
CHECK_DEADLOCK FALSE
