CONSTANTS
  Configs <- Unlimited
  Rough = {}
  MaxSlot = 1
  Longest = 1
  MaxWritten = 3
  MaxWriters = 1
  MaxFiles = 4
SPECIFICATION Spec
INVARIANTS NoLimitKeepsAll
CHECK_DEADLOCK FALSE
