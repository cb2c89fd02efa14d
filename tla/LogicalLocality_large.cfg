\* File-defined segments without a limit
CONSTANTS
  FP = {1, 2, 3}
  Configs <- LargeFiles
  MaxSessions = 2
  SizeRange = 4
  OffRange = 32
SPECIFICATION Spec
INVARIANT AssertionsHold
CHECK_DEADLOCK FALSE
