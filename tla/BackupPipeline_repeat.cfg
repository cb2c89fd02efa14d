\* Three copies in flight: the first and the third are marked, the second is not
CONSTANTS
  f1 = f1  f2 = f2  f3 = f3  zero = zero
  FP = {f1, f2}
  ZeroKey = zero
  SegmentMax = 2
  MaxSessions = 2
  CacheSize = 1
  Configs <- Selective
SPECIFICATION Spec
PROPERTIES NoRepeatedWrite
CHECK_DEADLOCK FALSE
