\* A deleted backup is asked for again
CONSTANTS
  FP = {f1}
  dummy = dummy
  DummyKey = dummy
  KeyMaps <- SomeKeys
  Localities = {"physical"}
  Retentions <- Expiry
  ValueLength = 1
  SegmentsMax = 2
  MaxJobs = 2
  Kills = FALSE
SPECIFICATION Spec
INVARIANTS DeletedIsRefused
CHECK_DEADLOCK FALSE
