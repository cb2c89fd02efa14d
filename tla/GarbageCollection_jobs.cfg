\* Three backups with either index, the retention time may change, and deletions
\* may be killed
CONSTANTS
  FP = {f1, f2}
  dummy = dummy
  DummyKey = dummy
  KeyMaps <- SomeKeys
  Localities = {"physical", "logical"}
  Retentions <- Expiry
  ValueLength = 2
  SegmentsMax = 3
  MaxJobs = 3
  Kills = TRUE
SPECIFICATION Spec
SYMMETRY Symmetry
INVARIANTS TypeOK ManifestExact ReclaimedUnused NothingLeaks DeletesFromEnd
CHECK_DEADLOCK FALSE
