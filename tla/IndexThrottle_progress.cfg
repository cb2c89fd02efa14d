\* Every rewrite algorithm, with the threshold and without
CONSTANTS
  Algorithms = {"no", "cfl", "cbr", "cap"}
  RewriteMax = 3
  SegmentMax = 3
  Sizes <- FixedSize
  QueueCap = 2
  StreamMax = 10
  Layouts = {TRUE, FALSE}
SPECIFICATION FairSpec
INVARIANTS CountSound BoundedIfShared
PROPERTIES AllFiltered
CHECK_DEADLOCK FALSE
