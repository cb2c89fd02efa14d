\* The threshold as the program reads it
CONSTANTS
  Algorithms = {"cap"}
  RewriteMax = 3
  SegmentMax = 3
  Sizes <- FixedSize
  QueueCap = 2
  StreamMax = 10
  Layouts = {FALSE}
SPECIFICATION FairSpec
INVARIANTS IndexBufferBounded
CHECK_DEADLOCK FALSE
