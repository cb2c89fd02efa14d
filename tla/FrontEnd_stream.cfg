\* Every algorithm on small files and trees, with and without a trace
CONSTANTS
  Byte = {0, 10, 171}
  Matched <- MCMatched
  ContainerRoom = 4
  Sources <- Trees
  Configs <- Configurations
  Capacity = 1
SPECIFICATION Spec
INVARIANTS StateSound LeftBufferFits SizesAsConfigured
PROPERTIES ImplementsChunkedFiles AllDelivered
CHECK_DEADLOCK FALSE
