\* Every small backup with each restore cache
CONSTANTS
  Contents <- MCContents
  Size <- MCSize
  Configs <- MCConfigs
  NoFp = "none"
  CONTAINER_SIZE = 3
  CacheSize = 2
  QueueSize = 1
  MaxFiles = 2
  MaxChunks = 4
SPECIFICATION Spec
INVARIANTS InStep OptimalReads AreaBounded
PROPERTIES RestoresFiles
CHECK_DEADLOCK FALSE
