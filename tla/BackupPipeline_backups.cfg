\* Two backups, with an exact index and no rewriting or with a sampled one and any
CONSTANTS
  f1 = f1  f2 = f2  f3 = f3  zero = zero
  FP = {f1, f2, f3}
  ZeroKey = zero
  SegmentMax = 2
  MaxSessions = 2
  CacheSize = 1
  Configs <- ExactOrPartial
SPECIFICATION FairSpec
INVARIANTS StateSound BufferSound RecipeRestorable IndexAgrees
PROPERTIES OneRewritePerSegment ImplementsDedupArchive BackupCompletes
CHECK_DEADLOCK FALSE
