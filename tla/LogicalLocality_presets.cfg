\* Two backups with each kind of index that exploits logical locality
CONSTANTS
  FP = {1, 2, 3}
  Configs <- Presets
  MaxSessions = 2
  SizeRange = 4
  OffRange = 32
SPECIFICATION Spec
INVARIANTS StateSound RecipeRestorable StoredOnce LeadsToSegments ChampionsServe
CHECK_DEADLOCK FALSE
