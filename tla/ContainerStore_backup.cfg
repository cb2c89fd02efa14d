\* Three backups, which may be killed at any step
CONSTANTS
  FP = {f1, f2}
  Capacity = 2
  QueueCap = 1
  MaxContainers = 4
  MaxSessions = 3
  Crashes = TRUE
  NoContainer = NoContainer
SPECIFICATION FairSpec
INVARIANTS TypeOK RetrievalSucceeds ClosedIsDurable
PROPERTIES ImplementsContainerMap CommittedNeverOverwritten BackupEnds
CHECK_DEADLOCK FALSE
