CONSTANTS
  MaxLogins = 2
  MaxRestores = 2
  MaxResumes = 2
SPECIFICATION FairSpec
INVARIANTS
  LoadedOncePerSession
  CleanCheckpoint
PROPERTIES
  RestoredRunsScript
CHECK_DEADLOCK FALSE
