SPECIFICATION Spec
CONSTANTS
  Sources <- MCSources
  UserPaths <- MCUserPaths
  MaxRuns <- MCMaxRuns
  MaxEdits <- MCMaxEdits
INVARIANTS
  TypeOK
  SyncedIsCurrent
  FailureWritesNothing
  GraphsAreRouted
  
PROPERTIES
  UserFilesKept
CHECK_DEADLOCK FALSE
