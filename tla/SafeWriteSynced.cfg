SPECIFICATION Spec
CONSTANTS
  Chunks = 2
  LastVersion = 3
  NoFile = NoFile
INVARIANTS SyncedBeforeRename
CHECK_DEADLOCK FALSE
