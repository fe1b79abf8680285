SPECIFICATION Spec
CONSTANTS
  Chunks = 2
  LastVersion = 3
  NoFile = NoFile
INVARIANTS NewestKept CrashKeepsOne OutcomeTrue
CHECK_DEADLOCK FALSE
