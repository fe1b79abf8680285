SPECIFICATION Spec
CONSTANTS
  None = None
  LibrarySymbol <- MCLibrarySymbol
  Lines <- MCLines
  Worlds <- MCWorlds
  MaxLines = 2
  MaxObjects = 2
  MaxEdited = 0
  Depth = 2
INVARIANTS
  EmbeddedKept
CHECK_DEADLOCK FALSE
