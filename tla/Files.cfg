SPECIFICATION Spec
CONSTANTS
  None = None
  LibrarySymbol <- MCLibrarySymbol
  Lines <- MCLines
  Worlds <- MCWorlds
  MaxLines = 7
  MaxObjects = 3
  MaxEdited = 2
  Depth = 2
INVARIANTS
  LinesFaithful
  Converted
  NothingIgnored
CHECK_DEADLOCK FALSE
