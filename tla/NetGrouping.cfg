SPECIFICATION Spec
CONSTANTS
  LocalNet = {1, 2, 3}
  Pin = {1, 2, 3}
  Namespace = {"top", "sub"}
  Name <- MCName
  Input <- MCInput
  Flat = Flat
  None = None
INVARIANTS GroupsConsistent GroupedByName NamesRight
CHECK_DEADLOCK FALSE
