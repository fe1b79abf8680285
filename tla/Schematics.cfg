SPECIFICATION Spec
CONSTANTS
  File = {1, 2, 3}
  Component = {1, 2, 3, 4}
  Number = {"1", "2", "3"}
  Name = {"name", "a", "b"}
  Net <- MCNet
  Input <- MCInput
  RecursionLimit = 4
  None = None
  Malformed = Malformed
INVARIANTS SheetsUnfold PinsNumbered
PROPERTY Ends
CHECK_DEADLOCK FALSE
