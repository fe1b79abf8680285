SPECIFICATION Spec
CONSTANTS
  NotFinite = 9999
  None = None
  Samples <- MCSamples
  Values <- MCValues
  Origins <- MCOrigins
  HandWritten <- MCHandWritten
  HandNumbers <- MCHandNumbers
  Invalid = Invalid
  MaxEdits = 2
INVARIANTS
  StoredForm
  Preserved
  ReadersRepair
  SetIsGot
  PlacementsAgree
  FormatsExact
CHECK_DEADLOCK FALSE
