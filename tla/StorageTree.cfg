SPECIFICATION Spec
CONSTANTS
  Rev = {r1}
  Addr = {p1, p2, p3}
  MaxObject = 4
  Types = {"net", "text", "line"}
  Text = "text"
  Holders = {"net"}
  Data = {"plain", "other"}
  ValidData <- TreeValidData
  Normal <- MCNormal
  Setters <- MCSetters
  None = None
SYMMETRY Symmetry
INVARIANTS TreeConsistent AttachmentsTyped QueriesFit
PROPERTIES ImplementsStore
