SPECIFICATION Spec
CONSTANTS
  Rev = {r1, r2}
  Addr = {p1, p2, p3}
  MaxObject = 2
  Types = {"net", "text", "line"}
  Text = "text"
  Holders = {"net"}
  Data = {"plain", "other"}
  ValidData <- FullValidData
  Normal <- MCNormal
  Setters <- MCSetters
  None = None
SYMMETRY Symmetry
INVARIANTS TypeOK RefcountsExact IdsFresh
PROPERTIES FinalizedFrozen ImplementsStore
