SPECIFICATION Spec
CONSTANTS
  Symbol = {y1}
  Glob = Glob
  Address = {a1, a2}
  MaxSource = 3
  MaxVersion = 1
INVARIANTS SymbolsOwned SymbolsCurrent SearchesCurrent
SYMMETRY Symmetry
CHECK_DEADLOCK FALSE
