SPECIFICATION FairSpec
CONSTANTS
  Sheets <- MCSheets
  NoComponent = NoComponent
INVARIANTS PiecesTouch
PROPERTY TraversalEnds
CHECK_DEADLOCK FALSE
