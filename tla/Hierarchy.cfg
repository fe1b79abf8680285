SPECIFICATION BackEndsSpec
CONSTANTS
  Component = {1, 2, 3, 4, 5, 6}
  Pin = {1, 2, 3, 4, 5, 6, 7}
  LocalNet = {1, 2, 3, 4, 5, 6}
  Net = {1, 2, 3, 4, 5, 6}
  Sheet = {1, 2, 3}
  Number = {"1", "2"}
  Placeholder = {"C?"}
  Backend = {"PCB", "liquidpcb", "redac", "tango", "bae", "maxascii", "osmond", "geda", "calay",
             "protelII", "allegro", "mathematica", "eagle", "pads", "pcbpins", "pcbfwd", "tedax",
             "futurenet2", "ewnet", "spice_sdb", "partslist1", "partslist2", "partslist3", "drc2",
             "bom", "bom2", "drc"}
  Label <- MCLabel
  Input <- MCInput
  Given <- MCGiven
  Texts <- MCTexts
  Reference <- MCReference
  IntOf <- MCIntOf
  Upper <- MCUpper
  Dashed <- MCDashed
  Short <- MCShort
  Rank <- MCRank
  Attribs <- MCAttribs
  None = None
  NoAttribute = NoAttribute
INVARIANTS PinsListed HierarchyResolved CrashReported PackagesExact NothingLost LookupsAgree
           DrcFinds OutputExact
CHECK_DEADLOCK FALSE
