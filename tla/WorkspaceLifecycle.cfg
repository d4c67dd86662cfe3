SPECIFICATION Spec
CONSTANTS
  Items = {rows, copy}
  Retained = {copy}
  Plans = {p1, p2}
  Holds = {h1}
  MaxVersion = 18
CHECK_DEADLOCK FALSE
SYMMETRY Identities
INVARIANTS
  PurgedAfterExport
  ResetLeavesRetained
PROPERTIES
  CustodyKept
  HoldKeepsMaterial
