SPECIFICATION FairSpec
CONSTANTS
  Preparers = {p1, p2}
  Executors = {e1}
  Sources = {s1}
  Derived = {d1}
  None = none
  MaxRows = 2
  MaxFaults = 1
CHECK_DEADLOCK FALSE
INVARIANTS
  SourcesAreArchived
  ResetIsFinal
PROPERTIES
  CustodyKept
  ConfirmedResetCompletes
