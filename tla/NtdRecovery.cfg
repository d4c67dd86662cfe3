SPECIFICATION FairSpec
CONSTANTS
  Pages = {p}
  Drivers = {d1, d2}
  None = none
  MaxVersion = 2
  MaxInventories = 1
  MaxLosses = 1
CHECK_DEADLOCK FALSE
INVARIANTS
  TypeOK
  PaidOncePerInventory
  SuccessHasCandidate
PROPERTIES
  JobsSettle
