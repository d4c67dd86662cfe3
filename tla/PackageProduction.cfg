SPECIFICATION Spec
CONSTANTS
  Members = {m1, m2}
  Gapped = {m1}
  Official = {m1}
  Workers = {w1, w2}
  Owners = {o1, o2}
  None = none
  MaxAttempts = 2
  MaxVersion = 3
  MaxFacts = 1
  MaxForms = 2
  MaxStarts = 2
  MaxCrashes = 1
CHECK_DEADLOCK FALSE
INVARIANTS
  CandidateHasBytes
  FinalizedIsApproved
PROPERTIES
  FollowsPackage
