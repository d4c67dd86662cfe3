SPECIFICATION Spec
CONSTANTS
  Sessions = {s1, s2}
  Authors = {a1}
  Tokens = {t1, t2}
  None = none
  MaxIssues = 2
  Outputs = 2
  Lists <- MCLists
  MaxAppends = 5
  MaxLag = 0
  MaxFaults = 1
CHECK_DEADLOCK FALSE
INVARIANTS
  FinalizedHasOutcome
