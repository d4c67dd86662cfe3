SPECIFICATION FairSpec
CONSTANTS
  Turns = {t1, t2}
  Workers = {w1, w2}
  None = none
  MaxDeltas = 1
  MaxCrashes = 1
CHECK_DEADLOCK FALSE
INVARIANTS
  AnswerIsOutcome
  ToldOutcomeStands
PROPERTIES
  TurnsSettle
