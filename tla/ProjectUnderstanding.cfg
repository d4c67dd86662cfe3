SPECIFICATION FairSpec
CONSTANTS
  first = first
  second = second
  Documents = {first, second}
  Workers = {w1, w2}
  None = none
  Values = {"u", "v"}
  ValueOf <- MCValueOf
  Replaces <- MCReplaces
  Reviewable <- MCReviewable
  Chain <- MCChain
  MaxReviews = 1
  MaxRequests = 2
  MaxCrashes = 1
CHECK_DEADLOCK FALSE
INVARIANTS
  ModelIsOfItsCorpus
  ProjectionIsCanonical
PROPERTIES
  RequestsAreHeard
