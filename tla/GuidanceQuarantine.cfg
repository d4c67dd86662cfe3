SPECIFICATION Spec
CONSTANTS
  a = a
  b = b
  p = p
  q = q
  Candidates = {a, b}
  Pages = {p, q}
  PageOf <- MCPageOf
  Illegible = {b}
  Clashes <- MCClashes
  Answers <- MCAnswers
  MaxNodes = 4
  MaxManifests = 2
  None = None
INVARIANT QuarantinedIsNotRetrieved
CHECK_DEADLOCK FALSE
