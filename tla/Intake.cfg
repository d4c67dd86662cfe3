SPECIFICATION FairSpec
CONSTANTS
  r1 = r1
  r2 = r2
  r3 = r3
  r4 = r4
  report = report
  drawing = drawing
  x = x
  y = y
  Requests = {r1, r2, r3, r4}
  Paths = {report, drawing}
  Digests = {x, y}
  Batch <- MCBatch
  MaxFaults = 2
CHECK_DEADLOCK FALSE
PROPERTIES
  OrphansHaveCauses
  PublishedBytesStay
  FenceHolds
  RegistersSerially
  RequestsSettle
