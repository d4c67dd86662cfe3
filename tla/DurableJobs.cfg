SPECIFICATION FairSpec
CONSTANTS
  admit = admit
  extract = extract
  rerun = rerun
  Jobs <- MCJobs
  Enqueued <- MCEnqueued
  DependsOn <- MCDependsOn
  Workers = {w1, w2}
  MaxAttempts = 2
  Pages = 2
  MaxCommands = 1
  MaxCrashes = 1
  None = None
INVARIANTS
  ExecutionsAreFenced
  SuccessIsComplete
PROPERTIES
  LiveLeaseRespected
  FollowsLifecycle
  JobsSettle
