SPECIFICATION FairSpec
CONSTANTS
  a = a
  b = b
  None = None
  Jobs <- MCJobs
  Notifs <- MCNotifs
  Targets <- MCTargets
  JobOf <- MCJobOf
  TargetOf <- MCTargetOf
  CallOf <- MCCallOf
  NumCalls = 2
  WithFile <- MCWithFile
  Versions = {v1}
  MaxRetries = 1
  MaxRuns = 3
INVARIANTS
  AtMostOnce
  ReceiptsTrue
PROPERTIES
  UnknownFreezesTarget
  RunsEnd
CHECK_DEADLOCK FALSE
