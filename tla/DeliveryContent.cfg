SPECIFICATION Spec
CONSTANTS
  a = a
  b = b
  None = None
  Jobs <- SoloJobs
  Notifs <- SoloNotifs
  Targets <- SoloTargets
  JobOf <- SoloJobOf
  TargetOf <- SoloTargetOf
  CallOf <- SoloCallOf
  NumCalls = 3
  WithFile <- MCWithFile
  Versions = {v1, v2}
  MaxRetries = 1
  MaxRuns = 4
INVARIANTS
  WholeNotification
  FailedFenceRecoverable
PROPERTIES
  KeepsPromise
CHECK_DEADLOCK FALSE
