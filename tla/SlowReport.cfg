SPECIFICATION Spec
CONSTANTS
  None = None
  r1 = r1
  r2 = r2
  v1 = v1
  v2 = v2
  Accounts <- ReportAccounts
  Routes <- ReportRoutes
  Versions <- ReportVersions
  Uploads = FALSE
  MaxContent = 1
  MaxAgain = 1
  MaxRuns = 3
SYMMETRY ReportSymmetry
INVARIANTS
  PhasesKept
PROPERTIES
  KeepsReports
CHECK_DEADLOCK FALSE
