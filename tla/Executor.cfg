SPECIFICATION FairExecutor
CONSTANTS
  N = 4
  MaxTime = 5
INVARIANTS
  NoStrayTimer
PROPERTIES
  KeepsStatements
  Unwinds
CHECK_DEADLOCK FALSE
