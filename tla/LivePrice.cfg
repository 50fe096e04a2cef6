SPECIFICATION MCSpec
CONSTANTS
  None = None
  r1 = r1
  r2 = r2
  Runs <- MCRuns
  Keys = {1, 2}
  Prices = {"p", "q"}
  Absent = "absent"
  Unpriced = "unpriced"
  Bad = "bad"
  Legacy <- MCLegacy
  Observations <- MCObservations
  MaxCycles = 2
  Parts = 2
  MaxGenerations = 2
  MaxBuilds = 2
  MaxManifests = 6
  Found <- MCFound
SYMMETRY Symmetry
PROPERTIES
  ChangesTold
  KeepsLedger
  KeepsStages
CHECK_DEADLOCK FALSE
