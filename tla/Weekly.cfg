SPECIFICATION MCSpec
CONSTANTS
  None = None
  p1 = p1
  p2 = p2
  s1 = s1
  s2 = s2
  m1 = m1
  m2 = m2
  Profiles <- MCProfiles
  Stocks <- MCStocks
  Mappings <- MCMappings
  MaxRuns = 3
  Nil = Nil
  a1 = a1
  a2 = a2
  Accounts <- MCAccounts
  Lists = {"zero", "short", "long"}
  MaxParts = 2
  PartsOf <- MCPartsOf
  Targets = {"t", "u"}
  MaxAsked = 2
SYMMETRY Symmetry
INVARIANTS
  FilesTrue
  OneList
  NoWedge
  AskedFor
PROPERTIES
  ReplacedOnPurpose
  DoubtBlocks
  ReportTrue
