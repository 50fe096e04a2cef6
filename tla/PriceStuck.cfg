SPECIFICATION FairSpec
CONSTANTS
  None = None
  Accounts <- PriceAccounts
  r1 = r1
  r2 = r2
  Routes <- PriceRoutes
  AppRoutes = {r1}
  Lists = {p, q}
  Initial = p
  MaxHour = 1
  MaxRuns = 1
PROPERTIES
  TakenUp
CHECK_DEADLOCK FALSE
