SPECIFICATION Spec
CONSTANTS
  None = None
  Accounts <- PriceAccounts
  r1 = r1
  r2 = r2
  Routes <- PriceRoutes
  AppRoutes = {r1}
  Lists = {p, q}
  Initial = p
  MaxHour = 2
  MaxRuns = 2
INVARIANTS
  BatchesKept
PROPERTIES
  HourlyOnce
  KeepsLedger
CHECK_DEADLOCK FALSE
