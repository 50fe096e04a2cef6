SPECIFICATION FairSpec
CONSTANTS
  c1 = c1
  c2 = c2
  Calls = {c1, c2}
  None = None
  Plans <- MCPlans
  Capacity = 2
  Budget = 3
  s1 = s1
  s2 = s2
  Servers = {s1, s2}
INVARIANTS
  WithinCapacity
  HonestReply
  OneState
PROPERTIES
  CallsEnd
CHECK_DEADLOCK FALSE
