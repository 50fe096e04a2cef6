SPECIFICATION Spec
CONSTANTS
  Null = Null
  Members = {g1, g2}
  Amounts = {1, 2}
  Limits = {1, 2}
INVARIANTS
  LinkedIsServed
CHECK_DEADLOCK FALSE
