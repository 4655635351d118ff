SPECIFICATION Spec
CONSTANTS
  r1 = r1
  r2 = r2
  r3 = r3
  r4 = r4
  k1 = k1
  b1 = b1
  b2 = b2
  None = None
  Requests = {r1, r2, r3}
  Keys = {k1}
  Bodies = {b1, b2}
  Limit = 1
  MaxFaults = 0
  Outlive = FALSE
SYMMETRY Symmetric
CHECK_DEADLOCK FALSE
INVARIANT WithinPlan
