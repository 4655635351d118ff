SPECIFICATION LiveSpec
CONSTANTS
  k1 = k1
  k2 = k2
  Clients = {k1}
  MaxEvents = 4
  PageSize = 2
  MaxOutbound = 1
  Attempts = 2
  MaxOutages = 2
  Faults = {}
INVARIANT LogInEmitOrder
INVARIANT NoSilentGap
PROPERTY NumberingKept
PROPERTY ClientsCatchUp
CHECK_DEADLOCK FALSE
