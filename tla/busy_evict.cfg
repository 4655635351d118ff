SPECIFICATION Spec
CONSTANTS
  s1 = s1
  s2 = s2
  None = None
  Sessions = {s1, s2}
  Rpcs = {1, 2, 3}
  Calling = {s1}
  MaxSessions = 1
  MaxDeaths = 2
CHECK_DEADLOCK FALSE
INVARIANT NoTurnDisposed
