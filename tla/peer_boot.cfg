SPECIFICATION Spec
CONSTANTS
  n1 = n1
  n2 = n2
  s1 = s1
  s2 = s2
  r1 = r1
  r2 = r2
  Nobody = Nobody
  Nodes = {n1, n2}
  Sessions = {s1, s2}
  Talking = {s1}
  Runtimes = {r1, r2}
  MaxRuntimes = 1
  Batch = 1
  FixedIds = FALSE
  MaxKills = 1
  MaxCrashes = 0
  Races = {}
CHECK_DEADLOCK FALSE
INVARIANT TurnIsBacked
