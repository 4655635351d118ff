SPECIFICATION LiveSpec
CONSTANTS
  n1 = n1
  n2 = n2
  h1 = h1
  h2 = h2
  e1 = e1
  e2 = e2
  Nodes = {n1, n2}
  Hooks = {h1}
  Events = {e1, e2}
  Deliveries <- TwoEvents
  MaxAttempts = 3
  MaxFaults = 2
INVARIANT GivenUpOnlyIfDisabled
INVARIANT StreakNeedsTries
PROPERTY AckStopsRetries
PROPERTY EveryDeliveryEnds
CHECK_DEADLOCK FALSE
