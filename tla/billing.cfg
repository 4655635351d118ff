SPECIFICATION Spec
CONSTANTS
  n1 = n1
  v1 = v1
  v2 = v2
  Nodes = {n1}
  Verifiers = {v1, v2}
  Checkouts = {}
  Buckets = {0, 1}
  MaxUsage <- TwoThenOne
  Grant = 2
  CheckoutAmount = 1
  LowThreshold = 1
  ChargeAmount = 1
  ChargeCap = 2
  MaxFailures = 1
INVARIANTS
  MoneySound
  NeverOvercharged
  NoLostCrossing
  CapCountsCharges
PROPERTIES
  ImplementsAccount
