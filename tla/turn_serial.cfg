SPECIFICATION LiveSpec
CONSTANTS
  m1 = m1
  m2 = m2
  c1 = c1
  c2 = c2
  i1 = i1
  u1 = u1
  NoOne = NoOne
  Messages = {m1, m2}
  Calls = {c1, c2}
  Interrupts = {}
  Usage = {u1}
  CallKind <- Confirmations
  MaxRetries = 1
  Budget = 1
  Overlap = {}
CHECK_DEADLOCK FALSE
INVARIANT SandboxReadyForTurn
INVARIANT DriverOwnsFlags
INVARIANT TurnCanResume
PROPERTY MessageReasonAfterVerdict
PROPERTY CallsAnswered
