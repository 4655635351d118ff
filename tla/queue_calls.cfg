SPECIFICATION QueueLiveSpec
CONSTANTS
  s1 = s1
  s2 = s2
  c1 = c1
  c2 = c2
  w1 = w1
  w2 = w2
  NoWorker = NoWorker
  Sessions = {s1}
  Calls = {c1, c2}
  Owner <- OneSession
  Workers = {w1, w2}
  Echoing = {}
  MaxCrashes = 0
PROPERTY CallsReturn
CHECK_DEADLOCK FALSE
