SPECIFICATION FairSpec
CONSTANTS
  MinutesPerHour = 4
  HoursPerDay = 6
  DaysPerWeek = 7
  Calendar <- TwoYears
  Horizon = 60
  n1 = n1
  n2 = n2
  Nodes = {n1, n2}
  Occurrences = {1, 2}
  CatchUp = 1
  OneShot = FALSE
  MaxTime = 3
  MaxFaults = 2
INVARIANTS
  OneExecutor
  NoDoubleFire
  NoMissForgotten
PROPERTIES
  InterruptedRunsAgain
