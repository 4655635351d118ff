SPECIFICATION Spec
CONSTANTS
  MinutesPerHour = 4
  HoursPerDay = 6
  DaysPerWeek = 7
  Calendar <- TwoYears
  Horizon = 60
  Exprs <- DailyAndHalfHourly
  Zones <- AllZones
  Creations = {40}
  MaxGap = 8
  End = 100
CHECK_DEADLOCK FALSE
INVARIANT RepeatedTimesFireTwice
