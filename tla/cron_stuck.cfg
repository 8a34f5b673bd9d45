\* One schedule: every second of a Monday.
CONSTANTS
  None = None
  InvalidDate = InvalidDate
  SecondsPerMinute = 2
  MinutesPerHour = 3
  HoursPerDay = 2
  DaysPerWeek = 3
  MonthsPerYear = 2
  LongestMonth = 3
  MonthDays <- TwoYears
  MAXIMUM_YEAR_IN_FUTURE = 3
  Crons <- Monday
  Offsets = {0}
  Nows <- Moments
  StartAfters = {None}
  EndBys = {None}
  MaxRuns = 1
SPECIFICATION FairSpec
PROPERTY EverySearchEnds
CHECK_DEADLOCK FALSE
