\* A calendar of two months a year, expressions with stars, numbers, ranges either
\* way round and steps, windows, and offsets of both signs.
CONSTANTS
  None = None
  InvalidDate = InvalidDate
  SecondsPerMinute = 2
  MinutesPerHour = 3
  HoursPerDay = 2
  DaysPerWeek = 3
  MonthsPerYear = 2
  LongestMonth = 3
  MonthDays <- TwoYears
  MAXIMUM_YEAR_IN_FUTURE = 3
  Crons <- Fields56
  Offsets <- MinuteOffsets
  Nows <- Moments
  StartAfters <- Starts
  EndBys <- Ends
  MaxRuns = 1
SPECIFICATION FairSpec
INVARIANT CronTypeOK
INVARIANT ResultMatches
INVARIANT RunInWindow
INVARIANT DayIsEarliest
INVARIANT FieldsAsWritten
PROPERTY SearchAdvances
PROPERTY SearchEnds
CHECK_DEADLOCK FALSE
