SPECIFICATION Spec
CONSTANTS
  NoEntity = NoEntity
  States = {"FINISHED"}
  Times = {1}
  MaxLen = 0
  NoDate = NoDate
  Sizes <- MCSizes
  Durations <- MCDurations
  StartTimes = {1000, 5000}
  EndTimes = {NoDate, 1000, 5000, 9000}
  DayLen = 86400000
  BucketNows = {1000000000}
  Ages = {0}
  Services = {"db"}
  MaxPerService = 0
  ClockTimes = {4000, 9000}
INVARIANTS
  DurationNonNegative
CHECK_DEADLOCK FALSE
