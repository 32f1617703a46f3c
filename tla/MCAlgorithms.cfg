SPECIFICATION Spec
CONSTANTS
  NoEntity = NoEntity
  States = {"FINISHED", "UPLOADING", "RECEIVING", "WAITING", "FAILED", "TIMEDOUT", "STARTED", "N/A"}
  Times = {1, 2}
  MaxLen = 4
  NoDate = NoDate
  Sizes <- MCSizes
  Durations <- MCDurations
  StartTimes = {1000, 5000}
  EndTimes = {NoDate, 1000, 5000, 9000}
  ClockTimes = {4000, 9000}
  DayLen = 86400000
  BucketNows = {1000000000, 1209600000}
  Ages <- MCAges
  Services = {"db", "web"}
  MaxPerService = 2
INVARIANTS
  RepresentativeIsBest
  SizeShownToNearestTenth
  DurationComponentsExact
  BucketsAreFloorDaysInOrder
CHECK_DEADLOCK FALSE
