SPECIFICATION Spec
CONSTANTS
  b1 = b1
  b2 = b2
  b3 = b3
  v1 = v1
  v2 = v2
  BIds <- OneBIds
  Service <- MCService
  Started <- MCStarted
  VIds <- MCVIds
  BackupOf <- MCBackupOf
  VStarted <- MCVStarted
  BackupStates = {"RECEIVING", "FINISHED", "FAILED"}
  BackupInitStates = {"RECEIVING"}
  VerificationStates = {"STARTED", "FINISHED", "FAILED"}
  VerificationInitStates = {"STARTED"}
  Absent = Absent
  Gone = Gone
  NoBackup = NoBackup
  NoRow = NoRow
  NoEntity = NoEntity
  Disabled = {"db"}
  Now = 30
  DayLen = 10
  ClockStep = 5
  MaxClock = 30
  RenderGap = 0
  Window = 3
  MaxServerSteps = 2
  MaxFetches = 3
  MaxInFlight = 1
INVARIANTS
  OnlyCurrentVerificationClass
CHECK_DEADLOCK FALSE
