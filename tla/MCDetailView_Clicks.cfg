SPECIFICATION Spec
CONSTANTS
  b1 = b1
  b2 = b2
  v1 = v1
  v2 = v2
  BIds <- MCBIds
  Service <- MCService
  PageId <- b1
  FileNames = {"db.tar"}
  VIds <- NoVIds
  BackupOf <- NoBackupOf
  VStarted <- NoVStarted
  BackupStates = {"RECEIVING", "FINISHED"}
  BackupInitStates = {"RECEIVING"}
  VerificationStates = {"STARTED", "FINISHED", "FAILED"}
  VerificationInitStates = {"STARTED"}
  Absent = Absent
  Gone = Gone
  NoEntity = NoEntity
  MaxServerSteps = 1
  MaxFetches = 2
  MaxInFlight = 1
  MaxClicks = 1
PROPERTY
  ClickChangesOnlyItsCopy
CHECK_DEADLOCK FALSE
