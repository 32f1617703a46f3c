SPECIFICATION Spec
CONSTANTS
  b1 = b1
  b2 = b2
  v1 = v1
  v2 = v2
  BIds <- MCBIds
  Service <- MCService
  PageId <- b1
  FileNames = {"db.tar"}
  VIds <- MCVIds
  BackupOf <- MCBackupOf
  VStarted <- MCVStarted
  BackupStates = {"RECEIVING", "FINISHED"}
  BackupInitStates = {"RECEIVING"}
  VerificationStates = {"STARTED", "FINISHED", "FAILED"}
  VerificationInitStates = {"STARTED"}
  Absent = Absent
  Gone = Gone
  NoEntity = NoEntity
  MaxServerSteps = 2
  MaxFetches = 2
  MaxInFlight = 1
  MaxClicks = 1
INVARIANTS
  DetailShowsCurrentState
  LinkNamesBestVerification
CHECK_DEADLOCK FALSE
