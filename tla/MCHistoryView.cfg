SPECIFICATION Spec
CONSTANTS
  b1 = b1
  b2 = b2
  b3 = b3
  v1 = v1
  v2 = v2
  BIds <- DbBIds
  Service <- MCService
  Started <- MCStarted
  VIds <- OneVIds
  BackupOf <- MCBackupOf
  VStarted <- MCVStarted
  BackupStates = {"RECEIVING", "FINISHED", "FAILED"}
  BackupInitStates = {"RECEIVING"}
  VerificationStates = {"STARTED", "FINISHED", "FAILED"}
  VerificationInitStates = {"STARTED"}
  Absent = Absent
  Gone = Gone
  NoEntity = NoEntity
  MaxServerSteps = 2
  MaxFetches = 2
  MaxInFlight = 1
INVARIANTS
  HistoryShowsCollection
  TitleNamesCurrentVerification
PROPERTY
  BackupsImplementIndexedCollection
CHECK_DEADLOCK FALSE
