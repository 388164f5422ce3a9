SPECIFICATION RecordsSpec
CONSTANTS
  Procs = {session, command}
  Students = {ann}
  MaxSessions = 1
  MaxVersion = 2
  NULL = NULL
CHECK_DEADLOCK FALSE
INVARIANTS
  SyncedMeansUploaded
