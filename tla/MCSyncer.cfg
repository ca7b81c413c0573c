CONSTANTS
  SyncStartTries = 2
  RestartOnError = TRUE
  MaxConn = 3
SPECIFICATION FairSpec
INVARIANTS
  OneConnection
  Monitored
PROPERTIES
  NeverSilentlyDown
  CloseStopsAll
CHECK_DEADLOCK FALSE
