\* Two pictures, one wedding; the config is read by every second heartbeat.
SPECIFICATION FairSpec
CONSTANTS
  Files = {f1, f2}
  Weddings = {w1}
  RefreshEvery = 2
  Pauses = FALSE
  MaxInputs = 5
  None = None
INVARIANTS
  TypeOK
  ScheduledOnce
PROPERTIES
  FinishedAreUploaded
  AssignmentArrives
  StatusComesToRest
CHECK_DEADLOCK FALSE
