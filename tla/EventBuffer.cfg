SPECIFICATION FairSpec
CONSTANTS
  w1 = w1
  w2 = w2
  r1 = r1
  r2 = r2
  r3 = r3
  Workspaces = {w1, w2}
  Requests <- MCRequests
  WorkspaceOf <- MCWorkspaceOf
  NumEvents <- MCNumEvents
  MaxBufferSize = 2
  SlowInserts = TRUE
  DirectFlushes = TRUE
  MaxFailures = 1
  MaxCrashes = 1
INVARIANTS
  OneInsertPerWorkspace
  NothingLost
  ExactlyOnceUnlessDoubtful
  DestroyFlushesIdle
PROPERTIES
  LogSpec
  RequestsEnd
  AcceptedIsSettled
CHECK_DEADLOCK FALSE
