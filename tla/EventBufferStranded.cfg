SPECIFICATION FairSpec
CONSTANTS
  w1 = w1
  w2 = w2
  r1 = r1
  r2 = r2
  r3 = r3
  Workspaces = {w1}
  Requests <- MCRequests
  WorkspaceOf <- OneWorkspaceOf
  NumEvents <- MCNumEvents
  MaxBufferSize = 9
  SlowInserts = FALSE
  DirectFlushes = FALSE
  MaxFailures = 1
  MaxCrashes = 0
PROPERTY
  PendingIsFlushed
CHECK_DEADLOCK FALSE
