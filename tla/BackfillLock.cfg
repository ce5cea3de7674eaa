SPECIFICATION Spec
CONSTANTS
  t1 = t1
  t2 = t2
  t3 = t3
  v1 = v1
  v2 = v2
  Tasks = {t1, t2, t3}
  Versions = {v1, v2}
  FirstVersion = v1
  LookbackDays = 1
  ChunkSize = 1
  EventDays = 1
  MonthOf <- OneMonth
  Tables <- EventsAndSessions
  Cancellable = {}
  MaxEdits = 0
  MaxFaults = 0
INVARIANT
  OneProcessor
CHECK_DEADLOCK FALSE
