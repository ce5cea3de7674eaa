SPECIFICATION MCSpec
CONSTANTS
  t1 = t1
  t2 = t2
  t3 = t3
  v1 = v1
  v2 = v2
  Tasks = {t1, t2}
  Versions = {v1, v2}
  FirstVersion = v1
  LookbackDays = 2
  ChunkSize = 1
  EventDays = 1
  MonthOf <- OneMonth
  Tables <- EventsAndSessions
  Cancellable = {t1}
  MaxEdits = 1
  MaxFaults = 1
  Conditions <- MCConditions
  Operations <- MCOperations
  MaxPriority = 1
  MaxFilters = 2
  MaxRuleEdits = 1
INVARIANTS
  OneProcessorUnlessCrowded
  StatusIsTrue
  
  ReadersAgree
PROPERTY
  BackfillEnds
CHECK_DEADLOCK FALSE
