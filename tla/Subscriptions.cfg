\* Two jobs at a time, one or two subscriptions, one request, two faults, in days of two hours.
SPECIFICATION MCSpec
CONSTANTS
  s1 = s1
  s2 = s2
  HoursPerDay = 2
  DaysPerWeek = 2
  DaysPerMonth = 3
  Subs = {s1, s2}
  Jobs = {j1, j2}
  Calls = {c1}
  Plans <- ThreePlans
  MaxFailures = 2
  MaxClock = 2
  MaxFaults = 2
INVARIANTS EachReportOnce
PROPERTIES OnlyResumeReactivates DueIsHandled
CHECK_DEADLOCK FALSE
