\* One tab, up to five events in two ticks, with a limit of two ticks; two actions sent three times within
\* two ticks; five steps of a visitor of two sites in two tabs; three actions on the dashboard, with one
\* query that fails.
SPECIFICATION MCSpec
CONSTANTS
  Tiers <- TwoTiers
  MaxDuration = 2
  MaxActions = 3
  ResetOnNavigation = TRUE
  SessionTimeout = 1
  LinkExpiry = 0
  MaxClock = 2
  MaxEvents = 5
  Tabs = {t1}
  Threshold = 1
  TimeBound = 2
  Offsets <- MCOffsets
  MaxEntries = 2
  MaxSends = 3
  MaxTime = 2
  MaxLatency = 1
  p1 = p1
  p2 = p2
  Sites = {v1, v2}
  PageTabs = {p1, p2}
  Indexes <- MCIndexes
  Texts <- MCTexts
  UrlTexts <- MCUrlTexts
  Users <- MCUsers
  Unset = Unset
  Timeout = 0
  CrossDomainExpiry = 0
  MaxVisit = 5
  MaxStorageFaults = 1
  v1 = v1
  v2 = v2
  None = None
  Default = Default
  Custom = Custom
  none = none
  week = week
  range = range
  Periods = {Default, week}
  Comparisons = {Default, none}
  NoComparison = none
  Ranges = {range}
  WidgetTabs <- MCWidgetTabs
  FirstTab <- MCFirstTab
  Values <- MCValues
  MaxActs = 3
  MaxErrors = 1
INVARIANTS StopwatchIsRight  VisitorIsKnown DashboardIsTrue
PROPERTIES ReportsOnlyGrow
CHECK_DEADLOCK FALSE
