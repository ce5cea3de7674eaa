\* Two tabs sharing a queue of two, one fault, one outage, one expiry; two changes of the report,
\* two expanded rows, one error; one settings page, two of its saves and one elsewhere.
SPECIFICATION MCSpec
CONSTANTS
  Tabs = {tab1, tab2}
  MaxQueue = 2
  MaxVersion = 2
  MaxFaults = 1
  MaxOffline = 1
  MaxExpiries = 1
  None = None
  s1 = s1
  s2 = s2
  m1 = m1
  m2 = m2
  Scopes = {s1, s2}
  MetricFilters = {m1, m2}
  DimensionLists <- MCDimensionLists
  Reports <- MCReports
  Values = {"x", "empty"}
  MaxChoices = 2
  MaxExpansions = 2
  MaxErrors = 1
  New = New
  Gone = Gone
  Pages = {p1}
  MaxSaves = 2
  MaxElsewhere = 1

  
  
PROPERTIES
  ReconnectionFlushes
  SavesStay
CHECK_DEADLOCK FALSE
