\* Three requests of any kind on an account that is locked by the second failed login, three on the members
\* of a workspace, two calls on its settings and one payload, or one call and two payloads, two uses and two revocations of a key, an export of three events; one failure each.
SPECIFICATION MCSpec
CONSTANTS
  Calls = {c1, c2, c3}
  First = first
  MaxAttempts = 2
  MaxFaults = 1
  o1 = o1
  o2 = o2
  m = m
  Users = {o1, o2, m}
  InitialRole <- OwnerAndAdmin
  Asked = {"owner", "viewer"}
  TeamCalls = {c1, c2, c3}
  MaxTeamFaults = 1
  NoOrder = NoOrder
  Requested <- Requests
  Callers = {1, 2}
  MaxEpoch = 2
  w1 = w1
  w2 = w2
  p1 = p1
  p2 = p2
  WsCalls = {w1, w2}
  Payloads = {p1, p2}
  CacheTTL = 1
  MaxWsTime = 1
  MaxWsFaults = 1
  MaxErrors = 1
  Uses = {1, 2}
  Revocations = {1, 2}
  Tokens = {k1, k2, k3}
  Ids = {1, 2, 3, 4}
  Times = {0, 1, 2}
  Until = 1
  Limit = 1
  Samples <- MCSamples
  Queries <- MCQueries
  Today <- MCDays
  Clocks <- MCClocks
  Threshold = 2
  MonthDays = 30
  TopRows = 1
  Scale = 6
  MaxWrites = 1
INVARIANTS NothingRecordedIsLost EndedIsRefused MembershipHolds SettingsTakeEffect
  EndedKeyIsRefused ExportIsComplete FiguresAgree AnswersFit
PROPERTIES ResetEndsSessions
SYMMETRY CallSymmetry
CHECK_DEADLOCK FALSE
