\* Two processes that start on a database of any version, with one crash; one job asked for by two
\* streams; two prompts in two conversations.
SPECIFICATION MCSpec
CONSTANTS
  Processes = {i1, i2}
  OldWorkspaces = {w1, w2}
  OldVersions = {0, 3, 4, 5}
  Visitors = {s1, s2}
  MaxCrashes = 1
  MaxCrowds = 1
  Jobs = {j1}
  Streams = {r1, r2}
  MaxRequests = 1
  MaxTokens = 2
  Hours = 2
  MaxHours = 1
  MaxRounds = 2
  MaxPrompts = 2
  MaxConvs = 2
  MaxStored = 2
  MaxUpsets = 1
INVARIANTS  JobRunsOnce ConversationsStayApart
PROPERTIES ApiComesUp EveryStreamEnds  SenderComesBack
CHECK_DEADLOCK FALSE
