\* A page that is left and comes back.
SPECIFICATION Spec
CONSTANTS
  Tiers <- TwoTiers
  MaxDuration = 2
  MaxActions = 3
  ResetOnNavigation = TRUE
  SessionTimeout = 2
  LinkExpiry = 1
  MaxClock = 4
  MaxEvents = 4
PROPERTIES ExactDuration
CHECK_DEADLOCK FALSE
