\* Two owners who leave one after the other.
SPECIFICATION TeamSpec
CONSTANTS
  o1 = o1
  o2 = o2
  m = m
  Users = {o1, o2}
  InitialRole <- TwoOwners
  Asked = {"viewer"}
  TeamCalls = {c1, c2}
  MaxTeamFaults = 0
INVARIANTS OwnerRemainsInSequence
SYMMETRY CallSymmetry
CHECK_DEADLOCK FALSE
