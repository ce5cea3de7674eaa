\* One tab, one timeout, one outage: an old payload is sent again after a new one.
SPECIFICATION FairSpec
CONSTANTS
  Tabs = {tab1}
  MaxQueue = 2
  MaxVersion = 3
  MaxFaults = 1
  MaxOffline = 1
  MaxExpiries = 0
PROPERTIES ResendIsSafe
CHECK_DEADLOCK FALSE
