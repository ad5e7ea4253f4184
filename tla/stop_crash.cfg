SPECIFICATION FairSpec
CONSTANTS
  MaxRequests = 2
  MaxPushes = 0
  Faults = {"crash"}
CHECK_DEADLOCK FALSE
PROPERTIES
  StopCompletes
