SPECIFICATION FairSpec
CONSTANTS
  MaxRequests = 1
  MaxPushes = 0
  Faults = {}
CHECK_DEADLOCK FALSE
PROPERTIES
  SignalStartsStop
