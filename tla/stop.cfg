SPECIFICATION FairSpec
CONSTANTS
  MaxRequests = 2
  MaxPushes = 1
  Faults = {"crash", "refuse"}
CHECK_DEADLOCK FALSE
INVARIANTS
  TypeOK
  StopIsNotMissed
  WakeUpsAreDue
  NobodyLeavesEarly
PROPERTIES
  StopHangsOnlyOnAnswers
