SPECIFICATION FairSpec
CONSTANTS
  Faults = {"null", "sigaction", "open", "map", "thread", "kill"}
INVARIANTS
  TypeOK
  NothingUsedAfterDestroy
  AllGivenBack
  StopIsLastCallback
  MutexTellsTheEnd
  MemoriesFollowGonggo
  NoDescriptorLost
PROPERTIES
  StopEnds
