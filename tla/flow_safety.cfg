SPECIFICATION Spec
CONSTANTS
  Services = {s1}
  Topics = {t1}
  Workers = {w1}
  Comm = comm
  NoRid = NoRid
  Rids = {r1, r2, r3}
  MaxPushes = 1
  Faults = {"shm", "refuse", "spurious"}
SYMMETRY RidSymmetry
CHECK_DEADLOCK FALSE
PROPERTIES LedgerKept
INVARIANTS
  TypeOK
  RepliesMatchRequests
  AnswerAfterRegistration
  ServiceRunsWhileSubscribed
  NoOrphanService
  NoRequestLost
  NoReplyLost
  CommNeverSleepsOnWork
  SubscribeNeverSleepsOnWork
