SPECIFICATION FairSpec
CONSTANTS
  Services = {s1}
  Topics = {t1}
  Workers = {w1}
  Comm = comm
  NoRid = NoRid
  Rids = {r1, r2}
  MaxPushes = 1
  Faults = {"refuse", "abandon"}
CHECK_DEADLOCK FALSE
PROPERTIES
  RequestsAnswered
  DropTakesEffect
INVARIANTS AbandonedLeavesNoTrace
  AnswerAfterRegistration
