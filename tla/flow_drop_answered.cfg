SPECIFICATION Spec
CONSTANTS
  Services = {s1}
  Topics = {t1}
  Workers = {w1}
  Comm = comm
  NoRid = NoRid
  Rids = {r1, r2, r3}
  MaxPushes = 0
  Faults = {}
SYMMETRY RidSymmetry
CHECK_DEADLOCK FALSE
INVARIANTS
  DropAnswered
