SPECIFICATION FairSpec
CONSTANTS
  Proxies = {p1, p2, p3}
  Gonggo = gonggo
  Nobody = Nobody
  Faults = {"kill"}
CHECK_DEADLOCK FALSE
INVARIANTS
  TypeOK
  VerdictIsRight
PROPERTIES
  GonggoRegains
  LeavingNoticed
  CrashFound
