SPECIFICATION FairSpec
CONSTANTS
  Proxies = {p1, p2}
  Gonggo = gonggo
  Nobody = Nobody
  Faults = {}
CHECK_DEADLOCK FALSE
PROPERTIES
  CrashNoticed
