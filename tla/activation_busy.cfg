SPECIFICATION Spec
CONSTANTS
  Proxy = {a, b, c}
  NoProxy = NoProxy
  GonggoDelay = 1
  GonggoPatience = {{3}}
CHECK_DEADLOCK FALSE
INVARIANTS
  BusyLeavesTheLock
