SPECIFICATION FairSpec
CONSTANTS
  Proxy = {a, b, c}
  NoProxy = NoProxy
  GonggoDelay = 1
  GonggoPatience = {{3}, {0, 3}}
CHECK_DEADLOCK FALSE
INVARIANTS
  TypeOK
  VerdictIsOwn
  GrantsAreTaken
  GrantsAreCounted
  ServedInTurn
PROPERTIES
  TurnsKept
  ActivationEnds
