SPECIFICATION FairSpec
CONSTANTS
  a = a
  b = b
  x = x
  c = c
  None = None
  Endpoints <- MCEndpoints
  Foreign <- MCForeign
  Callers <- MCCallers
  MaxLag = 0
  MaxBlock = 1
  MaxOutages = 2
INVARIANTS
  TypeOK
  FreshEnough
  HealthyFirst
  FailsTogether
  FanoutReachesAll
PROPERTIES
  Recovers
CHECK_DEADLOCK FALSE
