CONSTANTS
  r1 = r1
  r2 = r2
  Requests <- MCRequests
  Guarded <- MCOneGuarded
  Key <- MCKey
  MaxAttempts = 2
  Failover = TRUE
SPECIFICATION FairSpec
CHECK_DEADLOCK FALSE
PROPERTIES
  EveryRequestAnswered
