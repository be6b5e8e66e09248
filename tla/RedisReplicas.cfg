CONSTANTS
  r1 = r1
  r2 = r2
  Requests <- MCRequests
  Nonces = {n1}
  Stamps <- MCFreshStamps
  FlawSets <- MCNoFlaws
  Expiry = 1
  Skew = 1
  TicksPerSecond = 1
  Timeout = 2
  MaxTime = 6
SYMMETRY Symmetry
CHECK_DEADLOCK FALSE
SPECIFICATION RedisSpec
INVARIANT PaymentAcceptedOnce
