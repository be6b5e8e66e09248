CONSTANTS
  r1 = r1
  r2 = r2
  Requests <- MCRequests
  Nonces = {n1}
  Stamps <- MCStamps
  FlawSets <- MCFlawSets
  Expiry = 1
  Skew = 1
  TicksPerSecond = 1
  Timeout = 2
  MaxTime = 5
CHECK_DEADLOCK FALSE
SPECIFICATION RedisFairSpec
INVARIANTS
  ReplayRejectedByReplicas
  SetsDecide
PROPERTIES
  WaitsEnd
