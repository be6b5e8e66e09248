CONSTANTS
  Requests = {r1, r2}
  Nonces = {n1}
  Stamps <- MCStamps
  FlawSets <- MCFlawSets
  Expiry = 1
  Skew = 1
  TicksPerSecond = 2
  SweepInterval = 3
  MaxLag = 1
  MaxTime = 8
SPECIFICATION FairSpec
INVARIANTS
  NoReplay
  AcceptancesDecide
PROPERTIES
  ImplementsGuard
  
