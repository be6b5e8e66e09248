CONSTANTS
  Calls = {c1, c2}
  Proxied = {c1}
  Bodies = {b1}
  Replies = {a1, a2}
  Paths <- MCPaths
  GatewayKey = GatewayKey
  OtherKey = OtherKey
  TrustedKeys = {GatewayKey, OtherKey, None}
  None = None
  NotJson = NotJson
  CutShort = CutShort
  Cyclic = Cyclic
  NetworkError = NetworkError
CHECK_DEADLOCK FALSE
SPECIFICATION FairSpec
INVARIANTS
  VerifiedWasSold
  
  PaysAtMostOnce

  
