CONSTANTS
  Requests = {r1}
  Spawned = {1, 2, 3}
  Contexts = {x1}
  Chains <- MCBothRoutes
  TimeoutBody = TimeoutBody
  None = None
  MayPanic = TRUE
  Recycle = FALSE
CHECK_DEADLOCK FALSE
SPECIFICATION TimeoutFairSpec
INVARIANTS
  WholeResponse
  MetricIsSentStatus
PROPERTIES
  EveryRequestAnswered
  
