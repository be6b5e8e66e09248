CONSTANTS
  Requests = {r1, r2}
  Spawned = {1, 2, 3}
  Contexts = {x1}
  Chains <- MCOneTimeout
  TimeoutBody = TimeoutBody
  None = None
  MayPanic = FALSE
  Recycle = TRUE
CHECK_DEADLOCK FALSE
SPECIFICATION TimeoutSpec
INVARIANTS
  OwnOutputOnly
