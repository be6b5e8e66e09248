CONSTANTS
  Calls = {c1, c2, c3}
  Keys = {k1}
  Nil = Nil
  Cost = 1
  Burst = 2
  CleanupTTL = 2
  TicksPerSecond = 2
  MaxTime = 6
SYMMETRY Symmetry
CHECK_DEADLOCK FALSE
SPECIFICATION Spec
INVARIANT WithinLimit
