SPECIFICATION EvSpec
CONSTANTS
  Calls = {r1, r2, r3}
  Lifetime = 1
  MaxTime = 2
  Hour = 1
  ResendLimit = 1
  MaxInFlight = 2
  NULL = NULL
SYMMETRY RequestSymmetry
INVARIANTS ResendLimitHolds
CHECK_DEADLOCK FALSE
