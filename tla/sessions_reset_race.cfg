SPECIFICATION Spec
CONSTANTS
  Users = {u1}
  Requests = {r1, r2, r3}
  InitialPassword = pw0
  NULL = NULL
INVARIANTS ResetRevokesAllSessions
CHECK_DEADLOCK FALSE
