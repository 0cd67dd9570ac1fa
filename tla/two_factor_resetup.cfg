SPECIFICATION TfSpec
CONSTANTS
  Requests = {r1, r2, r3, r4}
  MaxInFlight = 1
  NULL = NULL
PROPERTIES DisablingAllowsSetup
CHECK_DEADLOCK FALSE
