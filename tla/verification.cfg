SPECIFICATION EvSpec
CONSTANTS
  Calls = {r1, r2, r3, r4}
  Lifetime = 1
  MaxTime = 2
  Hour = 1
  ResendLimit = 1
  MaxInFlight = 3
  NULL = NULL
SYMMETRY RequestSymmetry
INVARIANTS VerificationInv ConsumedOnce SupersededStayDead
  OneRegistration VerifiedByOwnCode OverrunIsCrowd
PROPERTIES AcceptedCodeWasGood
CHECK_DEADLOCK FALSE
