SPECIFICATION TfSpec
CONSTANTS
  Requests = {r1, r2, r3, r4, r5}
  MaxInFlight = 3
  NULL = NULL
INVARIANTS TwoFactorInv OnlyCrossingsLoseProof
PROPERTIES DroppedSecretsStayDropped
CHECK_DEADLOCK FALSE
