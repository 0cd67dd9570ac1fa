SPECIFICATION Spec
CONSTANTS
  Users = {u1, u2}
  Requests = {r1, r2, r3, r4}
  InitialPassword = pw0
  NULL = NULL
SYMMETRY RequestSymmetry
INVARIANTS SessionInv RefreshedAtMostOnce SpentIsFinal LogoutEndsFamily OnlyVerifiedHoldSessions OnlyRacesOutliveReset
PROPERTIES ImplementsSlot
CHECK_DEADLOCK FALSE
