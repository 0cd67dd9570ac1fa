SPECIFICATION PrSpec
CONSTANTS
  Calls = {r1, r2, r3, r4}
  Lifetime = 1
  MaxTime = 1
  NULL = NULL
SYMMETRY RequestSymmetry
INVARIANTS ResetInv OnlyCrossingsUndoNewest
PROPERTIES ImplementsGrants
CHECK_DEADLOCK FALSE
