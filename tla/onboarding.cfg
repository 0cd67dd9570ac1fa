SPECIFICATION ObFairSpec
CONSTANTS
  r1 = r1
  r2 = r2
  r3 = r3
  Requests = {r1, r2, r3}
  PoolSize = 2
INVARIANTS OnboardingInv ProfileIffComplete OnboardedOnce SecondProfileNeedsRoleChange AnswersAreTrue
PROPERTIES RequestsEnd
CHECK_DEADLOCK FALSE
