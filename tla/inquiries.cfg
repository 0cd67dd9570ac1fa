CONSTANTS
  q1 = q1
  q2 = q2
  q3 = q3
  q4 = q4
  a1 = a1
  a2 = a2
  Submissions = {q1, q2, q3, q4}
  Addresses = {a1, a2}
  NoAddress = NoAddress
SPECIFICATION InqSpec
INVARIANTS
  AnswersMatchWaitlist
CHECK_DEADLOCK FALSE
