CONSTANTS
  r1 = r1
  r2 = r2
  i1 = i1
  i2 = i2
  e1 = e1
  e2 = e2
  talent = talent
  employer = employer
  Requests = {r1, r2}
  Identities = {i1, i2}
  Emails = {e1, e2}
  Roles = {talent, employer}
  NULL = NULL
  MaxInFlight = 2
SPECIFICATION OsSpec
SYMMETRY Symmetry
INVARIANTS
  PathKeepsRole
CHECK_DEADLOCK FALSE
