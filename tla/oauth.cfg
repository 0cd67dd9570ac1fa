CONSTANTS
  r1 = r1
  r2 = r2
  r3 = r3
  i1 = i1
  i2 = i2
  e1 = e1
  e2 = e2
  talent = talent
  employer = employer
  Requests = {r1, r2, r3}
  Identities = {i1, i2}
  Emails = {e1, e2}
  Roles = {talent, employer}
  NULL = NULL
  MaxInFlight = 3
SPECIFICATION OsSpec
SYMMETRY Symmetry
INVARIANTS
  ProvisioningInv
  SignInIsOwner
  LinkedAreVerified
  PasswordlessAreLinked
  FailuresAreConflicts
PROPERTIES
  RoleIsOfUnhandledFlow
CHECK_DEADLOCK FALSE
