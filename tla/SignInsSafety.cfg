CONSTANTS
  u1 = u1
  u2 = u2
  u3 = u3
  b1 = b1
  b2 = b2
  e1 = e1
  e2 = e2
  Ids = {u1, u2, u3}
  Browsers = {b1, b2}
  Admin = admin
  First = "n0"
  Names = {"n1"}
  Emails = {e1, e2}
  Profiles <- SomeProfiles
  NoUser = nouser
  None = none
  Tries = 2
  MaxRequests = 3
  MaxFlows = 2

SPECIFICATION Spec
SYMMETRY Symmetry
INVARIANTS
  TypeOK
  EmailsUnique
PROPERTIES
  SignsInToOwn
  IdentitiesStay
\* The bound on requests ends every behaviour.
CHECK_DEADLOCK FALSE
