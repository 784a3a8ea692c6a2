CONSTANTS
  Tenants = {a, b, c}
  Handlers = {h1, h2}
  NoTenant = noname
  NoUser = none
  NoRow = norow
  MaxRequests = 3
  MaxCrashes = 1

SPECIFICATION Spec
SYMMETRY Symmetry
INVARIANTS
  TypeOK
  AdminUnlessRaced
  RowsFollowUsers
  EveryUserIsLoaded
\* The bound on requests ends every behaviour.
CHECK_DEADLOCK FALSE
