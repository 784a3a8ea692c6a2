CONSTANTS
  Runs = {r1, r2, r3}
  Limit = 1
  Days = 3
  MaxClock = 6
  MaxUsers = 2

SPECIFICATION Spec
SYMMETRY RunSymmetry
INVARIANTS
  TypeOK
  TrimmedToLimit
  ExcessIsAccounted
PROPERTIES
  KeepsPromise
\* The runs are over.
CHECK_DEADLOCK FALSE
