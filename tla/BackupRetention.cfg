CONSTANTS
  Runs = {r1, r2, r3}
  Targets = {w}
  Early = {}
  Buffered = {w}
  Retentions <- LastOne
  MaxClock = 3
  MaxUploads = 3
  MaxStops = 0

SPECIFICATION Spec
SYMMETRY RunSymmetry
INVARIANTS
  DeletesOnlyAfterStoring
  RetentionHolds
\* The runs are over.
CHECK_DEADLOCK FALSE
