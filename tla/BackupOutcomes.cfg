CONSTANTS
  Runs = {r1, r2}
  Targets = {w, f}
  Early = {f}
  Buffered = {w}
  Retentions <- Various
  MaxClock = 2
  MaxUploads = 3
  MaxStops = 1

SPECIFICATION Spec
SYMMETRY RunSymmetry
INVARIANTS
  TypeOK
  OnlySupersededAreGone
  RecordIsTrue
\* The runs are over.
CHECK_DEADLOCK FALSE
