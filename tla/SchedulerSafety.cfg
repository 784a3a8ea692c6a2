CONSTANTS
  a = a
  b = b
  Tasks = {a}
  Handlers = {h1, h2}
  Main = main
  NoTimer = none
  Bodies <- OneTask
  MaxRequests = 2
  MaxRestarts = 1
  MaxTimers = 3
  CloseAwaitsFinish = FALSE

SPECIFICATION Spec
SYMMETRY HandlerSymmetry
INVARIANTS
  TypeOK
  NoLeak
  RunsDontOverlap
  FreshTimer
  ScheduledUnlessLoadFailed
  OnceNotRepeated
\* The bounds on requests and restarts end every behaviour.
CHECK_DEADLOCK FALSE
