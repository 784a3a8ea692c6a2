CONSTANTS
  a = a
  b = b
  Tasks = {a, b}
  Handlers = {h1}
  Main = main
  NoTimer = none
  Bodies <- TwoOnce
  MaxRequests = 0
  MaxRestarts = 0
  MaxTimers = 1
  CloseAwaitsFinish = TRUE

SPECIFICATION Spec
INVARIANTS
  OnceDisabledAfterRun
\* The bounds on requests and restarts end every behaviour.
CHECK_DEADLOCK FALSE
