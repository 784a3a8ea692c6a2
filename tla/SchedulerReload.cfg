CONSTANTS
  a = a
  b = b
  Tasks = {a}
  Handlers = {h1}
  Main = main
  NoTimer = none
  Bodies <- OnceOrRepeat
  MaxRequests = 2
  MaxRestarts = 1
  MaxTimers = 3
  CloseAwaitsFinish = TRUE

SPECIFICATION FairSpec
INVARIANTS
  DisabledInTime
PROPERTIES
  ReloadEnds
\* The bounds on requests and restarts end every behaviour.
CHECK_DEADLOCK FALSE
