CONSTANTS
  t1 = t1
  t2 = t2
  g1 = g1
  g2 = g2
  s1 = s1
  Kept <- Letters
  Timestamp <- Seconds
  Date <- Days
  Key <- Keys
  Braced <- Braces
  Tasks = {t1, t2}
  Stores = {s1}
  TargetCfg <- TheTargets
  TaskCfgs <- SomeCfgs
  None = none
  MaxClock = 2
  MaxRuns = 2

SPECIFICATION Spec
PROPERTY
  ScopedToTask
CHECK_DEADLOCK FALSE
