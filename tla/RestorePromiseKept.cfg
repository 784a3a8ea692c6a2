CONSTANTS
  Jobs = {j1, j2}
  MaxCrashes = 1

SPECIFICATION FairSpec
INVARIANTS
  TypeOK
  OpenedBeforeSent
  FailedStageIsHonest
PROPERTIES
  KeepsPromise
  JobEnds
\* Once every job has ended there is nothing left to do.
CHECK_DEADLOCK FALSE
