SPECIFICATION FairSpec
CONSTANTS
  t1 = t1
  t2 = t2
  a = a
  b = b
  Threads <- MCThreads
  Names <- MCNames
  Deps <- MCDeps
  NoThread = NoThread
  MaxUses = 3
  MaxFailures = 1
INVARIANTS
  TypeOK
  LoadedOnce
  EveryoneGetsTheObject
  LockHeldInside
  ComplaintDeserved
PROPERTIES
  UseEnds
\* The uses are bounded.
CHECK_DEADLOCK FALSE
