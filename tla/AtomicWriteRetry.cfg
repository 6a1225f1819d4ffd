SPECIFICATION Spec
CONSTANTS
  w1 = w1
  w2 = w2
  w3 = w3
  Writers <- MCTwo
  i1 = i1
  i2 = i2
  i3 = i3
  NoFile = NoFile
  Inodes <- MCFiles
  Chunks = 2
  TakeTurns = TRUE
  RetryFlush = TRUE
  MaxCrashes = 0
  MaxRetries = 1
INVARIANTS
  TargetIsLastClosed
CHECK_DEADLOCK FALSE
