SPECIFICATION FairSpec
CONSTANTS
  w1 = w1
  w2 = w2
  w3 = w3
  Writers <- MCThree
  i1 = i1
  i2 = i2
  i3 = i3
  NoFile = NoFile
  Inodes <- MCFiles
  Chunks = 2
  TakeTurns = TRUE
  RetryFlush = FALSE
  MaxCrashes = 1
  MaxRetries = 1
INVARIANTS
  TypeOK
  TargetIsLastClosed
  
  UmaskRestored

  
\* Every writer writes once.
CHECK_DEADLOCK FALSE
