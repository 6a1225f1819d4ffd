SPECIFICATION FairSpec
CONSTANTS
  N <- MCN
  QueueSize <- MCQueueSize
  NBlocks <- MCNBlocks
  None = None
INVARIANTS
  TypeOK
  ClosedAfterLastUse
  NothingLeftRunning
  CompleteOnReturn
PROPERTIES
  PromiseSpec
  Termination
\* A call ends, and it may hang on a consumer that crashed.
CHECK_DEADLOCK FALSE
