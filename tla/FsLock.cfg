SPECIFICATION FairSpec
CONSTANTS
  h1 = h1
  h2 = h2
  Handles <- MCHandles
  MaxCalls = 3
  MaxWrites = 1
INVARIANTS
  TypeOK
  TrueWhileHeld
  NoLockLeftBehind
PROPERTIES
  BlockedCallEnds
\* The calls are bounded.
CHECK_DEADLOCK FALSE
