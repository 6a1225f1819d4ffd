SPECIFICATION Spec
CONSTANTS
  Codes <- MCCodes
  MaxBlocks = 2
INVARIANTS
  ExceptionsPassedBack
CHECK_DEADLOCK FALSE
