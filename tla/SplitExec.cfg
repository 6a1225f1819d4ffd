SPECIFICATION Spec
CONSTANTS
  Codes <- MCCodes
  MaxBlocks = 2
INVARIANTS
  TypeOK
  
  OutcomeTold
  
PROPERTIES
  ParentGoesOn
CHECK_DEADLOCK FALSE
