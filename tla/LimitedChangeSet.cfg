SPECIFICATION Spec
CONSTANTS
  k1 = k1
  k2 = k2
  k3 = k3
  Keys <- MCKeys
  Effective = TRUE
INVARIANTS
  TypeOK
  RollbackRestores
  OncePerCommit
  DifferenceIsTheChange
  UnchangableKept
