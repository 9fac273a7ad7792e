SPECIFICATION Spec
CONSTANTS
  RING = 3
  Delay = 0
  MftCap = 2
  MayFail = TRUE
  MaxAu = 4
INVARIANTS
  PtsCarried
CHECK_DEADLOCK FALSE
