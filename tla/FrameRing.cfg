SPECIFICATION Spec
CONSTANTS
  RING = 4
  Delay = 1
  MftCap = 3
  MayFail = TRUE
  MaxAu = 7
INVARIANTS
  InOrderUntilFull
  OrderWithoutRace
  CopySurvivesOneDrop
PROPERTIES
  IsFrameQueue
CHECK_DEADLOCK FALSE
