SPECIFICATION Spec
CONSTANTS
  SLOTS = 2
  RING = 3
  Delay = 1
  MayFail = TRUE
  CloseInCall = TRUE
  MaxAu = 4
  MaxOpen = 2
INVARIANTS
  OwnPictures
  OwnItem
  NoneUnannounced
CHECK_DEADLOCK FALSE
