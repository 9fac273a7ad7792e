SPECIFICATION FairSpec
CONSTANTS
  Thread = {t1, t2}
  Ctrl = {c1, c2}
  Null = Null
  MaxDepth = 2
  MaxCalls = 3
PROPERTIES
  DoneWhenLost
CHECK_DEADLOCK FALSE
