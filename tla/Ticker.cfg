SPECIFICATION TickerSpec
CONSTANTS
  Thread = {t1}
  Taskset = {s1, s2}
  NoTaskset = none
  LIST = 1
  MayFail = FALSE
  MaxCreate = 2
  PERIOD = 2
  BURST = 2
  POOL = 2
  RefTimeout = 6
  MaxBlock = 4
  MaxStall = 1
  MaxLag = 1
INVARIANTS
  RefWaitBounded
  TicksCaughtUp
PROPERTIES
  VblankArrives
  ReadyTaskStarts
