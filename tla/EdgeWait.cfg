SPECIFICATION EdgeSpec
CONSTANTS
  Thread = {t1, t2}
  Request = {r1}
  NoRequest = none
  MaxSubmit = 3
INVARIANTS
  TextAtReturn
PROPERTIES
  WaitReturns
CHECK_DEADLOCK FALSE
