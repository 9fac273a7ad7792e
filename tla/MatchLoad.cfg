SPECIFICATION Spec
CONSTANTS
  Bank = {b1, b2}
  Nil = nil
  Switch = {"SILENT", "PARK", "SKIP_BANKUNLOAD", "BRB_ACK", "LOADDONE", "POOL_NOWAIT"}
  STEPS = 2
  PATIENCE = 3
  GAP = 1
  MaxCalls = 4
INVARIANTS
  BanksChained
  SessionsStart
  OneUpdatePerShot
PROPERTIES
  BankCallsReturn
  LoadsEnd
CHECK_DEADLOCK FALSE
