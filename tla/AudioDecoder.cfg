SPECIFICATION Spec
CONSTANTS
  Stream = {s1, s2, s3}
  NoStream = none
  SLOTS = 2
  HANDLE_BASE = 10
  MaxOpen = 4
INVARIANTS
  StreamsApart
  SlotsHeld

