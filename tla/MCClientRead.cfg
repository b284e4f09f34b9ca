CONSTANTS
  Buf = 5
  MaxRead = 8
  Limit = 2
SPECIFICATION Spec
INVARIANTS
  NothingAfterError
PROPERTIES
  GoroutinesEnd
  SilentPeerExits
CHECK_DEADLOCK FALSE
