CONSTANTS
  a = a
  b = b
  Uid <- MCUid
  TempId = {t}
  Watch <- MCWatch
  Slot = {1, 2}
  PoolCap = 2
  MaxOps = 5
  NotifyOnErr = TRUE
  Nobody = Nobody
SPECIFICATION Spec
INVARIANTS
  WorldIsOnline
  SubscriptionsAgree
PROPERTIES
  EventsAreHandled
CHECK_DEADLOCK FALSE
