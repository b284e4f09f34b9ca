CONSTANTS
  Client = {c1, c2, c3}
  UID = {u1}
  TempID = {t1, t2, t3, t4}
  NoID = NoID
  NoClient = NoClient
  Relogin = FALSE
  RpcRename = FALSE
SPECIFICATION Spec
SYMMETRY Symmetry
INVARIANTS
  ExitedHoldsNoUid
  LoggedInHasCredentials
  PresenceMatchesRegistry
CHECK_DEADLOCK FALSE
