CONSTANTS
  Client = {c1, c2}
  UID = {u1}
  TempID = {t1, t2, t3, t4}
  NoID = NoID
  NoClient = NoClient
  Relogin = TRUE
  RpcRename = TRUE
SPECIFICATION Spec
SYMMETRY Symmetry
INVARIANTS
  TypeOK
  RunningIdIsKey
  ManagerPresent
PROPERTIES
  ClosedIsFinal
  ImplementsRegistry
CHECK_DEADLOCK FALSE
