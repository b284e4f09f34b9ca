CONSTANTS
  b = b
  b1 = b1
  UID <- MCUID
  Devices <- MCDevices
  Client = {c1, c2, c3}
  TempID = {t1}
  NoID = NoID
  NoClient = NoClient
  MaxMoves = 2
SPECIFICATION Spec
INVARIANTS
  AnswersToSender
  AckedIsAccountedFor
  PresentGetsItOnce
PROPERTIES
  Answered
CHECK_DEADLOCK FALSE
