SPECIFICATION Spec
CONSTANTS
  u = u
  v = v
  Caller = {p}
  Late = {l}
  Retries = 1
  Id = {u, v}
  Services <- MCServices
  MaxInc = 2
  MaxMsg = 2
  QueueCap = 2
INVARIANTS
  CopiesAreRetries
  NumbersAccounted
  AnswerTellsState
PROPERTIES
  LeftIsSilent
CHECK_DEADLOCK FALSE
