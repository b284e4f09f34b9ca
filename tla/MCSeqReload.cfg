CONSTANTS
  Caller = {p1, p2}
  First = 0
  Length = 2
  Advance = 2
  MaxCalls = 4
SPECIFICATION Spec
INVARIANTS
  UniqueSeq
CHECK_DEADLOCK FALSE
