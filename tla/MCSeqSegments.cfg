CONSTANTS
  Caller = {p1, p2, p3}
  First = 0
  Length = 3
  Advance = 3
  MaxCalls = 8
SPECIFICATION Spec
SYMMETRY Symmetry
INVARIANTS
  TypeOK
  ConsecutiveSeq
CHECK_DEADLOCK FALSE
