CONSTANTS
  Exiter = {e1, e2}
  Sender = {s1}
  Cap = 3
  MaxMsg = 4
SPECIFICATION Spec
INVARIANTS
  EachInOnePlace
  InOrderWhileRunning
  SingleExitLosesLittle
PROPERTIES
  ExitCloses
CHECK_DEADLOCK FALSE
