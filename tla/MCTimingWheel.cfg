CONSTANTS
  Wheels = 3
  Slots = 3
  Runner = {1, 2}
SPECIFICATION Spec
INVARIANTS
  NeitherLostNorTwice
PROPERTIES
  FiresOnTime
  CancelledIsSilent
CHECK_DEADLOCK FALSE
