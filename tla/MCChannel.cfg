CONSTANTS
  w1 = w1
  w2 = w2
  Worker = {w1, w2}
  Consumer = {k1, k2}
  Sub = {s1}
  Member = {s1}
  Cap = 2
  Uses <- ChannelUses
  MaxMsg = 3
  Nobody = Nobody
SPECIFICATION Spec
INVARIANTS
  RunningHasConsumer
  OnceAndInOrder
  QueuedCounts
PROPERTIES
  QueueIsServed
  CloseStopsConsumers
CHECK_DEADLOCK FALSE
