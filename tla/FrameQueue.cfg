CONSTANTS
  Capacity = 2
  Consumers = {c1, c2, c3}
  MaxPushes = 6
SPECIFICATION FairSpec
INVARIANTS NoLostWakeup HoldsNewest Accounted InOrder
PROPERTIES ImplementsFreshWindow StopEndsConsumers FrameLeaves
