SPECIFICATION FairSpec
CONSTANTS
  MaxKeys = 2
  MaxStuffed = 1
  QueueSize = 2
  RingSize = 3
  TimerSteps = 2
  MaxDepth = 2
INVARIANTS
  KeysInOrder
PROPERTIES
  LossExplained
  OrphanedByVectorOnly
  KeyboardServed
