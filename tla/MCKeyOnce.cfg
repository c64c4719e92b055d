SPECIFICATION FairSpec
CONSTANTS
  MaxKeys = 2
  MaxStuffed = 0
  QueueSize = 2
  RingSize = 4
  TimerSteps = 2
  MaxDepth = 1
PROPERTY OneEntryPerKey
