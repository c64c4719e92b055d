SPECIFICATION Spec
CONSTANTS
  Code <- GuestCode
  Vector <- Vectors
  HostHandled = {8}
  Request = 6
  Stacks = {0, 1}
  StackWords = 36
  Asks = 2
INVARIANTS
  BoundariesKept
PROPERTIES
  InterruptsTransparent
  TracedOnce
  RequestTaken
