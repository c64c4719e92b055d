SPECIFICATION HSpec
CONSTANTS
  TotalPages = 2
  MaxHandles = 2
  PhysPages = 2
  Values = {v1}
  NoContext = NoContext
  Closed = Closed
  Nothing = Nothing
INVARIANT CacheExact
