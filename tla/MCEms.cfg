SPECIFICATION HSpec
CONSTANTS
  TotalPages = 2
  MaxHandles = 2
  PhysPages = 2
  Values = {v1, v2}
  NoContext = NoContext
  Closed = Closed
  Nothing = Nothing
INVARIANTS
  TypeOK
  PageAccounting
  FrameCoherent
  WindowFollowsMap
  SavedContextStable
PROPERTIES
  RestoreShowsSavedPages
  GuestSeesPrivatePages
SYMMETRY ValueSymmetry
