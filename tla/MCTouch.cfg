SPECIFICATION FairSpec
CONSTANTS
  Pictures = {p1, p2}
  NoPicture = NoPicture
  HoldPolls = 1
  Taps <- TapSet
  UsbReports <- Reports
  Capacity = 2
  HoldTime = 2
  GapTime = 1
  MaxLate = 2
  BarTap <- Letter
  ItemTaps <- Items
INVARIANTS
  WholeFrame
  IdleReleases
  TouchIsKeysOrMouse
PROPERTIES
  RequestAnswered
  TapsTyped
