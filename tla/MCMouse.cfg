SPECIFICATION CallbackSpec
CONSTANTS
  Code <- GuestCode
  Vector <- Vectors
  HostHandled = {51}
  MouseInterrupt = 51
  Request = 8
  Stacks = {0}
  StackWords = 12
  Asks = 1
  Buttons = {1}
  Handlers <- Addresses
  PanelSize = 1
  Subscription <- TwoButtonEvents
  Tidings = 7
  MaxTouches = 2
PROPERTY WakesPastHlt
