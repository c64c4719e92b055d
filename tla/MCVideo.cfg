SPECIFICATION Spec
CONSTANTS
  Decks <- Guests
  SampleDots <- Dots
CHECK_DEADLOCK FALSE
INVARIANTS
  RendererCoherent
  PixelsShown
  BytesReachPixels
PROPERTIES
  StateKept
