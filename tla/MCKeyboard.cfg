SPECIFICATION GSpec
CONSTANTS
  Keys = {"Home", "Pad7"}
  Modifiers <- NoModifiers
  MaxKeys = 2
  ScanCode <- Table
  QueueSize = 4
  CommandBytes <- GuestCommandBytes
  NoReport = NoReport
  Lost = Lost
CONSTRAINTS
  OneKeyWhenLost
  OneExceptionAtATime
INVARIANTS
  TypeOK
  DisabledAgrees
  DeferredOnlyWhileDisabled
  LineHonest
  GuestSeesReportedKeys
  NewestReportKept
PROPERTIES
  OnlyCommandByteSilences
