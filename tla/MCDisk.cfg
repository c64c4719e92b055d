SPECIFICATION FairSpec
CONSTANTS
  Drives = {"hdd", "fdd"}
  Sectors = 2
  Values = {0, 1}
  Policy <- DrivePolicy
  Interval = 3
  MaxSlice = 2
  MaxFailures = 2
INVARIANTS
  DirtyCoversWrites
  FlushScheduled
  SyncedWithinInterval
  CardHoldsTheRest
PROPERTIES
  DirtyIsTried
