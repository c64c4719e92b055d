SPECIFICATION FairSpec
CONSTANTS
  Drives = {"hdd"}
  Sectors = 2
  Values = {0, 1}
  Policy <- DrivePolicy
  Interval = 3
  MaxSlice = 2
  MaxFailures = 1
PROPERTIES
  DirtyIsSynced
