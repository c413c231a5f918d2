SPECIFICATION Spec
CONSTANTS
  NumRows = 6
  DiskEnd = 12
  CylEnd = 12
  Half = 5
  AdvSize = 2
  MinFree = 1
  OsTypes = {"FAT-16", "Hidden FAT-16", "Extended", "Linux", "Linux swap"}
  MenuLen = 5
  AdvStart = 2
  Track = 4
  FirstDisk = TRUE
  MoreDisks = FALSE
  Starts <- AllDisks
  NewTypes = {"Unused", "Linux"}
  Digits = {3}
  KeyItems = {1, 3}
INVARIANTS TypeOK TagsUnique SavedPairConsistent
PROPERTIES LeavingLosesNothing ConversionKeepsPartitions
CHECK_DEADLOCK FALSE
