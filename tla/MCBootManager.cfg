SPECIFICATION Spec
CONSTANTS
  NumRows = 7
  DiskEnd = 12
  CylEnd = 9
  Half = 4
  AdvSize = 1
  MinFree = 1
  OsTypes = {"FAT-16", "Linux"}
  Setups <- SomeSetups
  NewPartitions <- OneSize
  MaxBoots = 3
  MaxChanges = 2
  MaxFaults = 1
INVARIANTS TypeOK OccupiedCovered PartitionsApart
PROPERTIES StartsWhatWasChosen NothingForgotten RememberedComesBack
CHECK_DEADLOCK FALSE
