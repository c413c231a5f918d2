SPECIFICATION Spec
CONSTANTS
  DiskSize = 8
  Modulus = 16
  NumRows = 2
  Track = 1
  ChsMax = 6
  Values = {14}
  Choices <- TypesChosen
  Disks <- NestedDisks
  Files <- SomeFiles
  Boot <- Junk
  MaxLevel = 3
  MaxEdits = 2
  MaxFormats = 1
  MaxFaults = 1
INVARIANTS TypeOK OrigOnDisk
PROPERTIES SavesReachable FormatsWhatDiskSays FormatsInside QuitLosesNothing
