SPECIFICATION Spec
CONSTANTS
  DiskSize = 8
  Modulus = 16
  NumRows = 2
  Track = 1
  ChsMax = 16
  Values = {0, 1, 4, 14}
  Choices <- TypesChosen
  Disks <- FlatDisks
  Files <- SomeFiles
  Boot <- Junk
  MaxLevel = 2
  MaxEdits = 2
  MaxFormats = 1
  MaxFaults = 1
PROPERTIES FormatsOnlySaved
