SPECIFICATION Spec
CONSTANTS
  Modulus = 36
  RowTypes <- MCTypes
  MaxCyl = 1
  MaxHead = 2
  MaxSect = 3
  MarkHead = 1
  MarkSect = 2
  FewHeads = 1
  VirtualHeads <- MCVirtual
  Drives <- MCLongChain
  Files <- MCNoFile
  Asked <- MCPrint
  Hides <- MCHides
  FatTypes <- MCFatTypes
  TestSizes <- MCTestSizes
  NumRows = 4
  AdvSize = 2
  Version = 3
  MaxTables = 4
  MaxLevel = 3
  MaxCommands = 2
  MaxFaults = 0
INVARIANT PrintsEveryDrive
CHECK_DEADLOCK FALSE
