SPECIFICATION Spec
CONSTANTS
  p1 = p1
  p2 = p2
  None = None
  Nothing = Nothing
  Failed = Failed
  Parts <- MCParts
  Sectors <- MCSectors
  Entries <- MCEntries
  Values <- MCValues
  Zero <- MCZero
  OnDisk <- MCBlank
  MaxReadFaults = 1
  MaxWriteFaults = 2
INVARIANT TypeOK
INVARIANT CleanBlockOnDisk
INVARIANT OnlyFaultsHarm
PROPERTY FlushMeansDurable
PROPERTY StoreSpec
