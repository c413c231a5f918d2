SPECIFICATION Spec
CONSTANTS
  None = None
  row = row
  Row = row
  Layouts <- FirstLayouts
  MediaFaults <- FirstMedia
  SectNibbles = 16
  DiskSize = 20
  MAX_BAD_SECTORS = 3
  MaxFormats = 2
  MaxEdits = 1
  MaxFaults = 1
CHECK_DEADLOCK FALSE
INVARIANTS TypeOK CachedCopiesExact FirstCopyExact ReformatKeepsMarks
PROPERTIES ScanWritesOnlyFats
