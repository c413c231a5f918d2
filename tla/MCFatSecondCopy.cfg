SPECIFICATION Spec
CONSTANTS
  None = None
  row = row
  Row = row
  Layouts <- OneLayout
  MediaFaults <- OneMedia
  SectNibbles = 16
  DiskSize = 20
  MAX_BAD_SECTORS = 3
  MaxFormats = 1
  MaxEdits = 0
  MaxFaults = 0
CHECK_DEADLOCK FALSE
INVARIANT EveryCopyMarked
