CONSTANTS
  Volumes <- TheVolumes
  Limits <- TheLimits
  Widths <- TheWidths
  Long = 32
  FAT16_MAX_DATA_CLUST = 8
  Digits = {6}
  RawLabels = {"empty", "blank", "A", "B"}
  Empty = "empty"
  Blank = "blank"
  NoName = "NO NAME"
  Zero = "zero"
  MaxKeys = 3
  MaxFaults = 1
SPECIFICATION Spec
INVARIANTS TypeOK LeavesWhatIsShown LabelFollows
