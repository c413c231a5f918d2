SPECIFICATION FairSpec
CONSTANTS
  Starts = {0, 1, 6, 14}
  Nums = {0, 1, 4, 12, 15}
  TrackSizes = {1, 3, 4}
  Modulus = 16
  BadSets <- SmallBadSets
INVARIANTS TypeOK BlocksWithinTrack
PROPERTIES ScanSpec Terminates
CHECK_DEADLOCK FALSE
