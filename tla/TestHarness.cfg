SPECIFICATION HarnessFairSpec
CONSTANTS
  Places = {0, 50}
  Extents = {10, 100}
  Intervals = {50, 600}
  MaxReads = 2
  MaxDevices = 2
  Windows = {w1, w2}
  Nothing = Nothing
INVARIANTS
  HarnessTypeOK
  FocusOfOneWindow
  OnScreen
  FingersMirrored
  ZoomTruthful
  RoundsEndUp
PROPERTIES
  PendedBlocks
  ZoomEnds
