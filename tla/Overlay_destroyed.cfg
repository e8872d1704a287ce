SPECIFICATION Spec
CONSTANTS
  Icons = {0}
  Images = {0, 1}
  DCs = {d1, d2, d3}
  None = None
  Displays = {800}
  Places = {50}
  Widths = {4}
  Pictures = {4}
  Hotspots = {0}
  MaxChanges = 1
  MaxDevices = 2
  Length = 2
  DestroysShown = TRUE
INVARIANT NoDeadImage
