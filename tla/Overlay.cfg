SPECIFICATION FairSpec
CONSTANTS
  Icons = {0, 1}
  Images = {0, 1}
  DCs = {d1, d2}
  None = None
  Displays = {800, 1000}
  Places = {50}
  Widths = {4, 8}
  Pictures = {4}
  Hotspots = {0}
  MaxChanges = 2
  MaxDevices = 2
  Length = 2
  DestroysShown = FALSE
INVARIANTS
  TypeOK
  ResourcesOwned
  HotspotOnPoint
  ShowsWholeImage
PROPERTY FollowsDisplay
