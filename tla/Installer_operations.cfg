SPECIFICATION FairSpec
CONSTANTS
  d1 = d1
  d2 = d2
  d3 = d3
  None = None
  Devices = {d1, d2, d3}
  MaxRuns = 3
INVARIANTS
  TypeOK
  DevnodesLeft
  RestartReported
PROPERTIES
  Terminates
