CONSTANTS
  r1 = r1
  r2 = r2
  s1 = s1
  s2 = s2
  Reads = {r1, r2}
  Synths = {s1, s2}
  None = None
  Client = Client
  Queue = Queue
  ReadMemories = {0, 22}
  SynthMemories = {0, 22}
  Reports <- OneReport
  TouchSlots = 1
  Fields <- OneWord
  Values <- Zero
  Blank = 0
SPECIFICATION FairSpec
PROPERTIES
  LifecycleSpec
  LifecycleFairSpec
  MatchedSynthCompletes
  RemovalDrains
CHECK_DEADLOCK FALSE
