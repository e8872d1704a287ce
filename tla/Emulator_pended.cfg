CONSTANTS
  r1 = r1
  s1 = s1
  Reads = {r1}
  Synths = {s1}
  None = None
  Client = Client
  Queue = Queue
  ReadMemories = {22}
  SynthMemories = {0}
  Reports <- OneReport
  TouchSlots = 1
  Fields <- OneWord
  Values <- Zero
  Blank = 0
SPECIFICATION FairSpec
PROPERTIES
  PendedSynthMeetsRead
CHECK_DEADLOCK FALSE
