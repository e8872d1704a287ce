CONSTANTS
  r1 = r1
  r2 = r2
  s1 = s1
  s2 = s2
  Reads = {r1, r2}
  Synths = {s1, s2}
  None = None
  Client = Client
  Queue = Queue
  ReadMemories = {22}
  SynthMemories = {0}
  Reports <- TwoReports
  TouchSlots = 1
  Fields <- OneWord
  Values <- Bit
  Blank = 0
SPECIFICATION Spec
INVARIANTS
  StateIsLastInput
CHECK_DEADLOCK FALSE
