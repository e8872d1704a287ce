CONSTANTS
  r1 = r1
  r2 = r2
  s1 = s1
  s2 = s2
  Reads = {r1, r2}
  Synths = {s1, s2}
  None = None
  Client = Client
  Queue = Queue
  ReadMemories = {6, 22}
  SynthMemories = {0}
  Reports <- AllReports
  TouchSlots = 1
  Fields <- OneWord
  Values <- Bit
  Blank = 0
SYMMETRY Symmetry
SPECIFICATION Spec
INVARIANTS
  TypeOK
  FingersDelivered
  MouseDelivered
  GestureRecorded
  OneOwner
  OwnedIsPending
  NothingLost
CHECK_DEADLOCK FALSE
