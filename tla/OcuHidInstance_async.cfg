CONSTANTS
  c1 = c1
  c2 = c2
  Callers = {c1, c2}
  Thread = Thread
  None = None
  Answers = {"done", "refused", "pending"}
  Outcomes = {TRUE, FALSE}
  MaxSends = 3
  MaxInits = 2
SPECIFICATION FairSpec
INVARIANTS
  TypeOK
  OneUser
  NothingLeftBehind
PROPERTIES
  PacketsComeBack
  CallsReturn
