CONSTANTS
  c1 = c1
  c2 = c2
  Callers = {c1, c2}
  Thread = Thread
  None = None
  Answers = {"done", "pending"}
  Outcomes = {TRUE}
  MaxSends = 3
  MaxInits = 1
SYMMETRY Symmetry
SPECIFICATION Spec
INVARIANTS
  PooledIdle
