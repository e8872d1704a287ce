SPECIFICATION Spec
CONSTANTS
  Places = {50}
  Extents = {10}
  Intervals = {250}
  MaxReads = 1
INVARIANT AllLifted
