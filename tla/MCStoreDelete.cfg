SPECIFICATION Spec
CONSTANTS
  Threads = {t1, t2}
  Ids = {i1}
  LastBlock = 1
  Slots = {s1, s2}
  MaxSize = 1
  MaxRestarts = 0
  Failures = {}
  Overlap = TRUE
  None = None
SYMMETRY Symmetry
INVARIANTS
  AssertionsHold
CHECK_DEADLOCK FALSE
