SPECIFICATION Spec
CONSTANTS
  Threads = {t1, t2}
  Ids = {i1}
  LastBlock = 1
  Slots = {s1, s2}
  MaxSize = 1
  MaxRestarts = 0
  Failures = {}
  Overlap = FALSE
  None = None
SYMMETRY Symmetry
INVARIANTS
  RefAssertion
CHECK_DEADLOCK FALSE
