SPECIFICATION Spec
CONSTANTS
  Threads = {t1, t2}
  Worker = Worker
  Index = {0, 1}
  Clusters = {c1, c2, c3}
  None = None
  MaxClus = 1
  Failures = {}
SYMMETRY Symmetry
INVARIANTS
  RefAssertion
CHECK_DEADLOCK FALSE
