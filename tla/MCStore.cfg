SPECIFICATION Spec
CONSTANTS
  Threads = {t1, t2}
  Ids = {i1, i2}
  LastBlock = 1
  Slots = {s1, s2}
  MaxSize = 1
  MaxRestarts = 1
  Failures = {"read", "write"}
  Overlap = FALSE
  None = None
SYMMETRY Symmetry
INVARIANTS
  RefExact
  SharedInode
  CachedAreHeld
  IndexSound
  
  SizeDurable
  AssertionsHold
CHECK_DEADLOCK FALSE
