SPECIFICATION FairSpec
CONSTANTS
  Threads = {t1, t2}
  Worker = Worker
  Index = {0}
  Clusters = {c1, c2}
  None = None
  MaxClus = 1
  Failures = {"alloc", "read", "write"}
INVARIANTS
  OneClusterPerIndex
  RefExact
  Coherent
  Durable

  
CHECK_DEADLOCK FALSE
