SPECIFICATION Spec
CONSTANTS
  t1 = t1
  t2 = t2
  v1 = v1
  v2 = v2
  b1 = b1
  b2 = b2
  b3 = b3
  b4 = b4
  None = None
  Threads <- MCThreads
  VBlocks <- MCVBlocks
  Blocks <- MCBlockSet
  MaxPuts = 4
  MaxFaults = 2
INVARIANTS  Readable Durable
CHECK_DEADLOCK FALSE
SYMMETRY Symmetry
