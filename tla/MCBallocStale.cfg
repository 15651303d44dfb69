SPECIFICATION Spec
CONSTANTS
  Threads = {t1}
  NrBlocks = 7
  BitsPerLong = 3
  LongsPerBm = 2
  MaxLost = 1
  U64 = 64
  NoThread = NoThread
SYMMETRY Symmetry
INVARIANTS
  FreeBlocksAssertion
