SPECIFICATION FairSpec
CONSTANTS
  Threads = {t1, t2}
  NrBlocks = 5
  BitsPerLong = 2
  LongsPerBm = 2
  MaxLost = 2
  U64 = 64
  NoThread = NoThread
INVARIANTS
  TypeOK
  NoDoubleAlloc
  FreeFindsBitSet
  OwnedIsOnDisk
  
  NoSpaceIsReal
PROPERTIES
  CallsReturn
