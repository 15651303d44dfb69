SPECIFICATION FairSpec
CONSTANTS
  h1 = h1
  h2 = h2
  h3 = h3
  Hosts = {h1, h2, h3}
  Plans <- MCPlans
  MaxNeighs = 2
  MaxFaults = 2
  None = None
INVARIANTS
  TypeOK
  NoSelf
  Mutual
  
PROPERTIES
  Shakes
  
CHECK_DEADLOCK FALSE
