SPECIFICATION FairSpec
CONSTANTS
  c1 = c1
  c2 = c2
  t1 = t1
  t2 = t2
  d1 = d1
  d2 = d2
  A = A
  B = B
  s1 = s1
  s2 = s2
  None = None
  Object = A
  Clients <- MCClients
  Ctls <- MCCtls
  Names <- MCNames
  Ids <- MCIds
  Slots <- MCSlots
  Plans <- MCPlans
INVARIANTS RefsExact ConOwned Matched 
 
CHECK_DEADLOCK FALSE
