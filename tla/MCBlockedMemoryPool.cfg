CONSTANTS
  t1 = t1
  t2 = t2
  f1 = f1
  None = None
  Threads <- MCThreads
  Foreign <- MCForeign
  BMax = 2
  MaxPools = 3
  MaxHeld = 2
SPECIFICATION FairSpec
INVARIANTS TypeOK IInv NoDoubleLend NothingLost GrowthBound
PROPERTIES RootReleased RefinesLending
