SPECIFICATION FairSpec
CONSTANTS
  Frames = 1
  Images = {i1, i2}
  PoolSets = 2
  MaxPools = 3
  MaxObjects = 5
INVARIANTS
  TypeOK
  SetsStayAllocated
  PoolsAccountedFor
PROPERTIES
  CreatedOnlyWhenAllFull
  ReusedOnlyWhenDone
  RenderingGoesOn
