CONSTANTS
  PoolSize = 2
  t1 = t1
  t2 = t2
  Users <- TwoTitles
  Null = Null
  BadFiles <- NoFile
  CacheSize = 1
  MaxListed = 2
  MayClear = FALSE
SPECIFICATION ThumbFairSpec
INVARIANT ThumbInv
PROPERTY PendingEnds
