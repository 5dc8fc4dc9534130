CONSTANTS
  PoolSize = 2
  t1 = t1
  t2 = t2
  Users <- TwoTitles
  Null = Null
  BadFiles <- OneFile
  CacheSize = 1
  MaxListed = 2
  MayClear = TRUE
SPECIFICATION ThumbSpec
INVARIANT PendingOrLoaded
PROPERTIES UnreadableGoStaleFirst AbortIsOwners PreloadSurvives
CHECK_DEADLOCK FALSE
