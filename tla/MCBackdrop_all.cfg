CONSTANTS
  PoolSize = 2
  Null = Null
  Users <- MCUsers
  Paths <- MCPaths
  NoPath = NoPath
  MaxSeq = 4
SPECIFICATION BackdropFairSpec
INVARIANTS BackdropInv
PROPERTIES ImagesShowInOrder BackdropSettles
CHECK_DEADLOCK FALSE
