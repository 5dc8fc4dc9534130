CONSTANTS
  PoolSize = 3
  u1 = u1
  u2 = u2
  Users <- MCUsers
  Null = Null
SPECIFICATION FairSpec
INVARIANTS TypeOK ListIsStack SlotsAreKept PopFindsJob
PROPERTIES ImplementsJobStack Drains DeinitReturns
