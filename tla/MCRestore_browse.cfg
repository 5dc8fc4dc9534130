CONSTANTS
  game = game
  app = app
  Titles <- TwoTitles
  NoTitle = NoTitle
  Snaps <- FourSnaps
  NoSave = NoSave
  MaxSnapshots = 2
  MaxFetches = 2
  MaxRestores = 1
SPECIFICATION Spec
INVARIANTS RestoreInv 
PROPERTIES RestoreEnds 
CHECK_DEADLOCK FALSE
