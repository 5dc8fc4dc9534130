CONSTANTS
  save1 = save1
  save2 = save2
  Files <- TwoFiles
  Spaced <- OneOfTwo
  Played <- TheOther
  Junk = Junk
  Chunks = 2
  MaxVersion = 1
  MaxConns = 2
  MayAbort = TRUE
  MayCrash = TRUE
  Overlap = FALSE
SPECIFICATION BackupFairSpec
INVARIANTS BackupInv PartialResumesFirst
  
CHECK_DEADLOCK FALSE
