CONSTANTS
  game1 = game1
  app1 = app1
  Null = Null
  Pages <- TwoPages
  Titles <- TwoTitles
  Home <- TheirPages
  Unreadable <- AllReadable
  MaxThreads = 3
  LastIndex = 2
  MaxBoots = 2
  MaxChanges = 1
SPECIFICATION Spec
INVARIANTS LibraryInv InsertsSucceed TilesLaunchThemselves EveryTitleIsShown ParsedPagesAreComplete
CHECK_DEADLOCK FALSE
