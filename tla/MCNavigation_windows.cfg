CONSTANTS
  NumPages = 2
  TabOf <- TwoTabs
  TabCount = 3
  Rows <- FewRows
  Junk <- OneEach
  MaxLayers = 3
  MaxDying = 1
  MaxRescans = 1
  Patient = TRUE
  None = None
SPECIFICATION Spec
INVARIANTS NavInv WindowsNest LaunchesTheSelected
CHECK_DEADLOCK FALSE
