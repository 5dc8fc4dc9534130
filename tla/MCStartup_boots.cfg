CONSTANTS
  Bases = {0, 1}
  DefaultBase = 0
  Servers = {s1}
  NoServer = none
SPECIFICATION Spec
INVARIANTS StartTypeOK SettingsAreKept MemoryIsSaved
PROPERTIES BootEnds
CHECK_DEADLOCK FALSE
