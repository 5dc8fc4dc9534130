CONSTANTS
  Bases = {0, 1}
  DefaultBase = 0
  Servers = {s1}
  NoServer = none
SPECIFICATION Spec
PROPERTIES UnappliedNetIsDropped
CHECK_DEADLOCK FALSE
