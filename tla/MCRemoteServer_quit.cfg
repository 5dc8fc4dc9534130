CONSTANTS
  c1 = c1
  c2 = c2
  Conns <- OneConn
  MaxClients = 1
  Workers <- OneWorker
  Commands <- KeyAndQuit
  MaxCmds = 2
  Chunks = 2
  Early = FALSE
  NoOne = NoOne
SPECIFICATION FairSpec
PROPERTIES QuitCompletes
CHECK_DEADLOCK FALSE
