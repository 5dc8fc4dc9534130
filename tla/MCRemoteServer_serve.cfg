CONSTANTS
  c1 = c1
  c2 = c2
  Conns <- TwoConns
  MaxClients = 1
  Workers <- OneWorker
  Commands <- AllButQuit
  MaxCmds = 2
  Chunks = 2
  Early = TRUE
  NoOne = NoOne
SPECIFICATION Spec
INVARIANTS RemoteInv
PROPERTIES FramesIntact StreamsToSubscribers
CHECK_DEADLOCK FALSE
