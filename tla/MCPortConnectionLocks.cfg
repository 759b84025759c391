CONSTANTS
  c1 = c1
  c2 = c2
  Clients = {c1, c2}
  Ends <- OwnEnds
  NoThread = NoThread
  NoBuffer = NoBuffer
  Buffers = {b1}
  PoolPort = "out"
  MaxPools = 1
  MaxCalls = 3
  MaxEvents = 0
  SendMayFail = FALSE
  EnableMayFail = FALSE
  DisableMayFail = FALSE
SPECIFICATION FairSpec
PROPERTY CallsReturn
CHECK_DEADLOCK FALSE
