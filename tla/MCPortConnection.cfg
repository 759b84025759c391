CONSTANTS
  c1 = c1
  c2 = c2
  Clients = {c1, c2}
  Ends <- OwnEnds
  NoThread = NoThread
  NoBuffer = NoBuffer
  Buffers = {b1}
  PoolPort = "in"
  MaxPools = 1
  MaxCalls = 2
  MaxEvents = 1
  SendMayFail = TRUE
  EnableMayFail = TRUE
  DisableMayFail = TRUE
SPECIFICATION FairSpec
INVARIANTS PoolOutlivesBuffers EndsAgree NoBufferLost
PROPERTY CallsReturnUnlessLocked
CHECK_DEADLOCK FALSE
