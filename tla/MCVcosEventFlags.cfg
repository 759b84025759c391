CONSTANTS
  Threads = {g1, g2, s1}
  Getters = {g1, g2}
  Bits <- TwoBits
  Requests <- SomeRequests
  NoThread = NoThread
SPECIFICATION FairSpec
INVARIANTS WokenOnce TimerInsideGet
PROPERTIES AtomicFlags GetsReturn
