CONSTANTS
  source = source
  middle = middle
  last = last
  Headers <- MCHeaders
  Level <- ChainLevel
  Delaying <- MCDelaying
  Threads = {t1, t2, t3}
  None = None
  MaxRefs = 2
  MaxLater = 1
SPECIFICATION Spec
SYMMETRY Symmetry
INVARIANTS RefcountExact NoEarlyRecycle NothingLeaked
CHECK_DEADLOCK FALSE
