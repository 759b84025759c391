CONSTANTS
  source = source
  middle = middle
  last = last
  Headers <- MCHeaders
  Level <- ChainLevel
  Delaying <- MCDelaying
  Threads = {t1, t2}
  None = None
  MaxRefs = 2
  MaxLater = 2
SPECIFICATION Spec
SYMMETRY Symmetry
INVARIANTS RecycledAtTheEnd
CHECK_DEADLOCK FALSE
