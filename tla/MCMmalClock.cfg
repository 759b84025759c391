CONSTANTS
  Callers = {c1, c2}
  Times = {0, 4}
  Scales <- MCScales
  Slots = 2
  RtcSize = 4
  DiscontThreshold = 1
  DiscontDuration = 2
  UpdateThreshold = 1
  PausedDelay = 2
  MaxCalls = 4
  MaxTicks = 5
SPECIFICATION FairSpec
INVARIANTS TimerInTime EarliestFirst CalledBackOnce NotFast
PROPERTY DestroyReturns
