CONSTANTS
  h1 = h1
  h2 = h2
  h3 = h3
  c0 = c0
  c1 = c1
  c2 = c2
  CompThreads = {c0, c1, c2}
  Runner <- RunnerOf
  Headers = {h1, h3}
  Home <- HomeOf
  NumConns = 2
  Direct <- SecondDirect
  MaxSema = 1
  MaxEnables = 2
  MaxFaults = 1
SPECIFICATION FairSpec
INVARIANTS HeadersAccounted DestroyedIsQuiet NoLostWakeup
PROPERTY DisableReturns
CONSTRAINT NotRash
