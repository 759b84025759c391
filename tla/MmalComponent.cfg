CONSTANTS
  Clients = {c1, c2}
  Connection = Connection
  NoThread = NoThread
  Refs = {r1}
  Payloads = {p1, p2}
  NumPorts = 2
  MaxCalls = 4
  SendMayFail = TRUE
  DestroyMayFail = TRUE
SPECIFICATION FairSpec
INVARIANTS DestroysUnreferenced NoUseAfterFree EnabledRuns
PROPERTY EventuallyDestroyed
