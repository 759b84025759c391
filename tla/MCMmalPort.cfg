CONSTANTS
  Buffers = {b1, b2}
  Clients = {c1, c2}
  Action = Action
  NoBuffer = NoBuffer
  NoThread = NoThread
  MaxCalls = 4
  MaxEvents = 2
  SendMayFail = TRUE
  DisableMayFail = TRUE
SPECIFICATION FairSpec
INVARIANTS TransitExact CallbackSet DisabledIsEmpty
PROPERTY DisableReturns
