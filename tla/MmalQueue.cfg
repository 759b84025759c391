CONSTANTS
  Buffers = {b1, b2, b3}
  Producers = {p1, p2}
  Consumers = {c1, c2}
  NoBuffer = NoBuffer
  NoThread = NoThread
SPECIFICATION QueueFairSpec
INVARIANTS ClaimsBacked LengthExact ClaimFindsBuffer OneOwner
PROPERTIES AbstractQueue NoLostWakeup
