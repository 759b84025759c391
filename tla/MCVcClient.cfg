CONSTANTS
  c1 = c1
  c2 = c2
  Callers = {c1, c2}
  Owner = c1
  Nobody = Nobody
  Ports = {"in", "in2", "out"}
  Inputs = {"in", "in2"}
  Buffers = {"i1", "j1", "o1"}
  PortOf <- PortOfBuffer
  Contexts = 1
  MaxWaiters = 1
  MaxCalls = 3
  MaxFailures = 1
SPECIFICATION FairSpec
INVARIANTS WaitersMatch TransfersInOrder ServiceKept DisableFindsAll NoneStranded
PROPERTIES CallsReturn
