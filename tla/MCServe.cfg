CONSTANTS
  Supervisors = {p1, p2}
  Nobody = Nobody
  MaxServing = 1
  MaxEvents = 1
  MaxInterrupts = 2
SPECIFICATION ServeSpec
SYMMETRY ServeSymmetry
INVARIANTS
  StopStops
  CleanEnd
  InterruptFiresOnce
  WorkIsWaitedFor
PROPERTIES
  ImplementsTransport
CHECK_DEADLOCK FALSE
