CONSTANTS
  Artifacts = {a1}
  NoArtifact = NoArtifact
  Keys = {}
  NoKey = NoKey
  LeaseTicks = 2
  MaxEvents = 2
  MaxClaims = 3
  PoolSize = 2
  MaxAttempts = 2
  StartTicks = 0
  TurnTicks = 1
  MaxFaults = 1
  MaxInterrupts = 1
  a1 = a1
SPECIFICATION SupervisorSpec
INVARIANTS
  AckedIsDone
  WorksUnderLease
  BoundedDelivery
  InterruptedNotOk
PROPERTIES
  ImplementsTransport
  EventsSettle
