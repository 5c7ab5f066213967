CONSTANTS
  Artifacts = {a1}
  NoArtifact = NoArtifact
  Keys = {}
  NoKey = NoKey
  Workers = {w1, w2}
  Boards = {}
  LeaseTicks = 1
  MaxEvents = 3
  MaxTime = 2
SYMMETRY ConnSymmetry
SPECIFICATION Spec
PROPERTIES
  LockHeldForLease
  ImplementsQueue
