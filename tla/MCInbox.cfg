CONSTANTS
  Artifacts = {a1, a2}
  NoArtifact = NoArtifact
  Keys = {k1}
  NoKey = NoKey
  LeaseTicks = 1
  MaxEvents = 3
  MaxClaims = 2
SYMMETRY InboxSymmetry
SPECIFICATION InboxSpec
INVARIANTS
  LocksMatchClaims
  OneTurnPerArtifact
PROPERTIES
  SettledForGood
  ImplementsQueue
