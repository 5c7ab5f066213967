CONSTANTS
  Artifacts = {a1}
  NoArtifact = NoArtifact
  Keys = {}
  NoKey = NoKey
  Workers = {w1, w2}
  Boards = {b1}
  LeaseTicks = 1
  MaxEvents = 3
  MaxTime = 0
SPECIFICATION Spec
SYMMETRY ConnSymmetry
INVARIANT OneTurnPerArtifact
