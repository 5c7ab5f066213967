CONSTANTS
  a1 = a1
  a2 = a2
  Artifacts = {a1, a2}
  NoArtifact = NoArtifact
  MaxEvents = 2
  Stages = {a1, a2}
  StageOf <- OwnStage
  Costs = {1}
  ProjectLimit = 1
  StageLimit = 1
  MaxTouches = 2
SYMMETRY GenerationSymmetry
SPECIFICATION GenerationSpec
INVARIANTS
  BudgetKept
  LockedIsLeft
  MarkStands
  CancelsOlderOnly
  AckedHasEffect
CHECK_DEADLOCK FALSE
