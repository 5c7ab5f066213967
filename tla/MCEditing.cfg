CONSTANTS
  Artifacts = {a1}
  NoArtifact = NoArtifact
  Texts = {t1, t2}
  NoText = NoText
  MaxEvents = 3
SYMMETRY EditingSymmetry
SPECIFICATION EditingSpec
INVARIANTS
  VersionsInOrder
  LastEditShows
  ApprovalStands
