CONSTANTS
  Artifacts = {a1, a2}
  NoArtifact = NoArtifact
  Sources = {s1}
  NoSource = NoSource
  MaxVersions = 2
  MaxTotal = 2
  LateAnswers = FALSE
  Conns = {c1, c2}
SYMMETRY GraphConnSymmetry
SPECIFICATION ConnSpec
PROPERTIES
  ImplementsGraph
