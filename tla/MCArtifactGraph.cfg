CONSTANTS
  Artifacts = {a1, a2, a3}
  Sources = {s1}
  NoSource = NoSource
  MaxVersions = 3
  MaxTotal = 3
  LateAnswers = FALSE
SYMMETRY GraphSymmetry
SPECIFICATION GraphSpec
INVARIANTS
  Acyclic
  OneVersionPerSource
  StaleUntilReviewed
  NoLostNotice
