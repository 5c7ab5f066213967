-------------------------- MODULE MCArtifactGraph --------------------------
(* Symmetry of the artifact graph. *)
EXTENDS ArtifactGraph, TLC

GraphSymmetry == Permutations(Artifacts) \cup Permutations(Sources)
=============================================================================
