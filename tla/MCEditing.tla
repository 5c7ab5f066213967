----------------------------- MODULE MCEditing -----------------------------
(* Symmetry of the artifacts and of the contents. *)
EXTENDS Editing, TLC

EditingSymmetry == Permutations(Artifacts) \cup Permutations(Texts)
=============================================================================
