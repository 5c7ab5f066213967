---------------------------- MODULE MCGeneration ----------------------------
(* Two images, each in a stage of its own. *)
EXTENDS Generation, TLC

CONSTANTS a1, a2

OwnStage == [a \in Artifacts |-> a]
GenerationSymmetry == Permutations(Artifacts)
=============================================================================
