------------------------- MODULE MCGraphConnections -------------------------
(* Symmetry of the artifact graph with several connections. *)
EXTENDS GraphConnections, TLC

GraphConnSymmetry == Permutations(Artifacts) \cup Permutations(Conns)
=============================================================================
