------------------------- MODULE MCInboxConnections -------------------------
(* Symmetry of the inbox with several connections. *)
EXTENDS InboxConnections, TLC

ConnSymmetry == Permutations(Workers) \cup Permutations(Artifacts)
=============================================================================
