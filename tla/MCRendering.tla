---------------------------- MODULE MCRendering -----------------------------
(* Rendering of every configuration over a few names. *)
EXTENDS Rendering
=============================================================================
