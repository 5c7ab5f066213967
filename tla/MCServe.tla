------------------------------ MODULE MCServe ------------------------------
(* Symmetry of the processes. *)
EXTENDS ServeLoop, TLC

ServeSymmetry == Permutations(Supervisors)
=============================================================================
