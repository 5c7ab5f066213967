------------------------------ MODULE MCInbox ------------------------------
(* Symmetry of the inbox. *)
EXTENDS Inbox, TLC

InboxSymmetry == Permutations(Artifacts) \cup Permutations(Keys)
=============================================================================
