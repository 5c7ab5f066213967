----------------------------- MODULE MCJobPoller -----------------------------
(* One or two regenerate events for one artifact. *)
EXTENDS JobPoller

CONSTANTS a1, r1, r2

OneArtifact == [r \in {r1} |-> a1]
SharedArtifact == [r \in {r1, r2} |-> a1]
=============================================================================
