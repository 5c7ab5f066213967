--------------------------- MODULE ArtifactQueue ---------------------------
(***************************************************************************)
(* What the event inbox promises, with no leases, locks or clock: an       *)
(* accepted event is handed to workers until it is settled, a settled      *)
(* event is never handed out again, and the events of one artifact are     *)
(* handed out one at a time, oldest first.                                 *)
(*                                                                         *)
(* Events are numbered in the order of their created_at column.            *)
(***************************************************************************)
EXTENDS Integers

CONSTANTS Artifacts,    \* ids of the artifacts events refer to
          NoArtifact,   \* the NULL artifact_id of an artifact-less event
          MaxEvents     \* how many events the model may accept

VARIABLES status,       \* status[e]: where event e is in its life
          artifact      \* artifact[e]: the artifact event e refers to

queueVars == <<status, artifact>>

EventIds == 1..MaxEvents
Active   == {"pending", "processing"}
Settled  == {"acked", "failed"}
Statuses == {"none"} \cup Active \cup Settled

\* A broken variant of the definition below, for the mutation checks: events in
\* any order.
NoOrder(d, e) == FALSE

\* Events d and e refer to one artifact and d was created first.
Before(d, e) == /\ d < e
                /\ artifact[d] = artifact[e]
                /\ artifact[e] \in Artifacts

QueueInit == /\ status = [e \in EventIds |-> "none"]
             /\ artifact = [e \in EventIds |-> NoArtifact]

\* A new event is dated after every event of its artifact accepted so far.
Accept(e, a) ==
  /\ status[e] = "none"
  /\ \A d \in EventIds : d > e /\ artifact[d] = a /\ a \in Artifacts => status[d] = "none"
  /\ status' = [status EXCEPT ![e] = "pending"]
  /\ artifact' = [artifact EXCEPT ![e] = a]

\* The events of S go back to the inbox: whoever held them ran out of time.
Returned(S) == [e \in EventIds |-> IF e \in S THEN "pending" ELSE status[e]]
InProcess == {e \in EventIds : status[e] = "processing"}

Return(S) == /\ S \subseteq InProcess
             /\ status' = Returned(S)
             /\ UNCHANGED artifact

\* Hand out e, after the events of S went back to the inbox: no accepted event of
\* the same artifact that is older waits, and none is in process.
HandOut(S, e) ==
  /\ S \subseteq InProcess
  /\ Returned(S)[e] = "pending"
  /\ \A d \in EventIds : Before(d, e) => status[d] \notin Active
  /\ \A d \in InProcess \ S : artifact[d] = artifact[e] => artifact[e] \notin Artifacts
  /\ status' = [Returned(S) EXCEPT ![e] = "processing"]
  /\ UNCHANGED artifact

\* Anybody who knows the id of an accepted event may settle it.
Settle(e, outcome) ==
  /\ status[e] # "none"
  /\ status' = [status EXCEPT ![e] = outcome]
  /\ UNCHANGED artifact

QueueNext ==
  \/ \E e \in EventIds, a \in Artifacts \cup {NoArtifact} : Accept(e, a)
  \/ \E S \in SUBSET EventIds : Return(S)
  \/ \E S \in SUBSET EventIds, e \in EventIds : HandOut(S, e)
  \/ \E e \in EventIds, outcome \in Settled : Settle(e, outcome)

QueueSpec == QueueInit /\ [][QueueNext]_queueVars
=============================================================================
