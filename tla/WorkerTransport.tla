-------------------------- MODULE WorkerTransport --------------------------
(***************************************************************************)
(* What a supervisor relies on, whichever transport its worker sits behind *)
(* (surface/transports): it gives one event at a time, the turn ends with  *)
(* one result, and a turn that ends well is a turn whose effects are       *)
(* durable.  Nothing is said of a turn that ends badly: its effects may be *)
(* there, come later, or never.                                            *)
(***************************************************************************)
CONSTANTS Supervisors,  \* supervisors, or slots of a pool, with a session each
          Events

VARIABLES turn,         \* turn[p]: the event p gave, and how the turn ended
          done          \* events whose effects are durable

transportVars == <<turn, done>>

Idle == [event |-> 0, result |-> "none"]
Outcomes == {"ok", "error"}

TransportInit == turn = [p \in Supervisors |-> Idle] /\ done = {}

\* start_worker and claim_next_event are behind p: it has an event to send.
Give(p, e) == /\ turn[p] = Idle
              /\ turn' = [turn EXCEPT ![p] = [event |-> e, result |-> "open"]]
              /\ UNCHANGED done

Commit(e) == done' = done \cup {e} /\ UNCHANGED turn

Finish(p, outcome) ==
  /\ turn[p].result = "open"
  /\ outcome = "ok" => turn[p].event \in done
  /\ turn' = [turn EXCEPT ![p].result = outcome]
  /\ UNCHANGED done

\* One has settled its event, or all slots of a supervisor are gone with their
\* turns still open.
Leave(gone) == /\ turn' = [p \in Supervisors |-> IF p \in gone THEN Idle ELSE turn[p]]
               /\ UNCHANGED done

TransportNext == \/ \E gone \in SUBSET Supervisors : Leave(gone)
                 \/ \E p \in Supervisors, e \in Events : Give(p, e)
                 \/ \E p \in Supervisors, outcome \in Outcomes : Finish(p, outcome)
                 \/ \E e \in Events : Commit(e)

TransportSpec == TransportInit /\ [][TransportNext]_transportVars
=============================================================================
