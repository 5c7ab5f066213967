------------------------------ MODULE Editing ------------------------------
(***************************************************************************)
(* Text artifacts between the board and the worker: what a user submits    *)
(* on the board (surface/board.py, ActionHandler), how the inbox hands it  *)
(* to a worker, and what the worker's handlers (surface/worker.py) do to   *)
(* the artifact, SQL transaction by SQL transaction.                       *)
(*                                                                         *)
(* The inbox is the abstract queue that Inbox implements.  The workers are *)
(* those of a supervisor, so that only the answer to a turn settles an     *)
(* event and no lease runs out under a running turn (WorksUnderLease).     *)
(* Users act on the database directly when they select a version or        *)
(* approve an artifact.  Approval may be forced past a lock, and a         *)
(* selection may come without the version the user saw: both guards can    *)
(* only refuse and are left out, and so are stages that do not allow an    *)
(* action, events that name no artifact, and the notes of versions.  The   *)
(* artifacts depend on no others, whose changes would set their status.    *)
(***************************************************************************)
EXTENDS ArtifactQueue, Sequences

CONSTANTS Texts,    \* contents of edits, notes of revisions
          NoText    \* the empty content

ASSUME EditingAssumption == /\ MaxEvents \in Nat /\ NoText \notin Texts
                            /\ NoArtifact \notin Artifacts

VARIABLES action,     \* action[e]: events.type and the payload
          versions,   \* versions[a][n]: source event and content of version n
          selected,   \* selected_version_id as a version number, 0 for NULL
          approved,   \* the artifacts whose status is "approved"
          turn,       \* turn[a]: the turn a worker has on a
          before,     \* history: events there when a was last selected by hand
          standing    \* history: approved with no reopen open or made since

tables == <<queueVars, action, versions, selected, approved>>
editingVars == <<tables, turn, before, standing>>

Kinds   == {"edit", "revise", "reopen"}
Actions == [kind : Kinds, text : Texts \cup {NoText}]
NoAction == [kind |-> "none", text |-> NoText]

\* step: the handler's next transaction; text, n: the content and the number of
\* the version it makes.
NoTurn == [event |-> 0, step |-> "none", text |-> NoText, n |-> 0]
FirstStep == [edit |-> "put", revise |-> "read", reopen |-> "draft"]

EditingInit ==
  /\ QueueInit
  /\ action = [e \in EventIds |-> NoAction]
  /\ versions = [a \in Artifacts |-> <<>>]
  /\ selected = [a \in Artifacts |-> 0]
  /\ approved = {}
  /\ turn = [a \in Artifacts |-> NoTurn]
  /\ before = [a \in Artifacts |-> {}]
  /\ standing = {}

Changes == {e \in EventIds : action[e].kind \in {"edit", "revise"}}
Open(a, kind) == {e \in EventIds : /\ artifact[e] = a /\ action[e].kind = kind
                                   /\ status[e] \in Active}
-----------------------------------------------------------------------------
\* Broken variants of the definitions below, for the mutation checks: no look
\* for a version made before, a version made before that is taken for selected, a
\* selection that undoes the approval.
NothingMade(a) == {}
TakenForSelected(a, n) == FALSE
Unapproved(a) == approved' = approved \ {a}

(* The board *)

\* enqueue_edit, enqueue_revise, enqueue_reopen: identical requests are one
\* while the event of the first is unsettled.
Request(kind, text) == [kind |-> kind, text |-> text]
Duplicate(a, request) == \E e \in EventIds : /\ artifact[e] = a /\ action[e] = request
                                             /\ status[e] \in Active
Submit(e, a, request) ==
  /\ request.kind = "reopen" => request.text = NoText
  /\ ~Duplicate(a, request)
  /\ Accept(e, a)
  /\ action' = [action EXCEPT ![e] = request]
  /\ standing' = IF request.kind = "reopen" THEN standing \ {a} ELSE standing
  /\ UNCHANGED <<versions, selected, approved, turn, before>>

SelectByHand(a, n) ==
  /\ n \in DOMAIN versions[a]
  /\ selected' = [selected EXCEPT ![a] = n]
  /\ before' = [before EXCEPT ![a] = {e \in EventIds : status[e] # "none"}]
  /\ UNCHANGED <<queueVars, action, versions, approved, turn, standing>>

Approve(a) ==
  /\ approved' = approved \cup {a}
  /\ standing' = IF Open(a, "reopen") = {} THEN standing \cup {a} ELSE standing
  /\ UNCHANGED <<queueVars, action, versions, selected, turn, before>>
-----------------------------------------------------------------------------
(* The inbox and the supervisor *)

HasTurn(e) == \E a \in Artifacts : turn[a].event = e
Begun(e) == [event |-> e, step |-> FirstStep[action[e].kind],
             text |-> IF action[e].kind = "edit" THEN action[e].text ELSE NoText, n |-> 0]

\* The leases of events without a turn may have run out by now.
Deliver(e) ==
  /\ \E S \in SUBSET {d \in InProcess : ~HasTurn(d)} : HandOut(S, e)
  /\ turn' = [turn EXCEPT ![artifact[e]] = Begun(e)]
  /\ UNCHANGED <<action, versions, selected, approved, before, standing>>

Reclaim(S) ==
  /\ S \in SUBSET {d \in InProcess : ~HasTurn(d)} /\ S # {}
  /\ Return(S)
  /\ UNCHANGED <<action, versions, selected, approved, turn, before, standing>>

\* The worker dies or is killed, or its handler fails, at any step; the event
\* is left to its lease.
Stop(a) ==
  /\ turn[a] # NoTurn
  /\ turn' = [turn EXCEPT ![a] = NoTurn]
  /\ UNCHANGED <<tables, before, standing>>

\* The same on the last attempt.
GiveUp(a) ==
  /\ turn[a] # NoTurn
  /\ Settle(turn[a].event, "failed")
  /\ turn' = [turn EXCEPT ![a] = NoTurn]
  /\ UNCHANGED <<action, versions, selected, approved, before, standing>>

Ready(t) == t.step = "done"
Answer(a) ==
  /\ Ready(turn[a])
  /\ Settle(turn[a].event, "acked")
  /\ turn' = [turn EXCEPT ![a] = NoTurn]
  /\ UNCHANGED <<action, versions, selected, approved, before, standing>>
-----------------------------------------------------------------------------
(* The worker: _handle_edit, _handle_revise, _handle_reopen *)

AtStep(a, step) == turn[a].step = step

\* _handle_revise: the content of the selected version is the basis.
Basis(a) == IF selected[a] = 0 THEN NoText ELSE versions[a][selected[a]].text
ReadBasis(a) ==
  /\ AtStep(a, "read")
  /\ turn' = [turn EXCEPT ![a].step = "put", ![a].text = Basis(a)]
  /\ UNCHANGED <<tables, before, standing>>

\* put_version: the version made for the event before, or a new one, which is
\* still to be selected.
MadeBefore(a) == {n \in DOMAIN versions[a] : versions[a][n].event = turn[a].event}
StillToSelect(a, n) == selected[a] # n
NextNumber(a) == Len(versions[a]) + 1
Put(a) ==
  /\ AtStep(a, "put")
  /\ \/ \E n \in MadeBefore(a) :
          /\ turn' = [turn EXCEPT ![a].n = n,
                                  ![a].step = IF StillToSelect(a, n) THEN "select" ELSE "done"]
          /\ UNCHANGED versions
     \/ /\ MadeBefore(a) = {}
        /\ versions' = [versions EXCEPT ![a] =
                          Append(@, [event |-> turn[a].event, text |-> turn[a].text])]
        /\ turn' = [turn EXCEPT ![a].n = NextNumber(a), ![a].step = "select"]
  /\ UNCHANGED <<queueVars, action, selected, approved, before, standing>>

\* select_version: the artifact's own status is not touched.
OwnStatus(a) == UNCHANGED approved
SelectMade(a) ==
  /\ AtStep(a, "select")
  /\ selected' = [selected EXCEPT ![a] = turn[a].n]
  /\ OwnStatus(a)
  /\ turn' = [turn EXCEPT ![a].step = "done"]
  /\ UNCHANGED <<queueVars, action, versions, before, standing>>

SetDraft(a) ==
  /\ AtStep(a, "draft")
  /\ approved' = approved \ {a}
  /\ turn' = [turn EXCEPT ![a].step = "done"]
  /\ UNCHANGED <<queueVars, action, versions, selected, before, standing>>

EditingNext ==
  \/ \E e \in EventIds, a \in Artifacts, request \in Actions : Submit(e, a, request)
  \/ \E a \in Artifacts : \E n \in DOMAIN versions[a] : SelectByHand(a, n)
  \/ \E a \in Artifacts : Approve(a)
  \/ \E e \in EventIds : Deliver(e)
  \/ \E S \in SUBSET EventIds : Reclaim(S)
  \/ \E a \in Artifacts : \/ Stop(a) \/ GiveUp(a) \/ Answer(a)
                          \/ ReadBasis(a) \/ Put(a) \/ SelectMade(a) \/ SetDraft(a)

EditingSpec == EditingInit /\ [][EditingNext]_editingVars
-----------------------------------------------------------------------------
\* Turns work on events that are in processing, at one of the steps of their
\* handler; the selection is a version of the artifact.
TurnSteps == {"read", "put", "select", "draft", "done"}
EditingTypeOK ==
  /\ status \in [EventIds -> Statuses]
  /\ artifact \in [EventIds -> Artifacts \cup {NoArtifact}]
  /\ action \in [EventIds -> Actions \cup {NoAction}]
  /\ versions \in [Artifacts -> Seq([event : EventIds, text : Texts \cup {NoText}])]
  /\ selected \in [Artifacts -> Nat]
  /\ \A a \in Artifacts : selected[a] \in 0..Len(versions[a])
  /\ approved \subseteq Artifacts /\ standing \subseteq Artifacts
  /\ turn \in [Artifacts -> [event : EventIds, step : TurnSteps,
                             text : Texts \cup {NoText}, n : Nat] \cup {NoTurn}]
  /\ before \in [Artifacts -> SUBSET EventIds]

\* The versions of an artifact come in the order in which the changes were
\* submitted, one for each, although turns end anywhere and events are
\* delivered again.
VersionsInOrder ==
  \A a \in Artifacts : \A m, n \in DOMAIN versions[a] :
     m < n => versions[a][m].event < versions[a][n].event

\* When all changes submitted since the user last selected a version by hand
\* are done, the artifact shows the last edit among them: no turn that ended
\* halfway leaves an older version selected, and a revision keeps the text.
Since(a) == {e \in Changes : artifact[e] = a /\ e \notin before[a]}
LastEditShows ==
  \A a \in Artifacts, e \in EventIds :
     (/\ e \in Since(a) /\ action[e].kind = "edit"
      /\ \A f \in Since(a) : f >= e => status[f] = "acked"
      /\ \A f \in Since(a) : f > e => action[f].kind = "revise")
     => Basis(a) = action[e].text

\* An approval stands until somebody asks to reopen the artifact, when no such
\* request was open: a reopen delivered again never undoes a later approval.
ApprovalStands == standing \subseteq approved
=============================================================================
