--------------------------- MODULE EditingProofs ---------------------------
(***************************************************************************)
(* What a user submits about a text artifact is what the artifact shows,   *)
(* for every set of artifacts and contents and any number of events,       *)
(* deliveries and turns that end halfway.                                  *)
(*                                                                         *)
(* The argument: no event is handed out before the older ones of its       *)
(* artifact are settled, so that every version a turn meets was made for   *)
(* an event that is not newer, and settled unless it is its own; what is   *)
(* selected was made for an event at least as new as every acked one; and  *)
(* a revision made after an edit, with acked revisions only in between,    *)
(* has the text of the edit.                                               *)
(***************************************************************************)
EXTENDS Editing, TLAPS

\* A turn has a processing event of its artifact and is at a step of the
\* handler of that event.
MatchesAt(a) ==
  turn[a] # NoTurn =>
     LET e == turn[a].event IN
     /\ status[e] = "processing" /\ artifact[e] = a
     /\ turn[a].step \in {"read", "put", "select"} => e \in Changes
     /\ turn[a].step = "read" => action[e].kind = "revise"
     /\ turn[a].step = "draft" => action[e].kind = "reopen"
     /\ turn[a].step = "put" /\ action[e].kind = "edit" => turn[a].text = action[e].text
     /\ turn[a].step = "select" => /\ turn[a].n \in DOMAIN versions[a]
                                   /\ versions[a][turn[a].n].event = e
TurnMatches == \A a \in Artifacts : MatchesAt(a)

\* A number without an event has no artifact; a selection by hand comes after all
\* events of its artifact up to some number.
Numbered ==
  /\ \A e \in EventIds : status[e] = "none" => artifact[e] = NoArtifact
  /\ \A e \in EventIds : status[e] # "none" => artifact[e] \in Artifacts /\ action[e] \in Actions
  /\ \A a \in Artifacts : \A e \in before[a] : status[e] # "none"
  /\ \A d, e \in EventIds : Before(d, e) /\ e \in before[artifact[e]] => d \in before[artifact[e]]

OldestFirst ==
  \A d, e \in EventIds :
     Before(d, e) /\ status[e] \in {"processing"} \cup Settled => status[d] \in Settled

\* What a version was made for.
MadeFor(a, n) ==
  LET v == versions[a][n].event IN
  /\ status[v] # "none" /\ artifact[v] = a /\ v \in Changes
  /\ \A f \in EventIds : artifact[f] = a /\ status[f] \in Active => v <= f
  /\ \A d \in EventIds : Before(d, v) => status[d] \in Settled
  /\ action[v].kind = "edit" => versions[a][n].text = action[v].text
VersionsMade == \A a \in Artifacts : \A n \in DOMAIN versions[a] : MadeFor(a, n)

\* An acked change is not hidden by an older version.
AckedShown ==
  \A a \in Artifacts : \A e \in Since(a) :
     status[e] = "acked" => selected[a] # 0 /\ versions[a][selected[a]].event >= e

\* Nor is a change that is made and not acked yet.
DoneAt(a) == turn[a].step = "done" /\ turn[a].event \in Since(a)
               => selected[a] # 0 /\ versions[a][selected[a]].event = turn[a].event
DoneShown == \A a \in Artifacts : DoneAt(a)

\* Event v comes after edit e, with acked revisions only in between.
Follows(a, e, v) ==
  /\ e \in Since(a) /\ action[e].kind = "edit" /\ e < v
  /\ \A f \in Since(a) : e <= f /\ f < v => status[f] = "acked"
  /\ \A f \in Since(a) : e < f /\ f < v => action[f].kind = "revise"

KeptText ==
  \A a \in Artifacts : \A n \in DOMAIN versions[a], e \in EventIds :
     LET v == versions[a][n].event IN
     action[v].kind = "revise" /\ Follows(a, e, v) => versions[a][n].text = action[e].text

BasisAt(a) ==
  \A e \in EventIds :
     LET v == turn[a].event IN
     turn[a].step = "put" /\ action[v].kind = "revise" /\ Follows(a, e, v)
       => turn[a].text = action[e].text
BasisKept == \A a \in Artifacts : BasisAt(a)

StandingClosed == \A a \in standing : Open(a, "reopen") = {}

EditingInv == /\ EditingTypeOK
              /\ TurnMatches /\ Numbered /\ OldestFirst
              /\ VersionsMade /\ VersionsInOrder
              /\ AckedShown /\ DoneShown
              /\ KeptText /\ BasisKept
              /\ StandingClosed /\ ApprovalStands

LEMMA EventFacts == /\ EventIds \subseteq Int /\ 0 \notin EventIds
                    /\ \A d, e \in EventIds : d < e \/ d = e \/ e < d
BY EditingAssumption DEF EventIds

LEMMA VersionFacts ==
  ASSUME EditingTypeOK, NEW a \in Artifacts
  PROVE  /\ Len(versions[a]) \in Nat /\ DOMAIN versions[a] = 1..Len(versions[a])
         /\ \A n \in DOMAIN versions[a] : /\ versions[a][n].event \in EventIds
                                        /\ versions[a][n].text \in Texts \cup {NoText}
         /\ selected[a] # 0 => selected[a] \in DOMAIN versions[a]
<1> DEFINE Rows == [event : EventIds, text : Texts \cup {NoText}]
<1>1. versions[a] \in Seq(Rows) /\ selected[a] \in 0..Len(versions[a])
  BY DEF EditingTypeOK
<1> HIDE DEF Rows
<1>2. Len(versions[a]) \in Nat /\ DOMAIN versions[a] = 1..Len(versions[a])
  BY <1>1
<1>3. \A n \in DOMAIN versions[a] : versions[a][n] \in Rows
  BY <1>1
<1>4. selected[a] # 0 => selected[a] \in DOMAIN versions[a]
  BY <1>1, <1>2
<1> QED
  BY <1>2, <1>3, <1>4 DEF Rows

LEMMA InitEditingInv == EditingInit => EditingInv
<1> SUFFICES ASSUME EditingInit
             PROVE  EditingInv
  OBVIOUS
<1> USE DEF EditingInit, QueueInit
<1>1. EditingTypeOK
  BY DEF EditingTypeOK, Statuses
<1>2. TurnMatches /\ Numbered /\ OldestFirst
  BY EditingAssumption DEF TurnMatches, MatchesAt, Numbered, OldestFirst, Settled, Before
<1>3. \A a \in Artifacts : DOMAIN versions[a] = {}
  <2> TAKE a \in Artifacts
  <2>1. versions[a] = <<>>
    OBVIOUS
  <2>2. DOMAIN <<>> = {}
    OBVIOUS
  <2> QED
    BY <2>1, <2>2
<1>4. VersionsMade /\ VersionsInOrder /\ KeptText
  BY <1>3 DEF VersionsMade, VersionsInOrder, KeptText
<1>5. AckedShown
  BY DEF AckedShown, Since, Changes
<1>6. \A a \in Artifacts : turn[a].step = "none"
  BY DEF NoTurn
<1>7. DoneShown /\ BasisKept
  BY <1>6 DEF DoneShown, DoneAt, BasisKept, BasisAt
<1>8. StandingClosed /\ ApprovalStands
  BY DEF StandingClosed, ApprovalStands
<1> HIDE DEF EditingInit, QueueInit
<1> QED
  BY <1>1, <1>2, <1>4, <1>5, <1>7, <1>8 DEF EditingInv
-----------------------------------------------------------------------------
\* What LastEditShows asks follows from what is selected.
LEMMA ShowsLastEdit == EditingInv => LastEditShows
<1> SUFFICES ASSUME EditingInv, NEW a \in Artifacts, NEW e \in EventIds,
                    e \in Since(a), action[e].kind = "edit",
                    \A f \in Since(a) : f >= e => status[f] = "acked",
                    \A f \in Since(a) : f > e => action[f].kind = "revise"
             PROVE  Basis(a) = action[e].text
  BY DEF LastEditShows
<1> USE DEF EditingInv
<1> DEFINE s == selected[a]
           v == versions[a][s].event
<1>1. s # 0 /\ v >= e
  <2>1. status[e] = "acked" /\ e \in EventIds
    BY EventFacts DEF Since, Changes
  <2> QED
    BY <2>1 DEF AckedShown
<1>2. s \in DOMAIN versions[a] /\ v \in EventIds
  BY <1>1, VersionFacts
<1>3. MadeFor(a, s)
  BY <1>2 DEF VersionsMade
<1>4. CASE v = e
  <2>1. versions[a][s].text = action[e].text
    BY <1>3, <1>4 DEF MadeFor
  <2> QED
    BY <1>1, <2>1 DEF Basis
<1>5. CASE v # e
  <2>1. e < v
    <3> HIDE DEF v
    <3> QED
      BY <1>1, <1>2, <1>5, EventFacts
  <2>2. v \in Since(a)
    BY <1>2, <1>3, <2>1 DEF Since, Changes, MadeFor, Numbered, Before
  <2>3. action[v].kind = "revise"
    BY <2>1, <2>2, EventFacts
  <2>4. \A f \in Since(a) : f \in EventIds
    BY DEF Since, Changes
  <2>5. Follows(a, e, v)
    BY <2>1, <2>4, EventFacts DEF Follows
  <2> QED
    BY <1>1, <1>2, <2>3, <2>5 DEF KeptText, Basis
<1> QED
  BY <1>4, <1>5
-----------------------------------------------------------------------------
TurnRecords == [event : EventIds, step : TurnSteps, text : Texts \cup {NoText}, n : Nat]

\* The turn a delivery begins.
LEMMA BegunFacts ==
  ASSUME NEW e \in EventIds, action[e] \in Actions
  PROVE  /\ Begun(e) \in TurnRecords /\ Begun(e).event = e
         /\ Begun(e).step \in {"read", "put", "draft"}
         /\ Begun(e).step = "read" <=> action[e].kind = "revise"
         /\ Begun(e).step = "draft" <=> action[e].kind = "reopen"
         /\ Begun(e).step = "put" <=> action[e].kind = "edit"
         /\ action[e].kind = "edit" => Begun(e).text = action[e].text
<1>1. action[e].kind \in Kinds /\ action[e].text \in Texts \cup {NoText}
  BY DEF Actions
<1>2. CASE action[e].kind = "edit"
  <2>1. Begun(e) = [event |-> e, step |-> "put", text |-> action[e].text, n |-> 0]
    BY <1>2 DEF Begun, FirstStep
  <2> QED
    BY <1>1, <1>2, <2>1 DEF TurnRecords, TurnSteps
<1>3. CASE action[e].kind = "revise"
  <2>1. Begun(e) = [event |-> e, step |-> "read", text |-> NoText, n |-> 0]
    BY <1>3 DEF Begun, FirstStep
  <2> QED
    BY <1>1, <1>3, <2>1 DEF TurnRecords, TurnSteps
<1>4. CASE action[e].kind = "reopen"
  <2>1. Begun(e) = [event |-> e, step |-> "draft", text |-> NoText, n |-> 0]
    BY <1>4 DEF Begun, FirstStep
  <2> QED
    BY <1>1, <1>4, <2>1 DEF TurnRecords, TurnSteps
<1> QED
  BY <1>1, <1>2, <1>3, <1>4 DEF Kinds

\* The five actions of the inbox and the supervisor change the status of events
\* and begin or end turns, and have this in common.
QueueStep ==
  /\ UNCHANGED <<artifact, action, versions, selected, approved, before, standing>>
  /\ status' \in [EventIds -> Statuses]
  /\ turn' \in [Artifacts -> TurnRecords \cup {NoTurn}]
  /\ \A e \in EventIds :
       /\ status'[e] = "none" <=> status[e] = "none"
       /\ status[e] \in Settled => status'[e] = status[e]
       /\ status'[e] \in Active => status[e] \in Active
       /\ status'[e] = "processing" =>
            status[e] = "processing" \/ \A d \in EventIds : Before(d, e) => status[d] \in Settled
       /\ status'[e] \in Settled => status[e] \in {"processing"} \cup Settled
       /\ status'[e] = "acked" =>
            status[e] = "acked" \/ \E a \in Artifacts : turn[a].step = "done" /\ turn[a].event = e
  /\ \A a \in Artifacts :
       \/ turn'[a] = NoTurn
       \/ turn'[a] = turn[a] /\ status'[turn[a].event] = "processing"
       \/ \E e \in EventIds : /\ artifact[e] = a /\ status'[e] = "processing"
                              /\ turn'[a] = Begun(e)

LEMMA QueueStepKeepsInv ==
  ASSUME EditingInv, QueueStep
  PROVE  EditingInv'
<1> USE DEF EditingInv
<1>1. UNCHANGED <<artifact, action, versions, selected, approved, before, standing>>
  BY DEF QueueStep
<1>2. EditingTypeOK'
  <2>1. /\ status' \in [EventIds -> Statuses]
        /\ turn' \in [Artifacts -> [event : EventIds, step : TurnSteps,
                                   text : Texts \cup {NoText}, n : Nat] \cup {NoTurn}]
    BY DEF QueueStep, TurnRecords
  <2> QED
    BY <1>1, <2>1 DEF EditingTypeOK
<1>3. \A e \in EventIds :
        /\ status'[e] = "none" <=> status[e] = "none"
        /\ status[e] \in Settled => status'[e] = status[e]
        /\ status'[e] \in Active => status[e] \in Active
  BY DEF QueueStep
<1>4. Numbered'
  BY <1>1, <1>3 DEF Numbered, EditingTypeOK, Before
<1>5. \A a \in Artifacts : Since(a)' = Since(a)
  BY <1>1 DEF Since, Changes
<1>6. OldestFirst'
  <2> SUFFICES ASSUME NEW d \in EventIds, NEW e \in EventIds, Before(d, e),
                      status'[e] \in {"processing"} \cup Settled
               PROVE  status[d] \in Settled
    BY <1>1, <1>3 DEF OldestFirst, Before
  <2>1. CASE status[e] \in {"processing"} \cup Settled
    BY <2>1 DEF OldestFirst
  <2>2. CASE status[e] \notin {"processing"} \cup Settled
    BY <2>2 DEF QueueStep
  <2> QED
    BY <2>1, <2>2
<1>7. TurnMatches'
  <2> SUFFICES ASSUME NEW a \in Artifacts, turn'[a] # NoTurn
               PROVE  LET e == turn'[a].event IN
                      /\ status'[e] = "processing" /\ artifact[e] = a
                      /\ turn'[a].step \in {"read", "put", "select"} => e \in Changes
                      /\ turn'[a].step = "read" => action[e].kind = "revise"
                      /\ turn'[a].step = "draft" => action[e].kind = "reopen"
                      /\ turn'[a].step = "put" /\ action[e].kind = "edit"
                           => turn'[a].text = action[e].text
                      /\ turn'[a].step = "select"
                           => turn'[a].n \in DOMAIN versions[a] /\ versions[a][turn'[a].n].event = e
    BY <1>1 DEF TurnMatches, MatchesAt, Changes
  <2>1. CASE turn'[a] = turn[a] /\ status'[turn[a].event] = "processing"
    BY <2>1 DEF TurnMatches, MatchesAt
  <2>2. ASSUME NEW e \in EventIds, artifact[e] = a, status'[e] = "processing",
               turn'[a] = Begun(e)
        PROVE  /\ turn'[a].event = e
               /\ turn'[a].step \in {"read", "put", "draft"}
               /\ turn'[a].step \in {"read", "put"} => e \in Changes
               /\ turn'[a].step = "read" => action[e].kind = "revise"
               /\ turn'[a].step = "draft" => action[e].kind = "reopen"
               /\ action[e].kind = "edit" => turn'[a].text = action[e].text
    <3>1. action[e] \in Actions
      BY <1>3, <2>2 DEF Numbered
    <3> QED
      BY <2>2, <3>1, BegunFacts DEF Changes
  <2> QED
    BY <2>1, <2>2 DEF QueueStep
<1>8. VersionsMade'
  BY <1>1, <1>3, VersionFacts DEF VersionsMade, MadeFor, Before, Changes
<1>9. VersionsInOrder'
  BY <1>1 DEF VersionsInOrder
<1>10. AckedShown'
  <2> SUFFICES ASSUME NEW a \in Artifacts, NEW e \in Since(a), status'[e] = "acked"
               PROVE  selected[a] # 0 /\ versions[a][selected[a]].event >= e
    BY <1>1, <1>5 DEF AckedShown
  <2>1. e \in EventIds /\ artifact[e] = a
    BY DEF Since, Changes
  <2>2. CASE status[e] = "acked"
    BY <2>2 DEF AckedShown
  <2>3. CASE status[e] # "acked"
    <3>1. PICK b \in Artifacts : turn[b].step = "done" /\ turn[b].event = e
      BY <2>1, <2>3 DEF QueueStep
    <3>2. b = a
      BY <2>1, <3>1 DEF TurnMatches, MatchesAt, NoTurn
    <3>3. selected[a] # 0 /\ versions[a][selected[a]].event = e
      BY <3>1, <3>2 DEF DoneShown, DoneAt
    <3> QED
      BY <2>1, <3>3, EventFacts
  <2> QED
    BY <2>2, <2>3
<1>11. \A a \in Artifacts : turn'[a].step \in {"done", "put"} =>
          turn'[a] = turn[a] \/ (turn'[a].step = "put" /\ action[turn'[a].event].kind = "edit")
  <2> SUFFICES ASSUME NEW a \in Artifacts, turn'[a].step \in {"done", "put"},
                      NEW e \in EventIds, status'[e] = "processing", turn'[a] = Begun(e)
               PROVE  turn'[a].step = "put" /\ action[turn'[a].event].kind = "edit"
    BY DEF QueueStep, NoTurn
  <2>1. action[e] \in Actions
    BY <1>3 DEF Numbered
  <2> QED
    BY <2>1, BegunFacts
<1>12. DoneShown'
  BY <1>1, <1>5, <1>11 DEF DoneShown, DoneAt
<1>13. \A a \in Artifacts, e, v \in EventIds :
         /\ Follows(a, e, v)'
         /\ \A d \in EventIds : Before(d, v) => status[d] \in Settled
         /\ artifact[v] = a
         => Follows(a, e, v)
  <2> SUFFICES ASSUME NEW a \in Artifacts, NEW e \in EventIds, NEW v \in EventIds,
                      Follows(a, e, v)', artifact[v] = a,
                      \A d \in EventIds : Before(d, v) => status[d] \in Settled
               PROVE  Follows(a, e, v)
    OBVIOUS
  <2>1. \A f \in Since(a) : f < v => f \in EventIds /\ status'[f] = status[f]
    BY <1>3 DEF Since, Changes, Before
  <2> QED
    BY <1>1, <1>5, <2>1 DEF Follows
<1>14. KeptText'
  <2> SUFFICES ASSUME NEW a \in Artifacts, NEW n \in DOMAIN versions[a], NEW e \in EventIds,
                      action[versions[a][n].event].kind = "revise",
                      Follows(a, e, versions[a][n].event)'
               PROVE  versions[a][n].text = action[e].text
    BY <1>1 DEF KeptText
  <2>1. Follows(a, e, versions[a][n].event)
    BY <1>1, <1>13, VersionFacts DEF VersionsMade, MadeFor
  <2> QED
    BY <2>1 DEF KeptText
<1>15. BasisKept'
  <2> SUFFICES ASSUME NEW a \in Artifacts, NEW e \in EventIds,
                      (/\ turn[a].step = "put" /\ action[turn[a].event].kind = "revise"
                       /\ Follows(a, e, turn[a].event))'
               PROVE  (turn[a].text = action[e].text)'
    BY DEF BasisKept, BasisAt
  <2>1. turn'[a] = turn[a]
    BY <1>1, <1>11
  <2>2. turn[a] # NoTurn
    BY <2>1 DEF NoTurn
  <2>3. turn[a].event \in EventIds
    BY <2>2 DEF EditingTypeOK
  <2>4. Follows(a, e, turn[a].event)
    <3>1. status[turn[a].event] = "processing" /\ artifact[turn[a].event] = a
      BY <2>2 DEF TurnMatches, MatchesAt
    <3>2. \A d \in EventIds : Before(d, turn[a].event) => status[d] \in Settled
      BY <2>3, <3>1 DEF OldestFirst
    <3>3. PICK v \in EventIds : v = turn[a].event
      BY <2>3
    <3>4. Follows(a, e, v)'
      BY <2>1, <3>3 DEF Follows
    <3> QED
      BY <1>13, <3>1, <3>2, <3>3, <3>4
  <2> QED
    BY <1>1, <2>1, <2>4 DEF BasisKept, BasisAt
<1>16. StandingClosed' /\ ApprovalStands'
  BY <1>1, <1>3 DEF StandingClosed, ApprovalStands, Open
<1> QED
  BY <1>2, <1>4, <1>6, <1>7, <1>8, <1>9, <1>10, <1>12, <1>14, <1>15, <1>16

LEMMA DeliverIsQueueStep ==
  ASSUME EditingInv, NEW e \in EventIds, Deliver(e)
  PROVE  QueueStep
<1> USE DEF EditingInv
<1>1. PICK S \in SUBSET {d \in InProcess : ~HasTurn(d)} : HandOut(S, e)
  BY DEF Deliver
<1>2. status' = [Returned(S) EXCEPT ![e] = "processing"] /\ Returned(S)[e] = "pending"
  BY <1>1 DEF HandOut
<1>3. \A d \in EventIds : status'[d] = IF d = e THEN "processing"
                                       ELSE IF d \in S THEN "pending" ELSE status[d]
  BY <1>2 DEF Returned
<1>4. \A d \in S : status[d] = "processing" /\ ~HasTurn(d)
  BY DEF InProcess
<1>5. status[e] \in {"pending", "processing"}
  BY <1>2, <1>4 DEF Returned
<1>6. artifact[e] \in Artifacts /\ action[e] \in Actions
  BY <1>5 DEF Numbered
<1>7. \A d \in EventIds : Before(d, e) => status[d] \in Settled
  BY <1>1, EditingAssumption DEF HandOut, Before, Numbered, EditingTypeOK, Statuses, Settled, Active
<1>8. turn' = [turn EXCEPT ![artifact[e]] = Begun(e)]
  BY DEF Deliver
<1>9. turn' \in [Artifacts -> TurnRecords \cup {NoTurn}]
  BY <1>6, <1>8, BegunFacts DEF EditingTypeOK, TurnRecords
<1>10. status' \in [EventIds -> Statuses]
  BY <1>2, <1>3 DEF EditingTypeOK, Returned, Statuses, Active
<1>11. ASSUME NEW a \in Artifacts
       PROVE  \/ turn'[a] = NoTurn
              \/ turn'[a] = turn[a] /\ status'[turn[a].event] = "processing"
              \/ \E d \in EventIds : /\ artifact[d] = a /\ status'[d] = "processing"
                                     /\ turn'[a] = Begun(d)
  <2>1. CASE a = artifact[e]
    BY <1>3, <1>8, <2>1 DEF EditingTypeOK
  <2>2. CASE a # artifact[e] /\ turn[a] = NoTurn
    BY <1>8, <2>2 DEF EditingTypeOK
  <2>3. CASE a # artifact[e] /\ turn[a] # NoTurn
    <3>1. turn'[a] = turn[a]
      BY <1>8, <2>3 DEF EditingTypeOK
    <3>2. turn[a].event \in EventIds /\ status[turn[a].event] = "processing"
      BY <2>3 DEF EditingTypeOK, TurnMatches, MatchesAt
    <3>3. turn[a].event \notin S
      BY <1>4 DEF HasTurn
    <3> QED
      BY <1>3, <3>1, <3>2, <3>3
  <2> QED
    BY <2>1, <2>2, <2>3
<1>12. UNCHANGED <<artifact, action, versions, selected, approved, before, standing>>
  BY <1>1 DEF Deliver, HandOut
<1>13. ASSUME NEW d \in EventIds
       PROVE  /\ status'[d] = "none" <=> status[d] = "none"
              /\ status[d] \in Settled => status'[d] = status[d]
              /\ status'[d] \in Active => status[d] \in Active
              /\ status'[d] = "processing" =>
                   status[d] = "processing" \/ \A c \in EventIds : Before(c, d) => status[c] \in Settled
              /\ status'[d] \in Settled => status[d] \in {"processing"} \cup Settled
              /\ status'[d] = "acked" => status[d] = "acked"
  BY <1>3, <1>4, <1>5, <1>7 DEF Settled, Active
<1> QED
  BY <1>9, <1>10, <1>11, <1>12, <1>13 DEF QueueStep

LEMMA ReclaimIsQueueStep ==
  ASSUME EditingInv, NEW S, Reclaim(S)
  PROVE  QueueStep
<1> USE DEF EditingInv
<1>1. status' = Returned(S) /\ turn' = turn
  BY DEF Reclaim, Return
<1>2. \A d \in S : status[d] = "processing" /\ ~HasTurn(d)
  BY DEF Reclaim, InProcess
<1>3. \A d \in EventIds : status'[d] = IF d \in S THEN "pending" ELSE status[d]
  BY <1>1 DEF Returned
<1>4. status' \in [EventIds -> Statuses]
  BY <1>1, <1>3 DEF EditingTypeOK, Returned, Statuses, Active
<1>5. ASSUME NEW a \in Artifacts, turn[a] # NoTurn
      PROVE  status'[turn[a].event] = "processing"
  <2>1. turn[a].event \in EventIds /\ status[turn[a].event] = "processing"
    BY <1>5 DEF EditingTypeOK, TurnMatches, MatchesAt
  <2>2. turn[a].event \notin S
    BY <1>2 DEF HasTurn
  <2> QED
    BY <1>3, <2>1, <2>2
<1>6. UNCHANGED <<artifact, action, versions, selected, approved, before, standing>>
  BY DEF Reclaim, Return
<1>7. turn' \in [Artifacts -> TurnRecords \cup {NoTurn}]
  BY <1>1 DEF EditingTypeOK, TurnRecords
<1>8. ASSUME NEW d \in EventIds
      PROVE  /\ status'[d] = "none" <=> status[d] = "none"
             /\ status[d] \in Settled => status'[d] = status[d]
             /\ status'[d] \in Active => status[d] \in Active
             /\ status'[d] = "processing" => status[d] = "processing"
             /\ status'[d] \in Settled => status[d] \in Settled
             /\ status'[d] = "acked" => status[d] = "acked"
  BY <1>2, <1>3 DEF Settled, Active
<1> QED
  BY <1>1, <1>4, <1>5, <1>6, <1>7, <1>8 DEF QueueStep

\* A turn ends, and its event is settled or left to its lease.
LEMMA EndOfTurnIsQueueStep ==
  ASSUME EditingInv, NEW a \in Artifacts, Stop(a) \/ GiveUp(a) \/ Answer(a)
  PROVE  QueueStep
<1> USE DEF EditingInv
<1>1. turn[a] # NoTurn
  BY DEF Stop, GiveUp, Answer, Ready, NoTurn
<1>2. PICK t \in EventIds : t = turn[a].event
  BY <1>1 DEF EditingTypeOK
<1>3. status[t] = "processing" /\ artifact[t] = a
  BY <1>1, <1>2 DEF TurnMatches, MatchesAt
<1>4. /\ turn' = [turn EXCEPT ![a] = NoTurn]
      /\ UNCHANGED <<artifact, action, versions, selected, approved, before, standing>>
  BY DEF Stop, GiveUp, Answer, Settle, tables, queueVars
<1>5. PICK s \in {"processing", "failed", "acked"} :
        /\ status' = [status EXCEPT ![t] = s]
        /\ s = "acked" => turn[a].step = "done"
  <2>1. CASE Stop(a)
    <3>1. status' = [status EXCEPT ![t] = "processing"]
      BY <1>3, <2>1 DEF Stop, tables, queueVars, EditingTypeOK
    <3> QED
      BY <3>1
  <2>2. CASE GiveUp(a)
    BY <1>2, <2>2 DEF GiveUp, Settle
  <2>3. CASE Answer(a)
    BY <1>2, <2>3 DEF Answer, Settle, Ready
  <2> QED
    BY <2>1, <2>2, <2>3
<1>6. status' \in [EventIds -> Statuses] /\ \A d \in EventIds : d # t => status'[d] = status[d]
  BY <1>5 DEF EditingTypeOK, Statuses, Active, Settled
<1>7. turn' \in [Artifacts -> TurnRecords \cup {NoTurn}] /\ turn'[a] = NoTurn
      /\ \A b \in Artifacts : b # a => turn'[b] = turn[b]
  BY <1>4 DEF EditingTypeOK, TurnRecords
<1>8. ASSUME NEW b \in Artifacts, turn'[b] # NoTurn
      PROVE  turn'[b] = turn[b] /\ status'[turn[b].event] = "processing"
  <2>1. b # a /\ turn'[b] = turn[b]
    BY <1>7, <1>8
  <2>2. turn[b].event \in EventIds /\ status[turn[b].event] = "processing"
        /\ artifact[turn[b].event] = b
    BY <1>8, <2>1 DEF EditingTypeOK, TurnMatches, MatchesAt
  <2> QED
    BY <1>3, <1>6, <2>1, <2>2
<1>9. status'[t] \in {"processing"} \cup Settled /\ (status'[t] = "acked" => turn[a].step = "done")
  BY <1>5 DEF EditingTypeOK, Settled
<1>10. ASSUME NEW d \in EventIds
       PROVE  /\ status'[d] = "none" <=> status[d] = "none"
              /\ status[d] \in Settled => status'[d] = status[d]
              /\ status'[d] \in Active => status[d] \in Active
              /\ status'[d] = "processing" => status[d] = "processing"
              /\ status'[d] \in Settled => status[d] \in {"processing"} \cup Settled
              /\ status'[d] = "acked" =>
                   status[d] = "acked" \/ (turn[a].step = "done" /\ turn[a].event = d)
  BY <1>2, <1>3, <1>6, <1>9 DEF Settled, Active
<1> QED
  BY <1>4, <1>6, <1>7, <1>8, <1>10 DEF QueueStep
-----------------------------------------------------------------------------
LEMMA SubmitKeepsInv ==
  ASSUME EditingInv, NEW e \in EventIds, NEW a \in Artifacts, NEW request \in Actions,
         Submit(e, a, request)
  PROVE  EditingInv'
<1> USE DEF EditingInv
<1>1. /\ status[e] = "none"
      /\ \A d \in EventIds : d > e /\ artifact[d] = a => status[d] = "none"
      /\ status' = [status EXCEPT ![e] = "pending"]
      /\ artifact' = [artifact EXCEPT ![e] = a]
      /\ action' = [action EXCEPT ![e] = request]
      /\ standing' = IF request.kind = "reopen" THEN standing \ {a} ELSE standing
      /\ UNCHANGED <<versions, selected, approved, turn, before>>
  BY DEF Submit, Accept
<1>2. /\ status'[e] = "pending" /\ artifact'[e] = a /\ action'[e] = request
      /\ \A d \in EventIds : d # e => /\ status'[d] = status[d] /\ artifact'[d] = artifact[d]
                                      /\ action'[d] = action[d]
  BY <1>1 DEF EditingTypeOK
<1>3. /\ artifact[e] \notin Artifacts
      /\ \A d \in EventIds : status[d] # "none" => d # e
      /\ \A d \in EventIds : status[d] # "none" /\ artifact[d] = a => d < e
  <2>1. artifact[e] \notin Artifacts
    BY <1>1, EditingAssumption DEF Numbered
  <2>2. \A d \in EventIds : status[d] # "none" => d # e
    BY <1>1
  <2>3. \A d \in EventIds : status[d] # "none" /\ artifact[d] = a => d < e
    BY <1>1, <2>2, EventFacts
  <2> QED
    BY <2>1, <2>2, <2>3
<1>4. EditingTypeOK'
  <2>1. status' \in [EventIds -> Statuses]
    BY <1>1 DEF EditingTypeOK, Statuses, Active
  <2>2. artifact' \in [EventIds -> Artifacts \cup {NoArtifact}]
    BY <1>1 DEF EditingTypeOK
  <2>3. action' \in [EventIds -> Actions \cup {NoAction}]
    BY <1>1 DEF EditingTypeOK
  <2>4. standing' \subseteq Artifacts
    BY <1>1 DEF EditingTypeOK
  <2> QED
    BY <1>1, <2>1, <2>2, <2>3, <2>4 DEF EditingTypeOK
<1>5. Numbered'
  <2>1. \A f \in EventIds : status'[f] = "none" => artifact'[f] = NoArtifact
    BY <1>2 DEF Numbered
  <2>2. \A f \in EventIds : status'[f] # "none" => artifact'[f] \in Artifacts /\ action'[f] \in Actions
    BY <1>2 DEF Numbered
  <2>3. \A b \in Artifacts : \A f \in before[b] : f \in EventIds /\ status'[f] # "none"
    BY <1>2, <1>3 DEF Numbered, EditingTypeOK
  <2>4. ASSUME NEW d \in EventIds, NEW f \in EventIds, Before(d, f)', f \in before[artifact'[f]]
        PROVE  d \in before[artifact'[f]]
    <3>1. artifact'[f] \in Artifacts /\ artifact'[d] = artifact'[f] /\ d < f
      BY <2>4 DEF Before
    <3>2. status[f] # "none" /\ f # e
      BY <1>1, <2>4, <3>1 DEF Numbered
    <3>3. d # e
      BY <1>2, <1>3, <3>1, <3>2, EventFacts
    <3> QED
      BY <1>2, <2>4, <3>1, <3>2, <3>3 DEF Numbered, Before
  <2> QED
    BY <1>1, <2>1, <2>2, <2>3, <2>4 DEF Numbered
<1>6. OldestFirst'
  <2> SUFFICES ASSUME NEW d \in EventIds, NEW f \in EventIds, Before(d, f)',
                      status'[f] \in {"processing"} \cup Settled
               PROVE  status'[d] \in Settled
    BY DEF OldestFirst, Settled
  <2>1. f # e
    BY <1>2 DEF Settled
  <2>2. d # e
    BY <1>2, <1>3, <2>1, EventFacts DEF Before, Settled
  <2> QED
    BY <1>2, <2>1, <2>2 DEF OldestFirst, Before
<1>7. \A b \in Artifacts : turn[b] # NoTurn => /\ turn[b].event \in EventIds /\ turn[b].event # e
                                               /\ status[turn[b].event] = "processing"
                                               /\ artifact[turn[b].event] = b
  BY <1>3 DEF EditingTypeOK, TurnMatches, MatchesAt
<1>8. TurnMatches'
  <2> SUFFICES ASSUME NEW b \in Artifacts, turn[b] # NoTurn
               PROVE  LET t == turn[b].event IN
                      /\ status'[t] = "processing" /\ artifact'[t] = b
                      /\ turn[b].step \in {"read", "put", "select"} => t \in Changes'
                      /\ turn[b].step = "read" => action'[t].kind = "revise"
                      /\ turn[b].step = "draft" => action'[t].kind = "reopen"
                      /\ turn[b].step = "put" /\ action'[t].kind = "edit"
                           => turn[b].text = action'[t].text
                      /\ turn[b].step = "select"
                           => turn[b].n \in DOMAIN versions[b] /\ versions[b][turn[b].n].event = t
    BY <1>1 DEF TurnMatches, MatchesAt
  <2>1. turn[b].event \in EventIds /\ turn[b].event # e
    BY <1>3, <1>7
  <2> QED
    BY <1>2, <2>1 DEF TurnMatches, MatchesAt, Changes
<1>9. \A b \in Artifacts : \A n \in DOMAIN versions[b] :
        /\ versions[b][n].event \in EventIds /\ versions[b][n].event # e
        /\ status[versions[b][n].event] # "none" /\ artifact[versions[b][n].event] = b
  BY <1>3, VersionFacts DEF VersionsMade, MadeFor
<1>10. VersionsMade'
  <2> SUFFICES ASSUME NEW b \in Artifacts, NEW n \in DOMAIN versions[b]
               PROVE  MadeFor(b, n)'
    BY <1>1 DEF VersionsMade
  <2>1. PICK v \in EventIds : v = versions[b][n].event
    BY <1>9
  <2>2. v # e /\ (b = a => v < e)
    BY <1>3, <1>9, <2>1
  <2>3. /\ status[v] # "none" /\ artifact[v] = b /\ v \in Changes
        /\ \A f \in EventIds : artifact[f] = b /\ status[f] \in Active => v <= f
        /\ \A d \in EventIds : Before(d, v) => status[d] \in Settled
        /\ action[v].kind = "edit" => versions[b][n].text = action[v].text
    BY <2>1 DEF VersionsMade, MadeFor
  <2>4. status'[v] # "none" /\ artifact'[v] = b /\ v \in Changes'
        /\ (action'[v].kind = "edit" => versions[b][n].text = action'[v].text)
    BY <1>2, <2>2, <2>3 DEF Changes
  <2>5. \A f \in EventIds : artifact'[f] = b /\ status'[f] \in Active => v <= f
    <3> TAKE f \in EventIds
    <3>1. CASE f = e
      <4>1. artifact'[f] = b => v < f
        BY <1>2, <2>2, <3>1
      <4> QED
        BY <4>1, EventFacts
    <3>2. CASE f # e
      BY <1>2, <2>3, <3>2
    <3> QED
      BY <3>1, <3>2
  <2>6. \A d \in EventIds : Before(d, v)' => status'[d] \in Settled
    <3> SUFFICES ASSUME NEW d \in EventIds, Before(d, v)'
                 PROVE  status'[d] \in Settled
      BY DEF Settled
    <3>1. d # e
      BY <1>2, <2>2, <2>3, EventFacts DEF Before
    <3> QED
      BY <1>2, <2>2, <2>3, <3>1 DEF Before
  <2> QED
    BY <1>1, <2>1, <2>4, <2>5, <2>6 DEF MadeFor, Settled
<1>11. \A b \in Artifacts, f \in EventIds : f # e => (f \in Since(b)' <=> f \in Since(b))
  BY <1>1, <1>2 DEF Since, Changes
<1>12. \A b \in Artifacts : Since(b)' \subseteq EventIds
  BY DEF Since, Changes
<1>13. VersionsInOrder'
  BY <1>1 DEF VersionsInOrder
<1>14. AckedShown'
  <2> SUFFICES ASSUME NEW b \in Artifacts, NEW f \in Since(b)', status'[f] = "acked"
               PROVE  selected[b] # 0 /\ versions[b][selected[b]].event >= f
    BY <1>1 DEF AckedShown
  <2>1. f # e /\ f \in EventIds
    BY <1>2, <1>12
  <2> QED
    BY <1>2, <1>11, <2>1 DEF AckedShown
<1>15. DoneShown'
  <2> SUFFICES ASSUME NEW b \in Artifacts, turn[b].step = "done", turn[b].event \in Since(b)'
               PROVE  selected[b] # 0 /\ versions[b][selected[b]].event = turn[b].event
    BY <1>1 DEF DoneShown, DoneAt
  <2>1. turn[b].event # e /\ turn[b].event \in EventIds
    BY <1>3, <1>7 DEF NoTurn
  <2> QED
    BY <1>11, <2>1 DEF DoneShown, DoneAt
<1>16. \A b \in Artifacts, x, v \in EventIds :
         status[v] # "none" /\ artifact[v] = b /\ Follows(b, x, v)' => Follows(b, x, v)
  <2> SUFFICES ASSUME NEW b \in Artifacts, NEW x \in EventIds, NEW v \in EventIds,
                      status[v] # "none", artifact[v] = b, Follows(b, x, v)'
               PROVE  Follows(b, x, v)
    OBVIOUS
  <2>1. x < v /\ x # e
    <3>1. x < v /\ x \in Since(b)'
      BY DEF Follows
    <3>2. artifact'[x] = b
      BY <3>1 DEF Since
    <3> QED
      BY <1>2, <1>3, <3>1, <3>2, EventFacts
  <2>2. \A f \in Since(b) : f < v => /\ f \in EventIds /\ f # e /\ f \in Since(b)'
                                     /\ status'[f] = status[f] /\ action'[f] = action[f]
    <3> SUFFICES ASSUME NEW f \in Since(b), f < v
                 PROVE  /\ f \in EventIds /\ f # e /\ f \in Since(b)'
                        /\ status'[f] = status[f] /\ action'[f] = action[f]
      OBVIOUS
    <3>1. f \in EventIds
      BY DEF Since, Changes
    <3>2. f # e
      BY <1>3, <3>1 DEF Since
    <3> QED
      BY <1>2, <1>11, <3>1, <3>2
  <2> QED
    BY <1>2, <1>11, <2>1, <2>2 DEF Follows
<1>17. KeptText'
  <2> SUFFICES ASSUME NEW b \in Artifacts, NEW n \in DOMAIN versions[b], NEW x \in EventIds,
                      (/\ action[versions[b][n].event].kind = "revise"
                       /\ Follows(b, x, versions[b][n].event))'
               PROVE  (versions[b][n].text = action[x].text)'
    BY <1>1 DEF KeptText
  <2>1. PICK v \in EventIds : v = versions[b][n].event
    BY <1>9
  <2>2. status[v] # "none" /\ artifact[v] = b /\ v # e
    BY <1>9, <2>1
  <2>3. Follows(b, x, v)' /\ action'[v].kind = "revise"
    BY <1>1, <2>1
  <2>4. Follows(b, x, v) /\ action[v].kind = "revise"
    BY <1>2, <1>16, <2>2, <2>3
  <2>5. x # e
    BY <1>3, <2>4 DEF Follows, Since
  <2> QED
    BY <1>1, <1>2, <2>1, <2>4, <2>5 DEF KeptText
<1>18. BasisKept'
  <2> SUFFICES ASSUME NEW b \in Artifacts, NEW x \in EventIds,
                      (/\ turn[b].step = "put" /\ action[turn[b].event].kind = "revise"
                       /\ Follows(b, x, turn[b].event))'
               PROVE  (turn[b].text = action[x].text)'
    BY DEF BasisKept, BasisAt
  <2>1. turn[b] # NoTurn
    BY <1>1 DEF NoTurn
  <2>2. PICK v \in EventIds : v = turn[b].event
    BY <1>7, <2>1
  <2>3. status[v] # "none" /\ artifact[v] = b /\ v # e
    BY <1>7, <2>1, <2>2
  <2>4. Follows(b, x, v)' /\ action'[v].kind = "revise" /\ turn[b].step = "put"
    BY <1>1, <2>2
  <2>5. Follows(b, x, v) /\ action[v].kind = "revise"
    BY <1>2, <1>16, <2>3, <2>4
  <2>6. x # e
    BY <1>3, <2>5 DEF Follows, Since
  <2> QED
    BY <1>1, <1>2, <2>2, <2>4, <2>5, <2>6 DEF BasisKept, BasisAt
<1>19. StandingClosed'
  <2> SUFFICES ASSUME NEW b \in standing', NEW f \in EventIds, artifact'[f] = b,
                      action'[f].kind = "reopen", status'[f] \in Active
               PROVE  FALSE
    BY DEF StandingClosed, Open, Active
  <2>1. f # e
    BY <1>1, <1>2
  <2> QED
    BY <1>1, <1>2, <2>1 DEF StandingClosed, Open
<1>20. ApprovalStands'
  BY <1>1 DEF ApprovalStands
<1> QED
  BY <1>4, <1>5, <1>6, <1>8, <1>10, <1>13, <1>14, <1>15, <1>17, <1>18, <1>19, <1>20

LEMMA SelectByHandKeepsInv ==
  ASSUME EditingInv, NEW a \in Artifacts, NEW n \in DOMAIN versions[a], SelectByHand(a, n)
  PROVE  EditingInv'
<1> USE DEF EditingInv
<1>1. /\ selected' = [selected EXCEPT ![a] = n]
      /\ before' = [before EXCEPT ![a] = {e \in EventIds : status[e] # "none"}]
      /\ UNCHANGED <<status, artifact, action, versions, approved, turn, standing>>
  BY DEF SelectByHand, queueVars
<1>2. n \in 1..Len(versions[a]) /\ Len(versions[a]) \in Nat
  BY VersionFacts
<1>3. EditingTypeOK'
  <2>1. selected' \in [Artifacts -> Nat] /\ \A b \in Artifacts : selected'[b] \in 0..Len(versions[b])
    BY <1>1, <1>2 DEF EditingTypeOK
  <2>2. before' \in [Artifacts -> SUBSET EventIds]
    BY <1>1 DEF EditingTypeOK
  <2> QED
    BY <1>1, <2>1, <2>2 DEF EditingTypeOK
<1>4. Numbered'
  BY <1>1, EditingAssumption DEF Numbered, EditingTypeOK, Before
<1>5. (TurnMatches /\ OldestFirst /\ VersionsMade /\ VersionsInOrder)'
  BY <1>1 DEF TurnMatches, MatchesAt, OldestFirst, Before, VersionsMade, MadeFor, VersionsInOrder, Changes
<1>6. /\ \A b \in Artifacts : b # a => Since(b)' = Since(b) /\ selected'[b] = selected[b]
      /\ \A e \in Since(a)' : e \in EventIds /\ status[e] = "none"
  BY <1>1 DEF Since, Changes, EditingTypeOK
<1>7. AckedShown'
  <2> SUFFICES ASSUME NEW b \in Artifacts, NEW e \in Since(b)', status[e] = "acked"
               PROVE  selected'[b] # 0 /\ versions[b][selected'[b]].event >= e
    BY <1>1 DEF AckedShown
  <2> QED
    BY <1>6 DEF AckedShown
<1>8. DoneShown'
  <2> SUFFICES ASSUME NEW b \in Artifacts, turn[b].step = "done", turn[b].event \in Since(b)'
               PROVE  selected'[b] # 0 /\ versions[b][selected'[b]].event = turn[b].event
    BY <1>1 DEF DoneShown, DoneAt
  <2>1. status[turn[b].event] = "processing"
    BY DEF TurnMatches, MatchesAt, NoTurn
  <2> QED
    BY <1>6, <2>1 DEF DoneShown, DoneAt
<1>9. \A b \in Artifacts, x, v \in EventIds :
        status[v] # "none" /\ Follows(b, x, v)' => Follows(b, x, v)
  <2> SUFFICES ASSUME NEW b \in Artifacts, NEW x \in EventIds, NEW v \in EventIds,
                      status[v] # "none", Follows(b, x, v)'
               PROVE  Follows(b, x, v)
    OBVIOUS
  <2>1. b # a
    <3>1. x \in Since(b)'
      BY DEF Follows
    <3>2. x \in EventIds /\ artifact[x] = b
      BY <1>1, <3>1 DEF Since, Changes
    <3>3. status[x] # "none"
      BY <3>2, EditingAssumption DEF Numbered
    <3> QED
      BY <1>6, <3>1, <3>3
  <2> QED
    BY <1>1, <1>6, <2>1 DEF Follows
<1>10. KeptText'
  <2> SUFFICES ASSUME NEW b \in Artifacts, NEW m \in DOMAIN versions[b], NEW x \in EventIds,
                      (/\ action[versions[b][m].event].kind = "revise"
                       /\ Follows(b, x, versions[b][m].event))'
               PROVE  (versions[b][m].text = action[x].text)'
    BY <1>1 DEF KeptText
  <2>1. PICK v \in EventIds : v = versions[b][m].event /\ status[v] # "none"
    BY VersionFacts DEF VersionsMade, MadeFor
  <2>2. Follows(b, x, v)'
    BY <1>1, <2>1
  <2> QED
    BY <1>1, <1>9, <2>1, <2>2 DEF KeptText
<1>11. BasisKept'
  <2> SUFFICES ASSUME NEW b \in Artifacts, NEW x \in EventIds,
                      (/\ turn[b].step = "put" /\ action[turn[b].event].kind = "revise"
                       /\ Follows(b, x, turn[b].event))'
               PROVE  (turn[b].text = action[x].text)'
    BY DEF BasisKept, BasisAt
  <2>1. turn[b] # NoTurn
    BY <1>1 DEF NoTurn
  <2>2. PICK v \in EventIds : v = turn[b].event /\ status[v] # "none"
    BY <2>1 DEF EditingTypeOK, TurnMatches, MatchesAt
  <2>3. Follows(b, x, v)'
    BY <1>1, <2>2
  <2> QED
    BY <1>1, <1>9, <2>2, <2>3 DEF BasisKept, BasisAt
<1>12. (StandingClosed /\ ApprovalStands)'
  BY <1>1 DEF StandingClosed, ApprovalStands, Open
<1> QED
  BY <1>3, <1>4, <1>5, <1>7, <1>8, <1>10, <1>11, <1>12

LEMMA ApproveKeepsInv ==
  ASSUME EditingInv, NEW a \in Artifacts, Approve(a)
  PROVE  EditingInv'
<1> USE DEF EditingInv
<1>1. /\ approved' = approved \cup {a}
      /\ standing' = IF Open(a, "reopen") = {} THEN standing \cup {a} ELSE standing
      /\ UNCHANGED <<status, artifact, action, versions, selected, turn, before>>
  BY DEF Approve, queueVars
<1>2. EditingTypeOK'
  BY <1>1 DEF EditingTypeOK
<1>3. (TurnMatches /\ Numbered /\ OldestFirst /\ VersionsMade /\ VersionsInOrder)'
  BY <1>1 DEF TurnMatches, MatchesAt, Numbered, OldestFirst, Before, VersionsMade, MadeFor, VersionsInOrder,
              Changes
<1>4. (AckedShown /\ DoneShown /\ KeptText /\ BasisKept)'
  BY <1>1 DEF AckedShown, DoneShown, DoneAt, KeptText, BasisKept, BasisAt, Follows, Since, Changes
<1>5. (StandingClosed /\ ApprovalStands)'
  BY <1>1 DEF StandingClosed, ApprovalStands, Open
<1> QED
  BY <1>2, <1>3, <1>4, <1>5
-----------------------------------------------------------------------------
\* What the four steps of a handler leave alone, and the turn they are a step of.
HandlerStep(a) ==
  /\ UNCHANGED <<status, artifact, action, before, standing>>
  /\ turn[a] # NoTurn
  /\ turn' = [turn EXCEPT ![a] = turn'[a]]
  /\ turn'[a] \in TurnRecords /\ turn'[a].event = turn[a].event

LEMMA HandlerFacts ==
  ASSUME EditingInv, NEW a \in Artifacts, HandlerStep(a)
  PROVE  /\ (Numbered /\ OldestFirst /\ StandingClosed)'
         /\ Changes' = Changes
         /\ \A b \in Artifacts : Since(b)' = Since(b)
         /\ \A b \in Artifacts, e, v \in EventIds : Follows(b, e, v)' <=> Follows(b, e, v)
         /\ \A b \in Artifacts : b # a => turn'[b] = turn[b]
         /\ turn[a].event \in EventIds
         /\ status[turn[a].event] = "processing" /\ artifact[turn[a].event] = a
         /\ turn' \in [Artifacts -> TurnRecords \cup {NoTurn}]
<1> USE DEF EditingInv, HandlerStep
<1>1. UNCHANGED <<status, artifact, action, before, standing>>
  OBVIOUS
<1>2. (Numbered /\ OldestFirst /\ StandingClosed)'
  BY <1>1 DEF Numbered, OldestFirst, Before, StandingClosed, Open
<1>3. Changes' = Changes /\ \A b \in Artifacts : Since(b)' = Since(b)
  BY <1>1 DEF Changes, Since
<1>4. \A b \in Artifacts, e, v \in EventIds : Follows(b, e, v)' <=> Follows(b, e, v)
  BY <1>1, <1>3 DEF Follows
<1>5. turn \in [Artifacts -> TurnRecords \cup {NoTurn}]
  BY DEF EditingTypeOK, TurnRecords
<1>6. turn' \in [Artifacts -> TurnRecords \cup {NoTurn}]
      /\ \A b \in Artifacts : b # a => turn'[b] = turn[b]
  <2> DEFINE t == turn'[a]
  <2>1. turn' = [turn EXCEPT ![a] = t] /\ t \in TurnRecords
    OBVIOUS
  <2> HIDE DEF t
  <2> QED
    BY <1>5, <2>1
<1>7. turn[a].event \in EventIds
  BY <1>5 DEF TurnRecords
<1>8. status[turn[a].event] = "processing" /\ artifact[turn[a].event] = a
  BY DEF TurnMatches, MatchesAt
<1> QED
  BY <1>2, <1>3, <1>4, <1>6, <1>7, <1>8

\* A revision that follows an edit reads the text of the edit: what is selected
\* was made for the edit or for a revision in between.
LEMMA BasisIsLastEdit ==
  ASSUME EditingInv, NEW a \in Artifacts, NEW x \in EventIds, NEW v \in EventIds,
         status[v] = "processing", artifact[v] = a, action[v].kind = "revise", Follows(a, x, v)
  PROVE  Basis(a) = action[x].text
<1> USE DEF EditingInv
<1>1. /\ x \in Since(a) /\ action[x].kind = "edit" /\ x < v
      /\ \A f \in Since(a) : x <= f /\ f < v => status[f] = "acked"
      /\ \A f \in Since(a) : x < f /\ f < v => action[f].kind = "revise"
  BY DEF Follows
<1>2. status[x] = "acked"
  BY <1>1, EventFacts
<1> DEFINE s == selected[a]
           u == versions[a][s].event
<1>3. s # 0 /\ u >= x
  BY <1>1, <1>2 DEF AckedShown
<1>4. s \in DOMAIN versions[a] /\ u \in EventIds
  BY <1>3, VersionFacts
<1>5. MadeFor(a, s)
  BY <1>4 DEF VersionsMade
<1>6. u <= v /\ Basis(a) = versions[a][s].text
  BY <1>3, <1>5 DEF MadeFor, Active, Basis
<1>7. CASE u = x
  <2>1. versions[a][s].text = action[x].text
    BY <1>1, <1>5, <1>7 DEF MadeFor
  <2> QED
    BY <1>6, <2>1
<1>8. CASE u = v
  BY <1>4, <1>6, <1>8 DEF KeptText
<1>9. CASE x < u /\ u < v
  <2>1. u \in Since(a)
    BY <1>4, <1>5, <1>9, <1>1 DEF Since, Changes, MadeFor, Numbered, Before
  <2>2. action[u].kind = "revise"
    BY <1>1, <1>9, <2>1
  <2>3. \A f \in Since(a) : f \in EventIds
    BY DEF Since, Changes
  <2>4. Follows(a, x, u)
    <3> HIDE DEF u
    <3>1. \A f \in EventIds : f < u => f < v
      <4>1. u \in Int /\ v \in Int /\ u < v
        BY <1>4, <1>9, EventFacts
      <4> QED
        BY <4>1, EventFacts
    <3> QED
      BY <1>1, <1>9, <2>3, <3>1 DEF Follows
  <2> QED
    BY <1>4, <1>6, <2>2, <2>4 DEF KeptText
<1> QED
  <2> HIDE DEF u
  <2> QED
    BY <1>3, <1>4, <1>6, <1>7, <1>8, <1>9, EventFacts

\* What is left to show of a handler's step is about its own artifact.
LEMMA HandlerKeepsInv ==
  ASSUME EditingInv, NEW a \in Artifacts, HandlerStep(a),
         \A b \in Artifacts : b # a => versions'[b] = versions[b] /\ selected'[b] = selected[b],
         EditingTypeOK', MatchesAt(a)', DoneAt(a)', BasisAt(a)',
         (VersionsMade /\ VersionsInOrder /\ AckedShown /\ KeptText /\ ApprovalStands)'
  PROVE  EditingInv'
<1> USE DEF EditingInv
<1>1. /\ (Numbered /\ OldestFirst /\ StandingClosed)' /\ Changes' = Changes
      /\ \A b \in Artifacts : Since(b)' = Since(b)
      /\ \A b \in Artifacts, e, v \in EventIds : Follows(b, e, v)' <=> Follows(b, e, v)
      /\ \A b \in Artifacts : b # a => turn'[b] = turn[b]
  BY HandlerFacts
<1>2. UNCHANGED <<status, artifact, action>>
  BY DEF HandlerStep
<1>3. ASSUME NEW b \in Artifacts, b # a
      PROVE  MatchesAt(b)' /\ DoneAt(b)'
  <2>1. turn'[b] = turn[b] /\ versions'[b] = versions[b] /\ selected'[b] = selected[b]
    BY <1>1, <1>3
  <2>2. MatchesAt(b) /\ DoneAt(b)
    BY DEF TurnMatches, DoneShown
  <2> QED
    BY <1>1, <1>2, <2>1, <2>2 DEF MatchesAt, DoneAt
<1>4. ASSUME NEW b \in Artifacts, b # a
      PROVE  BasisAt(b)'
  <2> SUFFICES ASSUME NEW x \in EventIds,
                      (/\ turn[b].step = "put" /\ action[turn[b].event].kind = "revise"
                       /\ Follows(b, x, turn[b].event))'
               PROVE  (turn[b].text = action[x].text)'
    BY DEF BasisAt
  <2>1. turn'[b] = turn[b] /\ turn[b] # NoTurn
    BY <1>1, <1>4 DEF NoTurn
  <2>2. PICK v \in EventIds : v = turn[b].event
    BY <2>1 DEF EditingTypeOK
  <2>3. Follows(b, x, v)'
    BY <2>1, <2>2
  <2>4. turn[b].step = "put" /\ action[v].kind = "revise" /\ Follows(b, x, v)
    BY <1>1, <1>2, <2>1, <2>2, <2>3
  <2>5. turn[b].text = action[x].text
    BY <2>2, <2>4 DEF BasisKept, BasisAt
  <2> QED
    BY <1>2, <2>1, <2>5
<1> QED
  BY <1>1, <1>3, <1>4 DEF TurnMatches, DoneShown, BasisKept

LEMMA ReadBasisKeepsInv ==
  ASSUME EditingInv, NEW a \in Artifacts, ReadBasis(a)
  PROVE  EditingInv'
<1> USE DEF EditingInv
<1> DEFINE t == turn[a]
<1>1. t.step = "read" /\ t # NoTurn
  BY DEF ReadBasis, AtStep, NoTurn
<1>2. t \in TurnRecords
  BY <1>1 DEF EditingTypeOK, TurnRecords
<1>3. Basis(a) \in Texts \cup {NoText}
  BY VersionFacts DEF Basis
<1>4. /\ turn' = [turn EXCEPT ![a] = [t EXCEPT !.step = "put", !.text = Basis(a)]]
      /\ UNCHANGED <<status, artifact, action, versions, selected, approved, before, standing>>
  BY DEF ReadBasis, tables, queueVars
<1>5. turn'[a] = [t EXCEPT !.step = "put", !.text = Basis(a)]
  BY <1>4 DEF EditingTypeOK
<1>6. /\ turn'[a] \in TurnRecords /\ turn'[a].event = t.event
      /\ turn'[a].step = "put" /\ turn'[a].text = Basis(a)
  BY <1>2, <1>3, <1>5 DEF TurnRecords, TurnSteps
<1>7. HandlerStep(a)
  BY <1>1, <1>4, <1>5, <1>6 DEF HandlerStep
<1>8. /\ Changes' = Changes /\ \A b \in Artifacts : Since(b)' = Since(b)
      /\ \A b \in Artifacts, e, v \in EventIds : Follows(b, e, v)' <=> Follows(b, e, v)
      /\ t.event \in EventIds /\ status[t.event] = "processing" /\ artifact[t.event] = a
      /\ turn' \in [Artifacts -> TurnRecords \cup {NoTurn}]
  BY <1>7, HandlerFacts
<1>9. EditingTypeOK'
  BY <1>4, <1>8 DEF EditingTypeOK, TurnRecords
<1>10. action[t.event].kind = "revise" /\ t.event \in Changes
  BY <1>1 DEF TurnMatches, MatchesAt
<1>11. MatchesAt(a)' /\ DoneAt(a)'
  BY <1>4, <1>6, <1>8, <1>10 DEF MatchesAt, DoneAt
<1>12. (VersionsMade /\ VersionsInOrder /\ AckedShown /\ ApprovalStands)'
  BY <1>4, <1>8 DEF VersionsMade, MadeFor, Before, VersionsInOrder, AckedShown, ApprovalStands
<1>13. KeptText'
  BY <1>4, <1>8, VersionFacts DEF KeptText
<1>14. BasisAt(a)'
  <2> SUFFICES ASSUME NEW x \in EventIds, Follows(a, x, turn[a].event)'
               PROVE  (turn[a].text = action[x].text)'
    BY DEF BasisAt
  <2>1. PICK v \in EventIds : v = t.event
    BY <1>8
  <2>2. Follows(a, x, v)'
    BY <1>6, <2>1
  <2>3. Basis(a) = action[x].text
    BY <1>8, <1>10, <2>1, <2>2, BasisIsLastEdit
  <2> QED
    BY <1>4, <1>6, <2>3
<1> QED
  BY <1>4, <1>7, <1>9, <1>11, <1>12, <1>13, <1>14, HandlerKeepsInv

LEMMA SelectMadeKeepsInv ==
  ASSUME EditingInv, NEW a \in Artifacts, SelectMade(a)
  PROVE  EditingInv'
<1> USE DEF EditingInv
<1> DEFINE t == turn[a]
<1>1. t.step = "select" /\ t # NoTurn
  BY DEF SelectMade, AtStep, NoTurn
<1>2. t \in TurnRecords
  BY <1>1 DEF EditingTypeOK, TurnRecords
<1>3. t.n \in DOMAIN versions[a] /\ versions[a][t.n].event = t.event
  BY <1>1 DEF TurnMatches, MatchesAt
<1>4. /\ turn' = [turn EXCEPT ![a] = [t EXCEPT !.step = "done"]]
      /\ selected' = [selected EXCEPT ![a] = t.n]
      /\ UNCHANGED <<status, artifact, action, versions, approved, before, standing>>
  BY DEF SelectMade, OwnStatus, queueVars
<1>5. turn'[a] = [t EXCEPT !.step = "done"]
  BY <1>4 DEF EditingTypeOK
<1>6. /\ turn'[a] \in TurnRecords /\ turn'[a].event = t.event /\ turn'[a].step = "done"
      /\ selected'[a] = t.n /\ \A b \in Artifacts : b # a => selected'[b] = selected[b]
  BY <1>2, <1>4, <1>5 DEF TurnRecords, TurnSteps, EditingTypeOK
<1>7. HandlerStep(a)
  BY <1>1, <1>4, <1>5, <1>6 DEF HandlerStep
<1>8. /\ Changes' = Changes /\ \A b \in Artifacts : Since(b)' = Since(b)
      /\ \A b \in Artifacts, e, v \in EventIds : Follows(b, e, v)' <=> Follows(b, e, v)
      /\ t.event \in EventIds /\ status[t.event] = "processing" /\ artifact[t.event] = a
      /\ turn' \in [Artifacts -> TurnRecords \cup {NoTurn}]
  BY <1>7, HandlerFacts
<1>9. t.n \in 1..Len(versions[a]) /\ Len(versions[a]) \in Nat
  BY <1>3, VersionFacts
<1>10. EditingTypeOK'
  <2>1. selected' \in [Artifacts -> Nat] /\ \A b \in Artifacts : selected'[b] \in 0..Len(versions[b])
    BY <1>4, <1>6, <1>9 DEF EditingTypeOK
  <2> QED
    BY <1>4, <1>8, <2>1 DEF EditingTypeOK, TurnRecords
<1>11. MatchesAt(a)' /\ DoneAt(a)' /\ BasisAt(a)'
  BY <1>3, <1>4, <1>6, <1>8, <1>9 DEF MatchesAt, DoneAt, BasisAt
<1>12. (VersionsMade /\ VersionsInOrder /\ ApprovalStands)'
  BY <1>4, <1>8 DEF VersionsMade, MadeFor, Before, VersionsInOrder, ApprovalStands
<1>13. KeptText'
  BY <1>4, <1>8, VersionFacts DEF KeptText
<1>14. AckedShown'
  <2> SUFFICES ASSUME NEW b \in Artifacts, NEW e \in Since(b), status[e] = "acked"
               PROVE  selected'[b] # 0 /\ versions[b][selected'[b]].event >= e
    BY <1>4, <1>8 DEF AckedShown
  <2>1. CASE b # a
    BY <1>6, <2>1 DEF AckedShown
  <2>2. CASE b = a
    <3>1. e \in EventIds /\ artifact[e] = a
      BY <2>2 DEF Since, Changes
    <3>2. ~(t.event < e)
      <4>1. SUFFICES ASSUME t.event < e
                     PROVE  FALSE
        OBVIOUS
      <4>2. Before(t.event, e)
        BY <1>8, <3>1, <4>1 DEF Before
      <4>3. status[t.event] \in Settled
        BY <1>8, <3>1, <4>2 DEF OldestFirst, Settled
      <4> QED
        BY <1>8, <4>3 DEF Settled
    <3>3. t.event >= e
      <4> DEFINE d == t.event
      <4>1. d \in EventIds /\ ~(d < e)
        BY <1>8, <3>2
      <4> HIDE DEF d
      <4>2. d >= e
        BY <3>1, <4>1, EventFacts
      <4> QED
        BY <4>2 DEF d
    <3>4. selected'[a] = t.n /\ t.n # 0 /\ versions[a][t.n].event = t.event
      BY <1>3, <1>6, <1>9
    <3>5. versions[a][selected'[a]].event = t.event
      BY <3>4
    <3> QED
      BY <2>2, <3>3, <3>4, <3>5
  <2> QED
    BY <2>1, <2>2
<1> QED
  BY <1>4, <1>6, <1>7, <1>10, <1>11, <1>12, <1>13, <1>14, HandlerKeepsInv

LEMMA SetDraftKeepsInv ==
  ASSUME EditingInv, NEW a \in Artifacts, SetDraft(a)
  PROVE  EditingInv'
<1> USE DEF EditingInv
<1> DEFINE t == turn[a]
<1>1. t.step = "draft" /\ t # NoTurn
  BY DEF SetDraft, AtStep, NoTurn
<1>2. t \in TurnRecords
  BY <1>1 DEF EditingTypeOK, TurnRecords
<1>3. action[t.event].kind = "reopen"
  BY <1>1 DEF TurnMatches, MatchesAt
<1>4. /\ turn' = [turn EXCEPT ![a] = [t EXCEPT !.step = "done"]]
      /\ approved' = approved \ {a}
      /\ UNCHANGED <<status, artifact, action, versions, selected, before, standing>>
  BY DEF SetDraft, queueVars
<1>5. turn'[a] = [t EXCEPT !.step = "done"]
  BY <1>4 DEF EditingTypeOK
<1>6. turn'[a] \in TurnRecords /\ turn'[a].event = t.event /\ turn'[a].step = "done"
  BY <1>2, <1>5 DEF TurnRecords, TurnSteps
<1>7. HandlerStep(a)
  BY <1>1, <1>4, <1>5, <1>6 DEF HandlerStep
<1>8. /\ Changes' = Changes /\ \A b \in Artifacts : Since(b)' = Since(b)
      /\ \A b \in Artifacts, e, v \in EventIds : Follows(b, e, v)' <=> Follows(b, e, v)
      /\ t.event \in EventIds /\ status[t.event] = "processing" /\ artifact[t.event] = a
      /\ turn' \in [Artifacts -> TurnRecords \cup {NoTurn}]
  BY <1>7, HandlerFacts
<1>9. EditingTypeOK'
  BY <1>4, <1>8 DEF EditingTypeOK, TurnRecords
<1>10. t.event \notin Since(a)
  BY <1>3 DEF Since, Changes
<1>11. MatchesAt(a)' /\ DoneAt(a)' /\ BasisAt(a)'
  BY <1>4, <1>6, <1>8, <1>10 DEF MatchesAt, DoneAt, BasisAt
<1>12. (VersionsMade /\ VersionsInOrder /\ AckedShown)'
  BY <1>4, <1>8 DEF VersionsMade, MadeFor, Before, VersionsInOrder, AckedShown
<1>13. KeptText'
  BY <1>4, <1>8, VersionFacts DEF KeptText
<1>14. ApprovalStands'
  <2>1. t.event \in Open(a, "reopen")
    BY <1>3, <1>8 DEF Open, Active
  <2>2. a \notin standing
    BY <2>1 DEF StandingClosed
  <2> QED
    BY <1>4, <2>2 DEF ApprovalStands
<1> QED
  BY <1>4, <1>7, <1>9, <1>11, <1>12, <1>13, <1>14, HandlerKeepsInv

\* A put that finds the version made before.
LEMMA PutAgainKeepsInv ==
  ASSUME EditingInv, NEW a \in Artifacts, AtStep(a, "put"), NEW n \in MadeBefore(a),
         turn' = [turn EXCEPT ![a].n = n,
                              ![a].step = IF StillToSelect(a, n) THEN "select" ELSE "done"],
         UNCHANGED <<queueVars, action, versions, selected, approved, before, standing>>
  PROVE  EditingInv'
<1> USE DEF EditingInv
<1> DEFINE t == turn[a]
           step == IF selected[a] # n THEN "select" ELSE "done"
<1>1. t.step = "put" /\ t # NoTurn
  BY DEF AtStep, NoTurn
<1>2. t \in TurnRecords
  BY <1>1 DEF EditingTypeOK, TurnRecords
<1>3. n \in DOMAIN versions[a] /\ versions[a][n].event = t.event
  BY DEF MadeBefore
<1>4. n \in 1..Len(versions[a]) /\ Len(versions[a]) \in Nat /\ n \in Nat
  BY <1>3, VersionFacts
<1>5. /\ turn' = [turn EXCEPT ![a] = [t EXCEPT !.n = n, !.step = step]]
      /\ UNCHANGED <<status, artifact, action, versions, selected, approved, before, standing>>
  BY DEF queueVars, StillToSelect
<1>6. turn'[a] = [t EXCEPT !.n = n, !.step = step]
  BY <1>5 DEF EditingTypeOK
<1>7. /\ turn'[a] \in TurnRecords /\ turn'[a].event = t.event /\ turn'[a].step = step
      /\ turn'[a].n = n
  <2>1. step \in TurnSteps
    BY DEF TurnSteps
  <2> DEFINE u == turn'[a]
  <2>2. u = [t EXCEPT !.n = n, !.step = step]
    BY <1>6
  <2>3. t \in TurnRecords /\ n \in Nat
    BY <1>2, <1>4
  <2> HIDE DEF u, t, step
  <2>4. u \in TurnRecords /\ u.event = t.event /\ u.step = step /\ u.n = n
    BY <2>1, <2>2, <2>3 DEF TurnRecords
  <2> QED
    BY <2>4 DEF u
<1>8. HandlerStep(a)
  BY <1>1, <1>5, <1>6, <1>7 DEF HandlerStep
<1>9. /\ Changes' = Changes /\ \A b \in Artifacts : Since(b)' = Since(b)
      /\ \A b \in Artifacts, e, v \in EventIds : Follows(b, e, v)' <=> Follows(b, e, v)
      /\ t.event \in EventIds /\ status[t.event] = "processing" /\ artifact[t.event] = a
      /\ turn' \in [Artifacts -> TurnRecords \cup {NoTurn}]
  BY <1>8, HandlerFacts
<1>10. EditingTypeOK'
  BY <1>5, <1>9 DEF EditingTypeOK, TurnRecords
<1>11. t.event \in Changes
  BY <1>1 DEF TurnMatches, MatchesAt
<1>12. MatchesAt(a)' /\ BasisAt(a)'
  BY <1>3, <1>5, <1>7, <1>9, <1>11 DEF MatchesAt, BasisAt
<1>13. DoneAt(a)'
  BY <1>3, <1>4, <1>5, <1>7 DEF DoneAt
<1>14. (VersionsMade /\ VersionsInOrder /\ AckedShown /\ ApprovalStands)'
  BY <1>5, <1>9 DEF VersionsMade, MadeFor, Before, VersionsInOrder, AckedShown, ApprovalStands
<1>15. KeptText'
  BY <1>5, <1>9, VersionFacts DEF KeptText
<1> QED
  BY <1>5, <1>8, <1>10, <1>12, <1>13, <1>14, <1>15, HandlerKeepsInv

\* A put that makes a version.
LEMMA PutNewKeepsInv ==
  ASSUME EditingInv, NEW a \in Artifacts, AtStep(a, "put"), MadeBefore(a) = {},
         versions' = [versions EXCEPT ![a] =
                        Append(@, [event |-> turn[a].event, text |-> turn[a].text])],
         turn' = [turn EXCEPT ![a].n = NextNumber(a), ![a].step = "select"],
         UNCHANGED <<queueVars, action, selected, approved, before, standing>>
  PROVE  EditingInv'
<1> USE DEF EditingInv
<1> DEFINE t == turn[a]
           row == [event |-> t.event, text |-> t.text]
           n == Len(versions[a]) + 1
<1>1. t.step = "put" /\ t # NoTurn
  BY DEF AtStep, NoTurn
<1>2. t \in TurnRecords
  BY <1>1 DEF EditingTypeOK, TurnRecords
<1>3. Len(versions[a]) \in Nat /\ DOMAIN versions[a] = 1..Len(versions[a]) /\ n \in Nat
  BY VersionFacts
<1>4. /\ turn' = [turn EXCEPT ![a] = [t EXCEPT !.n = n, !.step = "select"]]
      /\ UNCHANGED <<status, artifact, action, selected, approved, before, standing>>
  BY DEF queueVars, NextNumber
<1>5. turn'[a] = [t EXCEPT !.n = n, !.step = "select"]
  BY <1>4 DEF EditingTypeOK
<1>6. /\ turn'[a] \in TurnRecords /\ turn'[a].event = t.event /\ turn'[a].step = "select"
      /\ turn'[a].n = n
  <2>1. "select" \in TurnSteps
    BY DEF TurnSteps
  <2> DEFINE u == turn'[a]
  <2>2. u = [t EXCEPT !.n = n, !.step = "select"]
    BY <1>5
  <2>3. t \in TurnRecords /\ n \in Nat
    BY <1>2, <1>3
  <2> HIDE DEF u, t, n
  <2>4. u \in TurnRecords /\ u.event = t.event /\ u.step = "select" /\ u.n = n
    BY <2>1, <2>2, <2>3 DEF TurnRecords
  <2> QED
    BY <2>4 DEF u
<1>7. HandlerStep(a)
  BY <1>1, <1>4, <1>5, <1>6 DEF HandlerStep
<1>8. /\ Changes' = Changes /\ \A b \in Artifacts : Since(b)' = Since(b)
      /\ \A b \in Artifacts, e, v \in EventIds : Follows(b, e, v)' <=> Follows(b, e, v)
      /\ t.event \in EventIds /\ status[t.event] = "processing" /\ artifact[t.event] = a
      /\ turn' \in [Artifacts -> TurnRecords \cup {NoTurn}]
  BY <1>7, HandlerFacts
<1>9. t.event \in Changes /\ (action[t.event].kind = "edit" => t.text = action[t.event].text)
  BY <1>1 DEF TurnMatches, MatchesAt
<1>10. /\ versions'[a] = Append(versions[a], row)
       /\ \A b \in Artifacts : b # a => versions'[b] = versions[b]
       /\ DOMAIN versions' = Artifacts
  BY DEF EditingTypeOK
<1>11. row \in [event : EventIds, text : Texts \cup {NoText}]
       /\ row.event = t.event /\ row.text = t.text
  BY <1>2 DEF TurnRecords
<1>12. /\ versions'[a] \in Seq([event : EventIds, text : Texts \cup {NoText}])
       /\ Len(versions'[a]) = n /\ DOMAIN versions'[a] = 1..n
       /\ versions'[a][n] = row
       /\ \A m \in DOMAIN versions[a] : versions'[a][m] = versions[a][m]
  <2> DEFINE Rows == [event : EventIds, text : Texts \cup {NoText}]
             vs == versions[a]
             r == row
  <2>1. vs \in Seq(Rows) /\ r \in Rows
    BY <1>11 DEF EditingTypeOK
  <2>2. versions'[a] = Append(vs, r)
    BY <1>10
  <2> HIDE DEF Rows, vs, r
  <2>3. /\ Append(vs, r) \in Seq(Rows) /\ Len(Append(vs, r)) = Len(vs) + 1
        /\ DOMAIN Append(vs, r) = 1..(Len(vs) + 1)
        /\ Append(vs, r)[Len(vs) + 1] = r
        /\ \A m \in DOMAIN vs : Append(vs, r)[m] = vs[m]
    BY <2>1
  <2> QED
    BY <2>2, <2>3 DEF Rows, vs, r
<1>13. EditingTypeOK'
  <2>1. versions' \in [Artifacts -> Seq([event : EventIds, text : Texts \cup {NoText}])]
    <3> DEFINE S == Seq([event : EventIds, text : Texts \cup {NoText}])
    <3>1. versions \in [Artifacts -> S] /\ versions'[a] \in S
      BY <1>12 DEF EditingTypeOK
    <3>2. versions' = [versions EXCEPT ![a] = versions'[a]]
      BY <1>10
    <3> HIDE DEF S
    <3>3. versions' \in [Artifacts -> S]
      BY <3>1, <3>2
    <3> QED
      BY <3>3 DEF S
  <2>2. \A b \in Artifacts : selected[b] \in 0..Len(versions'[b])
    <3> SUFFICES ASSUME NEW b \in Artifacts
                 PROVE  selected[b] \in 0..Len(versions'[b])
      OBVIOUS
    <3>1. selected[b] \in 0..Len(versions[b])
      BY DEF EditingTypeOK
    <3> QED
      BY <1>3, <1>10, <1>12, <3>1
  <2> QED
    BY <1>4, <1>8, <2>1, <2>2 DEF EditingTypeOK, TurnRecords
<1>14. MatchesAt(a)' /\ DoneAt(a)' /\ BasisAt(a)'
  <2>1. n \in DOMAIN versions'[a] /\ versions'[a][n].event = t.event
    BY <1>3, <1>11, <1>12
  <2> QED
    BY <1>4, <1>6, <1>8, <1>9, <2>1 DEF MatchesAt, DoneAt, BasisAt
\* The rows that were there are what they were; the new one is row.
<1>15. ASSUME NEW b \in Artifacts, NEW m \in DOMAIN versions'[b]
       PROVE  \/ m \in DOMAIN versions[b] /\ versions'[b][m] = versions[b][m]
              \/ b = a /\ m = n /\ versions'[b][m] = row
  BY <1>3, <1>10, <1>12
<1>16. VersionsMade'
  <2> SUFFICES ASSUME NEW b \in Artifacts, NEW m \in DOMAIN versions'[b]
               PROVE  MadeFor(b, m)'
    BY DEF VersionsMade
  <2>1. CASE m \in DOMAIN versions[b] /\ versions'[b][m] = versions[b][m]
    <3>1. MadeFor(b, m)
      BY <2>1 DEF VersionsMade
    <3>2. versions[b][m].event \in EventIds
      BY <2>1, VersionFacts
    <3> QED
      BY <1>4, <1>8, <2>1, <3>1, <3>2 DEF MadeFor, Before
  <2>2. CASE b = a /\ m = n /\ versions'[b][m] = row
    <3>1. \A f \in EventIds : artifact[f] = a /\ status[f] \in Active => ~(f < t.event)
      BY <1>8 DEF OldestFirst, Before, Active, Settled
    <3>2. \A f \in EventIds : ~(f < t.event) => t.event <= f
      <4> DEFINE d == t.event
      <4>1. d \in EventIds
        BY <1>8
      <4> HIDE DEF d
      <4>2. \A f \in EventIds : ~(f < d) => d <= f
        BY <4>1, EventFacts
      <4> QED
        BY <4>2 DEF d
    <3>3. \A d \in EventIds : Before(d, t.event) => status[d] \in Settled
      BY <1>8 DEF OldestFirst
    <3>4. versions'[b][m].event = t.event /\ versions'[b][m].text = t.text
      BY <1>11, <2>2
    <3> QED
      BY <1>4, <1>8, <1>9, <2>2, <3>1, <3>2, <3>3, <3>4 DEF MadeFor, Before
  <2> QED
    BY <1>15, <2>1, <2>2
<1>17. VersionsInOrder'
  <2> SUFFICES ASSUME NEW b \in Artifacts, NEW k \in DOMAIN versions'[b],
                      NEW m \in DOMAIN versions'[b], k < m
               PROVE  versions'[b][k].event < versions'[b][m].event
    BY DEF VersionsInOrder
  <2>1. CASE m \in DOMAIN versions[b] /\ versions'[b][m] = versions[b][m]
    <3>1. k \in DOMAIN versions[b]
      BY <1>3, <1>10, <1>12, <2>1, VersionFacts
    <3>2. versions'[b][k] = versions[b][k]
      BY <1>10, <1>12, <3>1
    <3> QED
      BY <2>1, <3>1, <3>2 DEF VersionsInOrder
  <2>2. CASE b = a /\ m = n /\ versions'[b][m] = row
    <3>1. k \in DOMAIN versions[a]
      BY <1>3, <1>12, <2>2
    <3>2. versions'[a][k] = versions[a][k]
      BY <1>12, <3>1
    <3>3. MadeFor(a, k) /\ versions[a][k].event \in EventIds
      BY <3>1, VersionFacts DEF VersionsMade
    <3>4. versions[a][k].event <= t.event
      BY <1>8, <3>3 DEF MadeFor, Active
    <3>5. versions[a][k].event # t.event
      BY <3>1 DEF MadeBefore
    <3>6. versions[a][k].event < t.event
      <4> DEFINE d == t.event
                 c == versions[a][k].event
      <4>1. c \in EventIds /\ d \in EventIds /\ c <= d /\ c # d
        BY <1>8, <3>3, <3>4, <3>5
      <4> HIDE DEF c, d
      <4>2. c < d
        BY <4>1, EventFacts
      <4> QED
        BY <4>2 DEF c, d
    <3> QED
      BY <1>11, <2>2, <3>2, <3>6
  <2> QED
    BY <1>15, <2>1, <2>2
<1>18. AckedShown'
  <2> SUFFICES ASSUME NEW b \in Artifacts, NEW e \in Since(b), status[e] = "acked"
               PROVE  selected[b] # 0 /\ versions'[b][selected[b]].event >= e
    BY <1>4, <1>8 DEF AckedShown
  <2>1. selected[b] # 0 /\ versions[b][selected[b]].event >= e
    BY DEF AckedShown
  <2>2. selected[b] \in DOMAIN versions[b]
    BY <2>1, VersionFacts
  <2>3. versions'[b][selected[b]] = versions[b][selected[b]]
    BY <1>10, <1>12, <2>2
  <2> QED
    BY <2>1, <2>3
<1>19. KeptText'
  <2> SUFFICES ASSUME NEW b \in Artifacts, NEW m \in DOMAIN versions'[b], NEW x \in EventIds,
                      (/\ action[versions[b][m].event].kind = "revise"
                       /\ Follows(b, x, versions[b][m].event))'
               PROVE  (versions[b][m].text = action[x].text)'
    BY DEF KeptText
  <2>1. CASE m \in DOMAIN versions[b] /\ versions'[b][m] = versions[b][m]
    <3>1. PICK v \in EventIds : v = versions[b][m].event
      BY <2>1, VersionFacts
    <3>2. Follows(b, x, v)'
      BY <2>1, <3>1
    <3> QED
      BY <1>4, <1>8, <2>1, <3>1, <3>2 DEF KeptText
  <2>2. CASE b = a /\ m = n /\ versions'[b][m] = row
    <3>1. PICK v \in EventIds : v = t.event
      BY <1>8
    <3>2. versions'[b][m].event = v /\ versions'[b][m].text = t.text
      BY <1>11, <2>2, <3>1
    <3>3. Follows(a, x, v)'
      BY <2>2, <3>2
    <3>4. t.text = action[x].text
      BY <1>1, <1>4, <1>8, <3>1, <3>2, <3>3 DEF BasisKept, BasisAt
    <3> QED
      BY <1>4, <3>2, <3>4
  <2> QED
    BY <1>15, <2>1, <2>2
<1>20. ApprovalStands'
  BY <1>4 DEF ApprovalStands
<1> QED
  BY <1>4, <1>7, <1>10, <1>13, <1>14, <1>16, <1>17, <1>18, <1>19, <1>20, HandlerKeepsInv
-----------------------------------------------------------------------------
\* Every step of the board, the inbox, the supervisor and the worker keeps the
\* invariant.
LEMMA EditingStep == EditingInv /\ [EditingNext]_editingVars => EditingInv'
<1> SUFFICES ASSUME EditingInv, [EditingNext]_editingVars
             PROVE  EditingInv'
  OBVIOUS
<1>1. ASSUME NEW e \in EventIds, NEW a \in Artifacts, NEW request \in Actions,
             Submit(e, a, request)
      PROVE  EditingInv'
  BY <1>1, SubmitKeepsInv
<1>2. ASSUME NEW a \in Artifacts, NEW n \in DOMAIN versions[a], SelectByHand(a, n)
      PROVE  EditingInv'
  BY <1>2, SelectByHandKeepsInv
<1>3. ASSUME NEW a \in Artifacts, Approve(a)
      PROVE  EditingInv'
  BY <1>3, ApproveKeepsInv
<1>4. ASSUME NEW e \in EventIds, Deliver(e)
      PROVE  EditingInv'
  BY <1>4, DeliverIsQueueStep, QueueStepKeepsInv
<1>5. ASSUME NEW S \in SUBSET EventIds, Reclaim(S)
      PROVE  EditingInv'
  BY <1>5, ReclaimIsQueueStep, QueueStepKeepsInv
<1>6. ASSUME NEW a \in Artifacts, Stop(a) \/ GiveUp(a) \/ Answer(a)
      PROVE  EditingInv'
  BY <1>6, EndOfTurnIsQueueStep, QueueStepKeepsInv
<1>7. ASSUME NEW a \in Artifacts, ReadBasis(a)
      PROVE  EditingInv'
  BY <1>7, ReadBasisKeepsInv
<1>8. ASSUME NEW a \in Artifacts, Put(a)
      PROVE  EditingInv'
  <2>1. AtStep(a, "put")
        /\ UNCHANGED <<queueVars, action, selected, approved, before, standing>>
    BY <1>8 DEF Put
  <2>2. ASSUME NEW n \in MadeBefore(a),
               turn' = [turn EXCEPT ![a].n = n,
                                    ![a].step = IF StillToSelect(a, n) THEN "select" ELSE "done"],
               UNCHANGED versions
        PROVE  EditingInv'
    BY <2>1, <2>2, PutAgainKeepsInv
  <2>3. CASE /\ MadeBefore(a) = {}
             /\ versions' = [versions EXCEPT ![a] =
                               Append(@, [event |-> turn[a].event, text |-> turn[a].text])]
             /\ turn' = [turn EXCEPT ![a].n = NextNumber(a), ![a].step = "select"]
    BY <2>1, <2>3, PutNewKeepsInv
  <2> QED
    BY <1>8, <2>2, <2>3 DEF Put
<1>9. ASSUME NEW a \in Artifacts, SelectMade(a)
      PROVE  EditingInv'
  BY <1>9, SelectMadeKeepsInv
<1>10. ASSUME NEW a \in Artifacts, SetDraft(a)
       PROVE  EditingInv'
  BY <1>10, SetDraftKeepsInv
<1>11. CASE UNCHANGED editingVars
  <2>1. UNCHANGED <<status, artifact, action, versions, selected, approved, turn, before, standing>>
    BY <1>11 DEF editingVars, tables, queueVars
  <2>2. (EditingTypeOK /\ TurnMatches /\ Numbered /\ OldestFirst)'
    BY <2>1 DEF EditingInv, EditingTypeOK, TurnMatches, MatchesAt, Numbered, OldestFirst, Before, Changes
  <2>3. (VersionsMade /\ VersionsInOrder)'
    BY <2>1 DEF EditingInv, VersionsMade, MadeFor, VersionsInOrder, Before, Changes
  <2>4. (AckedShown /\ DoneShown /\ KeptText /\ BasisKept)'
    BY <2>1 DEF EditingInv, AckedShown, DoneShown, DoneAt, KeptText, BasisKept, BasisAt, Follows, Since,
                Changes
  <2>5. (StandingClosed /\ ApprovalStands)'
    BY <2>1 DEF EditingInv, StandingClosed, ApprovalStands, Open
  <2> QED
    BY <2>2, <2>3, <2>4, <2>5 DEF EditingInv
<1> QED
  BY <1>1, <1>2, <1>3, <1>4, <1>5, <1>6, <1>7, <1>8, <1>9, <1>10, <1>11 DEF EditingNext

LEMMA EditingInvAlways == EditingSpec => []EditingInv
BY InitEditingInv, EditingStep, PTL DEF EditingSpec

\* A turn is always at a step of its handler, and the selection is a version of
\* the artifact.
THEOREM EditingTypes == EditingSpec => []EditingTypeOK
<1>1. EditingInv => EditingTypeOK
  BY DEF EditingInv
<1> QED
  BY <1>1, EditingInvAlways, PTL

\* However often a turn ends halfway and its event is delivered again, each
\* change makes one version, and versions come in the order of the changes.
THEOREM OrderedVersions == EditingSpec => []VersionsInOrder
<1>1. EditingInv => VersionsInOrder
  BY DEF EditingInv
<1> QED
  BY <1>1, EditingInvAlways, PTL

\* With all changes done, an artifact shows the text of the last edit.
THEOREM LastEditIsShown == EditingSpec => []LastEditShows
BY ShowsLastEdit, EditingInvAlways, PTL

\* No reopen that was settled before an approval undoes it.
THEOREM ApprovalIsKept == EditingSpec => []ApprovalStands
<1>1. EditingInv => ApprovalStands
  BY DEF EditingInv
<1> QED
  BY <1>1, EditingInvAlways, PTL
=============================================================================
