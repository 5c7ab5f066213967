---------------------------- MODULE ArtifactGraph ----------------------------
(***************************************************************************)
(* Artifacts, their versions and the dependency graph of surface/store.py, *)
(* as the callers of one Store instance see them: each public method holds *)
(* the instance's RLock and is one step.  GraphConnections takes the       *)
(* methods apart for several instances.                                    *)
(*                                                                         *)
(* The status of an artifact matters here only as stale or not.  Of the    *)
(* inbox only the stale events are kept: Inbox shows that at most one      *)
(* event per artifact is processed at a time, oldest first, and notice[a]  *)
(* rests on that.                                                          *)
(***************************************************************************)
EXTENDS Integers, Sequences, FiniteSets

CONSTANTS Artifacts,
          Sources,       \* source_event_id values
          NoSource,      \* a version without one
          MaxVersions,   \* bound: versions of one artifact
          MaxTotal,      \* bound: versions of all artifacts
          LateAnswers    \* may a worker ack an event its lease no longer covers?

ASSUME GraphAssumption == /\ NoSource \notin Sources
                          /\ MaxVersions \in Nat /\ MaxTotal \in Nat
                          /\ LateAnswers \in BOOLEAN

VARIABLES exists,     \* the artifacts created so far
          edges,      \* artifact_dependencies: <<upstream, downstream>>
          versions,   \* versions[a][n]: the source event of version n
          selected,   \* selected_version_id as a version number, 0 for NULL
          stale,      \* artifacts whose status is "stale"
          notice,     \* notice[a]: the states of the unsettled stale events of a
          behind,     \* history: an ancestor changed since the status was set
          unnoticed   \* history: marked stale since a stale event was handed out

graphVars == <<exists, edges, versions, selected, stale, notice, behind, unnoticed>>

\* A stale event that waits, that is being handled, or that waits again after
\* its lease ran out.
NoticeStates == {"waiting", "handled", "returned"}

GraphInit ==
  /\ exists = {}
  /\ edges = {}
  /\ versions = [a \in Artifacts |-> <<>>]
  /\ selected = [a \in Artifacts |-> 0]
  /\ stale = {}
  /\ notice = [a \in Artifacts |-> {}]
  /\ behind = {}
  /\ unnoticed = {}
-----------------------------------------------------------------------------
(* Reachability along dependency edges. *)
Closed(S) == \A e \in edges : e[1] \in S => e[2] \in S
Reaches(a, b) == \A S \in SUBSET Artifacts : Closed(S) /\ a \in S => b \in S

\* Broken variants of the definitions below, for the mutation checks: a cycle
\* check of the opposite edge only, a walk to the direct dependents only, a stale
\* event dropped when one is being handled, an idempotency check of the last
\* version only.
NoOppositeEdge(u, d) == <<d, u>> \notin edges
Children(a) == {d \in Artifacts : <<a, d>> \in edges}
NoticeUnsettled(d) == notice[d] # {}
LastMadeFor(a, src) == {n \in DOMAIN versions[a] : versions[a][n] = src /\ n = Len(versions[a])}

\* add_dependency's tests: both rows are there, and upstream is not reachable
\* from downstream.
BothExist(u, d) == {u, d} \subseteq exists
KeepsAcyclic(u, d) == ~Reaches(d, u)

\* _propagate_stale's walk from the direct dependents of a.
Descendants(a) == {d \in Artifacts : \E c \in Artifacts : <<a, c>> \in edges /\ Reaches(c, d)}

\* Its query for a pending stale event of d.
NoticePending(d) == notice[d] \cap {"waiting", "returned"} # {}

\* The versions of a: their numbers, those made for source event src, and all
\* of them with one more.
Numbers(a) == DOMAIN versions[a]
MadeFor(a, src) == {n \in DOMAIN versions[a] : versions[a][n] = src}
WithVersion(a, src) == Append(versions[a], src)

create(a) ==
  /\ a \notin exists
  /\ exists' = exists \cup {a}
  /\ UNCHANGED <<edges, versions, selected, stale, notice, behind, unnoticed>>

add_dependency(u, d) ==
  /\ u # d
  /\ BothExist(u, d)
  /\ KeepsAcyclic(u, d)
  /\ edges' = edges \cup {<<u, d>>}
  /\ UNCHANGED <<exists, versions, selected, stale, notice, behind, unnoticed>>

\* The transaction of select_version: the new selection and, when it differs
\* from the one read before the transaction, the walk through the descendants.
\* The histories record what lies below a by the definition of reachability.
SelectOver(a, n, old) ==
  LET below == IF old = n THEN {} ELSE Descendants(a)
      changed == {d \in Artifacts : selected[a] # n /\ d # a /\ Reaches(a, d)} IN
  /\ selected' = [selected EXCEPT ![a] = n]
  /\ stale' = stale \cup below
  /\ notice' = [d \in Artifacts |->
                  IF d \in below /\ ~NoticePending(d)
                    THEN notice[d] \cup {"waiting"} ELSE notice[d]]
  /\ behind' = behind \cup changed
  /\ unnoticed' = unnoticed \cup changed

\* Under the lock of the Store nothing comes between the two.
Select(a, n) == SelectOver(a, n, selected[a])
NoSelection == UNCHANGED <<selected, stale, notice, behind, unnoticed>>

\* select_version; expected is the selection the caller saw, 0 for none given.
select_version(a, n, expected) ==
  /\ a \in exists
  /\ n \in Numbers(a)
  /\ expected \in {0, selected[a]}
  /\ Select(a, n)
  /\ UNCHANGED <<exists, edges, versions>>

\* The bounds leave room for one more version of a.
Room(a) == /\ Len(versions[a]) < MaxVersions
           /\ Cardinality({v \in Artifacts \X (1..MaxVersions) : v[2] \in DOMAIN versions[v[1]]}) < MaxTotal

\* put_version: the version already made for the source event, or a new one.
put_version(a, src, select) ==
  /\ a \in exists
  /\ \/ \E n \in MadeFor(a, src) :
          /\ src # NoSource
          /\ IF select THEN Select(a, n) ELSE NoSelection
          /\ UNCHANGED versions
     \/ /\ src = NoSource \/ MadeFor(a, src) = {}
        /\ Room(a)
        /\ versions' = [versions EXCEPT ![a] = WithVersion(a, src)]
        /\ IF select THEN Select(a, Len(versions[a]) + 1) ELSE NoSelection
  /\ UNCHANGED <<exists, edges>>

set_status(a, isStale) ==
  /\ a \in exists
  /\ stale' = IF isStale THEN stale \cup {a} ELSE stale \ {a}
  /\ behind' = behind \ {a}
  /\ UNCHANGED <<exists, edges, versions, selected, notice, unnoticed>>
-----------------------------------------------------------------------------
(* What happens to the stale events in the inbox. *)

\* A claim takes the oldest one, unless one is being handled.
Handed(a) == IF "returned" \in notice[a] THEN "returned" ELSE "waiting"
ClaimNotice(a) ==
  /\ "handled" \notin notice[a]
  /\ Handed(a) \in notice[a]
  /\ notice' = [notice EXCEPT ![a] = (@ \ {Handed(a)}) \cup {"handled"}]
  /\ unnoticed' = unnoticed \ {a}
  /\ UNCHANGED <<exists, edges, versions, selected, stale, behind>>

\* Its lease runs out.
ReturnNotice(a) ==
  /\ "handled" \in notice[a]
  /\ notice' = [notice EXCEPT ![a] = (@ \ {"handled"}) \cup {"returned"}]
  /\ UNCHANGED <<exists, edges, versions, selected, stale, behind, unnoticed>>

\* The worker acks or fails it; with LateAnswers also after the lease ran out.
SettleNotice(a) ==
  /\ \E state \in {"handled"} \cup (IF LateAnswers THEN {"returned"} ELSE {}) :
       /\ state \in notice[a]
       /\ notice' = [notice EXCEPT ![a] = @ \ {state}]
  /\ UNCHANGED <<exists, edges, versions, selected, stale, behind, unnoticed>>

GraphNext ==
  \/ \E a \in Artifacts : create(a)
  \/ \E u, d \in Artifacts : add_dependency(u, d)
  \/ \E a \in Artifacts, n \in 1..MaxVersions, expected \in 0..MaxVersions :
       select_version(a, n, expected)
  \/ \E a \in Artifacts, src \in Sources \cup {NoSource}, select \in BOOLEAN :
       put_version(a, src, select)
  \/ \E a \in Artifacts, isStale \in BOOLEAN : set_status(a, isStale)
  \/ \E a \in Artifacts : ClaimNotice(a)
  \/ \E a \in Artifacts : ReturnNotice(a)
  \/ \E a \in Artifacts : SettleNotice(a)

GraphSpec == GraphInit /\ [][GraphNext]_graphVars
-----------------------------------------------------------------------------
\* Every table holds values of its column types.
GraphTypeOK ==
  /\ exists \subseteq Artifacts
  /\ edges \subseteq exists \X exists
  /\ versions \in [Artifacts -> Seq(Sources \cup {NoSource})]
  /\ \A a \in Artifacts : Len(versions[a]) <= MaxVersions
  /\ selected \in [Artifacts -> 0..MaxVersions]
  /\ stale \subseteq Artifacts
  /\ notice \in [Artifacts -> SUBSET NoticeStates]
  /\ behind \subseteq Artifacts
  /\ unnoticed \subseteq Artifacts

\* No sequence of accepted dependencies closes a cycle.
Acyclic == \A e \in edges : ~Reaches(e[2], e[1])

\* A redelivered event, a retried job or a second delivery of a webhook never
\* makes a second version of an artifact for the same source event.
OneVersionPerSource ==
  \A a \in Artifacts : \A m, n \in DOMAIN versions[a] :
     versions[a][m] = versions[a][n] /\ versions[a][m] # NoSource => m = n

\* What is selected is a version of the artifact.
SelectedExists == \A a \in Artifacts : selected[a] \in 0..Len(versions[a])

\* An artifact below a changed selection stays marked stale until somebody
\* sets its status on purpose, however far below it is and whatever is
\* selected, added or linked meanwhile.
StaleUntilReviewed == behind \subseteq stale

\* Whenever something above an artifact changed, a stale event about it is
\* still to be handed out: suppressing duplicate stale events loses none.
NoLostNotice == \A a \in unnoticed : NoticePending(a)

\* Versions are immutable: they are only added, at the end.
VersionsKept ==
  [][\A a \in Artifacts :
       /\ Len(versions'[a]) >= Len(versions[a])
       /\ \A n \in DOMAIN versions[a] : versions'[a][n] = versions[a][n]]_graphVars
=============================================================================
