-------------------------- MODULE InboxConnections --------------------------
(***************************************************************************)
(* The inbox of surface/store.py when several Store instances share the    *)
(* database file: the supervisor's, the board's (cli.py opens one of its   *)
(* own for the board thread) and that of every "surface inbox" command.    *)
(* The RLock of a Store excludes only the threads of that instance, so     *)
(* between instances the unit of interleaving is what sqlite3 runs as one: *)
(* a SELECT on its own, or the statements from the first write to the      *)
(* commit.  A method is a sequence of such steps and pc says where each    *)
(* connection is.                                                          *)
(*                                                                         *)
(* Each method reads the clock once, when it starts; lease_until is an     *)
(* absolute time here because methods compare it with their own old "now". *)
(***************************************************************************)
EXTENDS Integers, FiniteSets

CONSTANTS Artifacts, NoArtifact, Keys, NoKey,
          Workers,      \* connections that claim, ack and fail events
          Boards,       \* connections that enqueue events and refresh views
          LeaseTicks,
          MaxEvents,    \* bound: events accepted
          MaxTime       \* bound: the clock

ASSUME ConnectionsAssumption == /\ NoArtifact \notin Artifacts
                                /\ NoKey \notin Keys
                                /\ LeaseTicks \in Nat \ {0}
                                /\ MaxEvents \in Nat /\ MaxTime \in Nat
                                /\ Workers \cap Boards = {}

VARIABLES status, artifact, key, lease, lock,   \* the tables, as in Inbox
          now,
          pc,     \* pc[c]: the next statement of connection c
          local,  \* local[c]: what the method c is running has read
          held,   \* held[w]: events w claimed and has not answered yet
          robbed  \* bookkeeping of the properties: events in processing whose
                  \* lock a write that came too late has taken away

tables == <<status, artifact, key, lease, lock>>
vars == <<tables, now, pc, local, held, robbed>>

Conns    == Workers \cup Boards
EventIds == 1..MaxEvents
Active   == {"pending", "processing"}
Settled  == {"acked", "failed"}
NoLease  == -1
NoLock   == [event |-> 0, until |-> NoLease]
Steps    == {"idle", "date", "insert", "reclaim", "scan", "look", "take"}

\* now: the method's clock reading; ids: the rows of its last SELECT that are left
\* to work on; pending: those it last found pending; locks: what its lock queries
\* found; event, artifact, key: the event that enqueue_event makes.
NoLocals == [now |-> 0, ids |-> {}, pending |-> {}, locks |-> {},
             event |-> 0, artifact |-> NoArtifact, key |-> NoKey]

Init ==
  /\ status = [e \in EventIds |-> "none"]
  /\ artifact = [e \in EventIds |-> NoArtifact]
  /\ key = [e \in EventIds |-> NoKey]
  /\ lease = [e \in EventIds |-> NoLease]
  /\ lock = [a \in Artifacts |-> NoLock]
  /\ now = 0
  /\ pc = [c \in Conns |-> "idle"]
  /\ local = [c \in Conns |-> NoLocals]
  /\ held = [w \in Workers |-> {}]
  /\ robbed = {}

Goto(c, step, locals) == /\ pc' = [pc EXCEPT ![c] = step]
                         /\ local' = [local EXCEPT ![c] = locals]
At(c, step) == pc[c] = step
-----------------------------------------------------------------------------
(* What a connection has read, against what the tables hold by now.  Each is  *)
(* a comparison with an earlier reading: no statement of the code makes it.  *)
Overdue(t) == {e \in EventIds :
                 status[e] = "processing" /\ lease[e] # NoLease /\ lease[e] < t}
Newest(e, S) == e \in S /\ \A d \in S : e >= d   \* a broken variant, for the mutation checks
Oldest(e, S) == e \in S /\ \A d \in S : e <= d
Taking(c, e) == At(c, "take") /\ Oldest(e, local[c].ids) /\ artifact[e] \in Artifacts

\* Other rows are overdue by its clock than those it read and will reset.
OverdueChanged(c) == At(c, "reclaim") /\ local[c].ids # Overdue(local[c].now)

\* Since this scan looked at the lock of the artifact, it was taken or given up.
LockChanged(c) ==
  \E e \in EventIds : /\ Taking(c, e)
                      /\ \E l \in local[c].locks : /\ l.artifact = artifact[e]
                                                   /\ l.row # lock[artifact[e]]

\* An older event of the artifact is pending that was not when this scan read it.
OlderCame(c) ==
  \E e \in EventIds : /\ Taking(c, e)
                      /\ \E d \in EventIds : /\ d < e /\ artifact[d] = artifact[e]
                                             /\ status[d] = "pending"
                                             /\ d \notin local[c].pending

\* The method reset every overdue event; since then one of the artifact was claimed
\* with a clock so old that its lease had run out when it was written.
ClaimedOverdue(c) ==
  \E e \in EventIds : /\ Taking(c, e)
                      /\ \E d \in Overdue(local[c].now) : artifact[d] = artifact[e]

\* Since this event was dated, one of its artifact with a later date came in.
Overtaken(c) == /\ At(c, "insert") /\ local[c].artifact \in Artifacts
                /\ \E d \in EventIds : /\ d > local[c].event
                                       /\ artifact[d] = local[c].artifact
                                       /\ status[d] # "none"

LostItsReading(c) == LockChanged(c) \/ OlderCame(c) \/ ClaimedOverdue(c)

-----------------------------------------------------------------------------
(* enqueue_event: look for a duplicate, take the date, then insert.  Events  *)
(* are numbered by date; a date whose INSERT never came is used again.       *)
Duplicate(k) == /\ k # NoKey
                /\ \E e \in EventIds : key[e] = k /\ status[e] \in Active

Dated == {e \in EventIds : status[e] # "none" \/ \E c \in Conns : local[c].event = e}
IsNext(e) == /\ \A d \in Dated : d < e
             /\ \A d \in EventIds : d < e => \E f \in Dated : d <= f

EnqueueCheck(c, a, k) ==
  /\ At(c, "idle")
  /\ \E e \in EventIds : IsNext(e)   \* bound
  /\ ~Duplicate(k)
  /\ Goto(c, "date", [NoLocals EXCEPT !.artifact = a, !.key = k])
  /\ UNCHANGED <<tables, now, held, robbed>>

EnqueueDate(c, e) ==
  /\ At(c, "date") /\ IsNext(e)
  /\ Goto(c, "insert", [local[c] EXCEPT !.event = e])
  /\ UNCHANGED <<tables, now, held, robbed>>

EnqueueInsert(c, e) ==
  /\ At(c, "insert") /\ e = local[c].event
  /\ status' = [status EXCEPT ![e] = "pending"]
  /\ artifact' = [artifact EXCEPT ![e] = local[c].artifact]
  /\ key' = [key EXCEPT ![e] = local[c].key]
  /\ Goto(c, "idle", NoLocals)
  /\ UNCHANGED <<lease, lock, now, held, robbed>>

-----------------------------------------------------------------------------
(* The reclaim both reclaim_expired_leases and claim_next_event begin with. *)
SelectOverdue(c) ==
  /\ At(c, "idle")
  /\ Goto(c, "reclaim", [NoLocals EXCEPT !.now = now, !.ids = Overdue(now)])
  /\ UNCHANGED <<tables, now, held, robbed>>

\* Broken variants of helpers, for the mutation checks: a lock that nobody asks
\* for, events taken newest first.
NeverAsked(a, t) == FALSE

\* DELETE FROM artifact_locks WHERE lease_until < now
LockOver(a, t) == lock[a].until < t

\* The UPDATE is by id alone: it resets the rows the SELECT returned, whatever
\* has happened to them since.
WriteReclaim(c) ==
  LET ids == local[c].ids IN
  /\ At(c, "reclaim")
  /\ status' = [e \in EventIds |-> IF e \in ids THEN "pending" ELSE status[e]]
  /\ lease' = [e \in EventIds |-> IF e \in ids THEN NoLease ELSE lease[e]]
  /\ lock' = [a \in Artifacts |->
                IF lock[a].event \in ids \/ LockOver(a, local[c].now)
                  THEN NoLock ELSE lock[a]]
  /\ robbed' = {e \in EventIds :
                  /\ e \notin ids
                  /\ \/ e \in robbed
                     \/ OverdueChanged(c) /\ e \in Overdue(local[c].now)}
  /\ Goto(c, IF c \in Workers THEN "scan" ELSE "idle",
             IF c \in Workers THEN [NoLocals EXCEPT !.now = local[c].now] ELSE NoLocals)
  /\ UNCHANGED <<artifact, key, now, held>>

-----------------------------------------------------------------------------
(* claim_next_event, step 3: the pending events, oldest first. *)
SelectPending(c) ==
  /\ At(c, "scan")
  /\ LET found == {e \in EventIds : status[e] = "pending"}
     IN  Goto(c, "look", [local[c] EXCEPT !.ids = found, !.pending = found])
  /\ UNCHANGED <<tables, now, held, robbed>>

LockedAt(a, t) == a \in Artifacts /\ lock[a] # NoLock /\ lock[a].until >= t

\* The lock query for the next candidate, or the end of the scan.
LockReading(e) == {[artifact |-> a, row |-> lock[a]] : a \in Artifacts \cap {artifact[e]}}

LookAt(c) ==
  /\ At(c, "look")
  /\ \/ /\ local[c].ids = {}
        /\ Goto(c, "idle", NoLocals)
     \/ \E e \in EventIds :
          /\ Oldest(e, local[c].ids)
          /\ LET seen == [local[c] EXCEPT !.locks = @ \cup LockReading(e)]
             IN  IF LockedAt(artifact[e], local[c].now)
                   THEN Goto(c, "look", [seen EXCEPT !.ids = @ \ {e}])
                   ELSE Goto(c, "take", seen)
  /\ UNCHANGED <<tables, now, held, robbed>>

\* The claiming transaction: the UPDATE requires status = 'pending'.
StillPending(e) == status[e] = "pending"
LeaseUntil(t) == t + LeaseTicks

Take(c, e) ==
  LET until == LeaseUntil(local[c].now) IN
  /\ At(c, "take") /\ Oldest(e, local[c].ids)
  /\ \/ /\ StillPending(e)
        /\ status' = [status EXCEPT ![e] = "processing"]
        /\ lease' = [lease EXCEPT ![e] = until]
        /\ lock' = [a \in Artifacts |->
                      IF a = artifact[e] THEN [event |-> e, until |-> until] ELSE lock[a]]
        /\ held' = [held EXCEPT ![c] = @ \cup {e}]
        /\ robbed' = (robbed \cup IF LostItsReading(c) THEN {lock[artifact[e]].event}
                                                      ELSE {}) \ {0, e}
        /\ Goto(c, "idle", NoLocals)
     \/ /\ ~StillPending(e)
        /\ Goto(c, "look", [local[c] EXCEPT !.ids = @ \ {e}, !.pending = @ \ {e}])
        /\ UNCHANGED <<status, lease, lock, held, robbed>>
  /\ UNCHANGED <<artifact, key, now>>

-----------------------------------------------------------------------------
(* A worker answers an event it holds: ack_event and fail_event, by id. *)
Answer(w, e, outcome) ==
  /\ At(w, "idle")
  /\ e \in held[w]
  /\ status' = [status EXCEPT ![e] = outcome]
  /\ lease' = [lease EXCEPT ![e] = NoLease]
  /\ lock' = [a \in Artifacts |-> IF lock[a].event = e THEN NoLock ELSE lock[a]]
  /\ held' = [held EXCEPT ![w] = @ \ {e}]
  /\ robbed' = robbed \ {e}
  /\ UNCHANGED <<artifact, key, now, pc, local>>

\* A process dies: its turns and its running method are gone, and sqlite3
\* rolls back whatever it had not committed.
Crash(c) ==
  /\ ~At(c, "idle") \/ (c \in Workers /\ held[c] # {})
  /\ held' = [w \in Workers |-> IF w = c THEN {} ELSE held[w]]
  /\ Goto(c, "idle", NoLocals)
  /\ UNCHANGED <<tables, now, robbed>>

Tick == /\ now < MaxTime
        /\ now' = now + 1
        /\ UNCHANGED <<tables, pc, local, held, robbed>>

Next ==
  \/ \E c \in Conns, a \in Artifacts \cup {NoArtifact}, k \in Keys \cup {NoKey} :
       EnqueueCheck(c, a, k)
  \/ \E c \in Conns, e \in EventIds : EnqueueDate(c, e)
  \/ \E c \in Conns, e \in EventIds : EnqueueInsert(c, e)
  \/ \E c \in Conns : SelectOverdue(c)
  \/ \E c \in Conns : WriteReclaim(c)
  \/ \E w \in Workers : SelectPending(w)
  \/ \E w \in Workers : LookAt(w)
  \/ \E w \in Workers, e \in EventIds : Take(w, e)
  \/ \E w \in Workers, e \in EventIds, outcome \in Settled : Answer(w, e, outcome)
  \/ \E c \in Conns : Crash(c)
  \/ Tick

Spec == Init /\ [][Next]_vars
-----------------------------------------------------------------------------
LockRows == [event : 0..MaxEvents, until : NoLease..(MaxTime + LeaseTicks)]
Locals(t) == [now : 0..t, ids : SUBSET EventIds, pending : SUBSET EventIds,
              locks : SUBSET [artifact : Artifacts, row : LockRows],
              event : 0..MaxEvents,
              artifact : Artifacts \cup {NoArtifact}, key : Keys \cup {NoKey}]

\* The tables, the clock and the locals of every connection have values of their
\* types, and no method has read a clock that is ahead.
ConnectionsTypeOK ==
  /\ status \in [EventIds -> {"none"} \cup Active \cup Settled]
  /\ artifact \in [EventIds -> Artifacts \cup {NoArtifact}]
  /\ key \in [EventIds -> Keys \cup {NoKey}]
  /\ lease \in [EventIds -> NoLease..(MaxTime + LeaseTicks)]
  /\ lock \in [Artifacts -> LockRows]
  /\ now \in 0..MaxTime
  /\ pc \in [Conns -> Steps]
  /\ local \in [Conns -> Locals(now)]
  /\ held \in [Workers -> SUBSET EventIds]
  /\ robbed \subseteq EventIds

\* No two events of one artifact are in processing, whichever connections
\* claimed them.
OneTurnPerArtifact ==
  \A d, e \in EventIds :
     (/\ status[d] = "processing" /\ status[e] = "processing"
      /\ artifact[d] = artifact[e] /\ artifact[d] \in Artifacts) => d = e

\* A settled event is never handed out again.
SettledForGood ==
  [][\A e \in EventIds : status[e] \in Settled => status'[e] \in Settled]_vars

\* A lock goes away, or passes to another event, only when its event is settled or
\* its lease has run out: while it lasts, it protects the turn.  Two steps may take
\* it early, and no other: a reclaim whose overdue rows are no longer those it read
\* and a claim whose lock query would find another row by now.
StaleReclaim == \E c \in Conns : pc'[c] # pc[c] /\ OverdueChanged(c)
StaleClaim   == \E c \in Conns : pc'[c] # pc[c] /\ LockChanged(c)
LockHeldForLease ==
  [][\A a \in Artifacts :
       lock[a] # NoLock /\ lock'[a] # lock[a]
         => \/ lock[a].until < now
            \/ status'[lock[a].event] \in Settled
            \/ StaleReclaim \/ StaleClaim]_vars

\* The statements of several connections, with crashes between them and leases
\* that run out during a method, implement the abstract queue of docs/SPEC.md
\* section 15 in every step but two kinds: one of a connection that acts on a
\* reading which has changed since, and a claim on an artifact of which an event is
\* in processing whose lock an earlier step of the first kind took away.
ActsOnOldReading ==
  \E c \in Conns : /\ pc'[c] # pc[c]
                   /\ OverdueChanged(c) \/ LostItsReading(c) \/ Overtaken(c)
TurnWasRobbed ==
  \E c \in Conns, e \in EventIds : /\ pc'[c] # pc[c] /\ Taking(c, e)
                                  /\ \E d \in robbed : artifact[d] = artifact[e]
Queue == INSTANCE ArtifactQueue WITH status <- status, artifact <- artifact
ImplementsQueue ==
  /\ Queue!QueueInit
  /\ [][Queue!QueueNext \/ ActsOnOldReading \/ TurnWasRobbed]_<<status, artifact>>
=============================================================================
