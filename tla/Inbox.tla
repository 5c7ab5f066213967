------------------------------- MODULE Inbox -------------------------------
(***************************************************************************)
(* The event inbox of surface/store.py: the tables events and              *)
(* artifact_locks and the methods of Store that change them, each method   *)
(* one step.  That is what callers of one Store instance see: every public *)
(* method holds the instance's RLock for its whole duration.               *)
(* InboxConnections takes the methods apart for several instances.         *)
(*                                                                         *)
(* Callers are arbitrary: any caller may ack or fail any event at any      *)
(* time, as "surface inbox ack" may, whether or not it holds the lease.    *)
(*                                                                         *)
(* Event numbers follow created_at.  A lease is the number of ticks left   *)
(* until lease_until < now, so that 0 is an expired lease (or a NULL one,  *)
(* told apart by the status).  The columns that are written and never      *)
(* read by a guard (claimed_by, claimed_at, acked_at, error, the owner of  *)
(* a lock) are left out.                                                   *)
(***************************************************************************)
EXTENDS Integers, FiniteSets

CONSTANTS Artifacts, NoArtifact,
          Keys,          \* dedupe keys callers compute
          NoKey,         \* an event without a dedupe key
          LeaseTicks,    \* lease_seconds in ticks of the model's clock
          MaxEvents,     \* bound: events accepted
          MaxClaims      \* bound: claims of one event

ASSUME InboxAssumption == /\ NoArtifact \notin Artifacts
                          /\ NoKey \notin Keys
                          /\ LeaseTicks \in Nat \ {0}
                          /\ MaxEvents \in Nat
                          /\ MaxClaims \in Nat

VARIABLES status,     \* events.status, "none" before the INSERT
          artifact,   \* events.artifact_id
          key,        \* events.dedupe_key
          lease,      \* events.lease_until, as ticks left
          attempts,   \* events.attempt_count
          lock        \* artifact_locks: lock[a] = [event, left]

inboxVars == <<status, artifact, key, lease, attempts, lock>>

EventIds == 1..MaxEvents
Active   == {"pending", "processing"}
Settled  == {"acked", "failed"}
Statuses == {"none"} \cup Active \cup Settled

NoLock == [event |-> 0, left |-> 0]
Locks  == [event : 0..MaxEvents, left : 0..LeaseTicks]

InboxInit ==
  /\ status = [e \in EventIds |-> "none"]
  /\ artifact = [e \in EventIds |-> NoArtifact]
  /\ key = [e \in EventIds |-> NoKey]
  /\ lease = [e \in EventIds |-> 0]
  /\ attempts = [e \in EventIds |-> 0]
  /\ lock = [a \in Artifacts |-> NoLock]

-----------------------------------------------------------------------------
\* Broken variants of the definitions below, for the mutation checks: a reclaim
\* that forgets the status, a scan that forgets the locks or runs newest first,
\* an ack that leaves the lock.
ExpiredWhateverStatus == {e \in EventIds : status[e] # "none" /\ lease[e] = 0}
NeverBlocked(e) == FALSE
NewestPending(e) == /\ status[e] = "pending"
                    /\ \A d \in EventIds : d > e => status[d] # "pending"
StillLocked(e) == lock

\* Is there a pending or processing event with this dedupe key?
Duplicate(k) == /\ k # NoKey
                /\ \E e \in EventIds : key[e] = k /\ status[e] \in Active

\* The number the next INSERT gets.
IsNext(e) == \A d \in EventIds : (status[d] = "none") <=> (d >= e)

\* enqueue_event: a duplicate is answered with the existing row (no change).
Enqueue(e, a, k) ==
  /\ IsNext(e)
  /\ ~Duplicate(k)
  /\ status' = [status EXCEPT ![e] = "pending"]
  /\ artifact' = [artifact EXCEPT ![e] = a]
  /\ key' = [key EXCEPT ![e] = k]
  /\ UNCHANGED <<lease, attempts, lock>>

\* Processing events whose lease ran out.
Expired == {e \in EventIds : status[e] = "processing" /\ lease[e] = 0}

\* The tables after the expired leases were taken back.
ReclaimedStatus == [e \in EventIds |-> IF e \in Expired THEN "pending" ELSE status[e]]
ReclaimedLock ==
  [a \in Artifacts |-> IF lock[a].event \in Expired \/ lock[a].left = 0
                         THEN NoLock ELSE lock[a]]

\* reclaim_expired_leases: recovery commands and every board refresh.
ReclaimExpired ==
  /\ status' = ReclaimedStatus
  /\ lock' = ReclaimedLock
  /\ UNCHANGED <<artifact, key, lease, attempts>>

\* A live lock of another turn on the artifact of e.
Blocked(e) == artifact[e] \in Artifacts /\ ReclaimedLock[artifact[e]].left > 0

\* What the scan of claim_next_event stops at: the oldest pending event that
\* is not blocked.
Claimable(e) == ReclaimedStatus[e] = "pending" /\ ~Blocked(e)
FirstClaimable(e) == /\ Claimable(e)
                     /\ \A d \in EventIds : d < e => ~Claimable(d)

\* claim_next_event when it returns an event: the reclaim, then the claim and
\* the artifact lock.  (When it returns None it is ReclaimExpired.)
Claim(e) ==
  /\ FirstClaimable(e)
  /\ attempts[e] < MaxClaims
  /\ status' = [ReclaimedStatus EXCEPT ![e] = "processing"]
  /\ lease' = [lease EXCEPT ![e] = LeaseTicks]
  /\ attempts' = [attempts EXCEPT ![e] = @ + 1]
  /\ lock' = [a \in Artifacts |->
                IF a = artifact[e] THEN [event |-> e, left |-> LeaseTicks]
                                   ELSE ReclaimedLock[a]]
  /\ UNCHANGED <<artifact, key>>

\* The locks left when those of event e are deleted.
Unlocked(e) == [a \in Artifacts |-> IF lock[a].event = e THEN NoLock ELSE lock[a]]

\* ack_event and fail_event: by id alone, whatever the event's status.
Ack(e) ==
  /\ status[e] # "none"
  /\ status' = [status EXCEPT ![e] = "acked"]
  /\ lease' = [lease EXCEPT ![e] = 0]
  /\ lock' = Unlocked(e)
  /\ UNCHANGED <<artifact, key, attempts>>

Fail(e) ==
  /\ status[e] # "none"
  /\ status' = [status EXCEPT ![e] = "failed"]
  /\ lease' = [lease EXCEPT ![e] = 0]
  /\ lock' = Unlocked(e)
  /\ UNCHANGED <<artifact, key, attempts>>

\* Time passes: every running lease gets shorter.
LeaseRunning == \/ \E e \in EventIds : lease[e] > 0
                \/ \E a \in Artifacts : lock[a].left > 0
Shorter(n) == IF n > 0 THEN n - 1 ELSE 0

TickLeases ==
  /\ lease' = [e \in EventIds |-> Shorter(lease[e])]
  /\ lock' = [a \in Artifacts |-> [lock[a] EXCEPT !.left = Shorter(@)]]
  /\ UNCHANGED <<status, artifact, key, attempts>>

Tick == LeaseRunning /\ TickLeases

InboxNext ==
  \/ \E e \in EventIds, a \in Artifacts \cup {NoArtifact}, k \in Keys \cup {NoKey} :
       Enqueue(e, a, k)
  \/ ReclaimExpired
  \/ \E e \in EventIds : Claim(e)
  \/ \E e \in EventIds : Ack(e)
  \/ \E e \in EventIds : Fail(e)
  \/ Tick

InboxSpec == InboxInit /\ [][InboxNext]_inboxVars
-----------------------------------------------------------------------------
\* Every table holds values of its column types.
InboxTypeOK ==
  /\ status \in [EventIds -> Statuses]
  /\ artifact \in [EventIds -> Artifacts \cup {NoArtifact}]
  /\ key \in [EventIds -> Keys \cup {NoKey}]
  /\ lease \in [EventIds -> 0..LeaseTicks]
  /\ attempts \in [EventIds -> 0..MaxClaims]
  /\ lock \in [Artifacts -> Locks]

\* An artifact is locked exactly while an event of it is being processed, by
\* that event and until the same moment: a lock never outlives the claim that
\* took it (the artifact would be blocked) nor ends before it (a second turn
\* could start).
LocksFollowClaims ==
  \A a \in Artifacts, e \in EventIds :
     (status[e] = "processing" /\ artifact[e] = a)
        <=> lock[a].event = e
LocksLastAsLongAsClaims ==
  \A a \in Artifacts : /\ lock[a].event = 0 => lock[a] = NoLock
                       /\ lock[a].event # 0 => lock[a].left = lease[lock[a].event]
LocksMatchClaims == LocksFollowClaims /\ LocksLastAsLongAsClaims

\* Two events of one artifact are never being processed at once, although
\* acks, failures and expiries arrive in any order and from anyone.
OneTurnPerArtifact ==
  \A d, e \in EventIds :
     (/\ status[d] = "processing" /\ status[e] = "processing"
      /\ artifact[d] = artifact[e] /\ artifact[d] \in Artifacts) => d = e

\* An event is handed out only when everything older about its artifact is
\* settled: neither a retry after an expired lease nor a late ack lets a later
\* edit overtake an earlier one.
OldestFirst ==
  \A d, e \in EventIds :
     (/\ d < e /\ artifact[d] = artifact[e] /\ artifact[e] \in Artifacts
      /\ status[e] = "processing") => status[d] \in Settled

\* A dedupe key has at most one unsettled event, also when that event is
\* claimed, times out and is claimed again.
OneActivePerKey ==
  \A d, e \in EventIds :
     (/\ key[d] = key[e] /\ key[d] # NoKey
      /\ status[d] \in Active /\ status[e] \in Active) => d = e

\* Once an event is settled no claim, reclaim or tick brings it back to the
\* inbox: its effects are never applied again.
SettledForGood ==
  [][\A e \in EventIds : status[e] \in Settled => status'[e] \in Settled]_inboxVars

\* The inbox implements the abstract queue.
Queue == INSTANCE ArtifactQueue WITH status <- status, artifact <- artifact
ImplementsQueue == Queue!QueueSpec
=============================================================================
