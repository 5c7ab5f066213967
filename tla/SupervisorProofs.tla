-------------------------- MODULE SupervisorProofs --------------------------
(***************************************************************************)
(* Proofs about Inbox and Supervisor.                                      *)
(*                                                                         *)
(* The inbox of one Store is correct for any number of events, artifacts   *)
(* and dedupe keys and any lease: its invariants, by induction over its    *)
(* steps, and that it implements the abstract queue.                       *)
(*                                                                         *)
(* For every pool size, timeout below the lease and number of attempts,    *)
(* and any crashes, dead workers and interrupts, the supervisor uses the   *)
(* inbox as Inbox allows (so that all of the above holds under a           *)
(* supervisor), it acks only what is done, its workers work under a lease, *)
(* and deliveries are bounded.                                             *)
(***************************************************************************)
EXTENDS Supervisor, TLAPS

-----------------------------------------------------------------------------
(* The inbox *)

\* Event numbers are given out one after the other.
NumberedInOrder ==
  \A d, e \in EventIds : d < e /\ status[e] # "none" => status[d] # "none"

\* The inductive invariant.  OneTurnPerArtifact is not a part of it, it
\* follows: two events of one artifact in processing would both be the event
\* of its one lock.
InboxInv == /\ InboxTypeOK
            /\ LocksMatchClaims
            /\ OldestFirst
            /\ OneActivePerKey
            /\ NumberedInOrder

-----------------------------------------------------------------------------
\* What each step needs to know of the helpers.

\* The tables after a reclaim have their types; a lock survives it only with
\* the claim that took it.
LEMMA ReclaimedTypes ==
  ASSUME InboxTypeOK
  PROVE  /\ ReclaimedStatus \in [EventIds -> Statuses]
         /\ ReclaimedLock \in [Artifacts -> Locks]
  BY InboxAssumption
  DEF InboxTypeOK, ReclaimedStatus, ReclaimedLock, Statuses, Active, Settled,
      Locks, NoLock

LEMMA ReclaimedMatch ==
  ASSUME InboxTypeOK, LocksMatchClaims
  PROVE  /\ \A a \in Artifacts, e \in EventIds :
              (ReclaimedStatus[e] = "processing" /\ artifact[e] = a)
                 <=> ReclaimedLock[a].event = e
         /\ \A a \in Artifacts :
              /\ ReclaimedLock[a].event = 0 => ReclaimedLock[a] = NoLock
              /\ ReclaimedLock[a].event # 0 =>
                    ReclaimedLock[a].left = lease[ReclaimedLock[a].event]
              /\ ReclaimedLock[a].left = 0 => ReclaimedLock[a] = NoLock
  <1>1. \A a \in Artifacts : lock[a] \in Locks
    BY DEF InboxTypeOK
  <1>2. \A a \in Artifacts :
          lock[a].event # 0 => /\ lock[a].event \in EventIds
                               /\ status[lock[a].event] = "processing"
                               /\ lock[a].left = lease[lock[a].event]
    BY <1>1 DEF LocksMatchClaims, LocksFollowClaims, LocksLastAsLongAsClaims,
                Locks, EventIds
  <1>3. \A a \in Artifacts :
          ReclaimedLock[a] = IF lock[a].left = 0 THEN NoLock ELSE lock[a]
    BY <1>1, <1>2 DEF ReclaimedLock, Expired, LocksMatchClaims,
                      LocksLastAsLongAsClaims, Locks, EventIds, NoLock
  <1>4. ASSUME NEW a \in Artifacts, NEW e \in EventIds
        PROVE  (ReclaimedStatus[e] = "processing" /\ artifact[e] = a)
                 <=> ReclaimedLock[a].event = e
    <2>1. ReclaimedStatus[e] = "processing"
            <=> status[e] = "processing" /\ lease[e] # 0
      BY DEF ReclaimedStatus, Expired
    <2>2. (status[e] = "processing" /\ artifact[e] = a) <=> lock[a].event = e
      BY DEF LocksMatchClaims, LocksFollowClaims
    <2>3. lock[a].event = e => lock[a].left = lease[e]
      BY <1>2 DEF EventIds
    <2>4. ReclaimedLock[a].event = e <=> lock[a].event = e /\ lock[a].left # 0
      BY <1>1, <1>3 DEF NoLock, EventIds
    <2> QED BY <2>1, <2>2, <2>3, <2>4
  <1>5. ASSUME NEW a \in Artifacts
        PROVE  /\ ReclaimedLock[a].event = 0 => ReclaimedLock[a] = NoLock
               /\ ReclaimedLock[a].event # 0 =>
                    ReclaimedLock[a].left = lease[ReclaimedLock[a].event]
               /\ ReclaimedLock[a].left = 0 => ReclaimedLock[a] = NoLock
    BY <1>2, <1>3 DEF NoLock, LocksMatchClaims, LocksLastAsLongAsClaims
  <1> QED BY <1>4, <1>5

\* A reclaim settles nothing and unsettles nothing, and what it leaves in
\* processing was there before.
LEMMA ReclaimedStatusFacts ==
  ASSUME InboxTypeOK
  PROVE  \A e \in EventIds :
           /\ ReclaimedStatus[e] \in Settled <=> status[e] \in Settled
           /\ ReclaimedStatus[e] \in Active <=> status[e] \in Active
           /\ ReclaimedStatus[e] = "none" <=> status[e] = "none"
           /\ ReclaimedStatus[e] = "processing" => status[e] = "processing"
           /\ ReclaimedStatus[e] = "pending" => status[e] \in Active
  BY DEF InboxTypeOK, ReclaimedStatus, Expired, Statuses, Active, Settled

\* Settling e deletes exactly the lock its claim took.
LEMMA UnlockedMatch ==
  ASSUME InboxTypeOK, LocksMatchClaims, NEW e \in EventIds
  PROVE  /\ Unlocked(e) \in [Artifacts -> Locks]
         /\ \A a \in Artifacts :
              /\ Unlocked(e)[a].event # e
              /\ \A d \in EventIds : d # e =>
                   (Unlocked(e)[a].event = d <=> lock[a].event = d)
              /\ Unlocked(e)[a].event # 0 => Unlocked(e)[a] = lock[a]
              /\ Unlocked(e)[a].event = 0 => Unlocked(e)[a] = NoLock
  BY InboxAssumption
  DEF InboxTypeOK, Unlocked, Locks, NoLock, EventIds, LocksMatchClaims,
      LocksLastAsLongAsClaims
-----------------------------------------------------------------------------
\* The invariant holds of the empty tables.
LEMMA InitInv == InboxInit => InboxInv
  BY InboxAssumption
  DEF InboxInit, InboxInv, InboxTypeOK, LocksMatchClaims, LocksFollowClaims,
      LocksLastAsLongAsClaims, OldestFirst, OneActivePerKey, Statuses, Active,
      Settled, Locks, NoLock, EventIds, NumberedInOrder

LEMMA EnqueueInv ==
  ASSUME InboxInv, NEW e \in EventIds, NEW a \in Artifacts \cup {NoArtifact},
         NEW k \in Keys \cup {NoKey}, Enqueue(e, a, k)
  PROVE  InboxInv'
  <1> USE DEF Enqueue
  <1>1. InboxTypeOK'
    BY DEF InboxInv, InboxTypeOK, Statuses, Active
  <1>2. LocksMatchClaims'
    <2>1. \A b \in Artifacts : lock[b].event # e
      BY DEF InboxInv, LocksMatchClaims, LocksFollowClaims, IsNext, EventIds
    <2> QED
      BY <2>1 DEF InboxInv, InboxTypeOK, LocksMatchClaims, LocksFollowClaims,
                  LocksLastAsLongAsClaims
  <1>3. OldestFirst'
    BY DEF InboxInv, InboxTypeOK, OldestFirst, IsNext, EventIds
  <1>4. OneActivePerKey'
    BY DEF InboxInv, InboxTypeOK, OneActivePerKey, Duplicate
  <1>5. NumberedInOrder'
    BY DEF InboxInv, InboxTypeOK, NumberedInOrder, IsNext, EventIds
  <1> QED BY <1>1, <1>2, <1>3, <1>4, <1>5 DEF InboxInv

LEMMA ReclaimInv ==
  ASSUME InboxInv, ReclaimExpired
  PROVE  InboxInv'
  <1> USE DEF ReclaimExpired
  <1>1. InboxTypeOK'
    BY ReclaimedTypes DEF InboxInv, InboxTypeOK
  <1>2. LocksMatchClaims'
    BY ReclaimedMatch
    DEF InboxInv, LocksMatchClaims, LocksFollowClaims, LocksLastAsLongAsClaims
  <1>3. OldestFirst'
    BY ReclaimedStatusFacts DEF InboxInv, OldestFirst
  <1>4. OneActivePerKey'
    BY ReclaimedStatusFacts DEF InboxInv, OneActivePerKey
  <1>5. NumberedInOrder'
    BY ReclaimedStatusFacts DEF InboxInv, NumberedInOrder
  <1> QED BY <1>1, <1>2, <1>3, <1>4, <1>5 DEF InboxInv

\* What the scan establishes: the artifact of the claimed event has no lock,
\* and everything older about it is settled.
LEMMA ClaimedIsFree ==
  ASSUME InboxInv, NEW e \in EventIds, FirstClaimable(e)
  PROVE  /\ artifact[e] \in Artifacts => ReclaimedLock[artifact[e]] = NoLock
         /\ \A d \in EventIds :
              d < e /\ artifact[d] = artifact[e] /\ artifact[e] \in Artifacts
                => status[d] \in Settled
         /\ \A d \in EventIds :
              artifact[d] = artifact[e] /\ artifact[e] \in Artifacts
                => ReclaimedStatus[d] # "processing"
         /\ status[e] # "none"
  <1>1. ReclaimedStatus \in [EventIds -> Statuses] /\ ReclaimedLock \in [Artifacts -> Locks]
    BY ReclaimedTypes DEF InboxInv
  <1>2. ASSUME artifact[e] \in Artifacts
        PROVE  ReclaimedLock[artifact[e]] = NoLock
    BY <1>1, <1>2, ReclaimedMatch DEF InboxInv, FirstClaimable, Claimable, Blocked, Locks
  <1>3. ASSUME NEW d \in EventIds, artifact[d] = artifact[e], artifact[e] \in Artifacts
        PROVE  ReclaimedStatus[d] # "processing"
    <2>1. ReclaimedLock[artifact[d]].event = 0
      BY <1>2, <1>3 DEF NoLock
    <2> QED BY <1>3, <2>1, ReclaimedMatch DEF InboxInv, EventIds
  <1>4. status[e] # "none"
    BY ReclaimedStatusFacts DEF InboxInv, FirstClaimable, Claimable
  <1>5. ASSUME NEW d \in EventIds, d < e, artifact[d] = artifact[e],
               artifact[e] \in Artifacts
        PROVE  status[d] \in Settled
    <2>1. ReclaimedStatus[d] # "processing"
      BY <1>3, <1>5
    <2>2. ~Blocked(d)
      BY <1>2, <1>5 DEF Blocked, NoLock
    <2>3. ReclaimedStatus[d] # "pending"
      BY <1>5, <2>2 DEF FirstClaimable, Claimable
    <2>4. status[d] # "none"
      BY <1>4, <1>5 DEF InboxInv, NumberedInOrder
    <2> QED
      BY <2>1, <2>3, <2>4 DEF InboxInv, InboxTypeOK, ReclaimedStatus, Statuses,
                              Active
  <1> QED BY <1>2, <1>3, <1>4, <1>5

LEMMA ClaimInv ==
  ASSUME InboxInv, NEW e \in EventIds, Claim(e)
  PROVE  InboxInv'
  <1> USE DEF Claim
  <1>1. ReclaimedStatus \in [EventIds -> Statuses] /\ ReclaimedLock \in [Artifacts -> Locks]
    BY ReclaimedTypes DEF InboxInv
  <1>2. InboxTypeOK'
    BY <1>1, InboxAssumption
    DEF InboxInv, InboxTypeOK, Statuses, Active, Locks, EventIds
  <1>3. LocksMatchClaims'
    <2>1. ASSUME NEW a \in Artifacts, NEW d \in EventIds
          PROVE  (status'[d] = "processing" /\ artifact'[d] = a) <=> lock'[a].event = d
      <3>1. CASE a = artifact[e]
        BY <1>1, <3>1, ClaimedIsFree DEF InboxInv, EventIds
      <3>2. CASE a # artifact[e]
        <4>1. (ReclaimedStatus[d] = "processing" /\ artifact[d] = a)
                <=> ReclaimedLock[a].event = d
          BY ReclaimedMatch DEF InboxInv
        <4>2. d = e => ReclaimedLock[a].event # d
          BY <3>2, <4>1
        <4> QED BY <1>1, <3>2, <4>1, <4>2
      <3> QED BY <3>1, <3>2
    <2>2. ASSUME NEW a \in Artifacts
          PROVE  /\ lock'[a].event = 0 => lock'[a] = NoLock
                 /\ lock'[a].event # 0 => lock'[a].left = lease'[lock'[a].event]
      <3>1. CASE a = artifact[e]
        BY <3>1 DEF EventIds, InboxInv, InboxTypeOK
      <3>2. CASE a # artifact[e]
        <4>1. lock'[a] = ReclaimedLock[a]
          BY <3>2
        <4>2. ReclaimedLock[a].event # e
          BY <3>2, ReclaimedMatch DEF InboxInv
        <4> QED BY <4>1, <4>2, ReclaimedMatch DEF InboxInv, InboxTypeOK
      <3> QED BY <3>1, <3>2
    <2> QED BY <2>1, <2>2 DEF LocksMatchClaims, LocksFollowClaims, LocksLastAsLongAsClaims
  <1>4. OldestFirst'
    <2> SUFFICES ASSUME NEW c \in EventIds, NEW d \in EventIds, c < d,
                        artifact[c] = artifact[d], artifact[d] \in Artifacts,
                        status'[d] = "processing"
                 PROVE  status'[c] \in Settled
      BY DEF OldestFirst
    <2>1. status[c] \in Settled
      <3>1. CASE d = e
        BY <3>1, ClaimedIsFree
      <3>2. CASE d # e
        BY <1>1, <3>2, ReclaimedStatusFacts DEF InboxInv, OldestFirst
      <3> QED BY <3>1, <3>2
    <2>2. c # e
      <3>1. ReclaimedStatus[e] = "pending"
        BY DEF FirstClaimable, Claimable
      <3> QED BY <2>1, <3>1, ReclaimedStatusFacts DEF InboxInv, Active, Settled
    <2> QED BY <1>1, <2>1, <2>2, ReclaimedStatusFacts DEF InboxInv
  <1>5. ReclaimedStatus[e] = "pending"
    BY DEF FirstClaimable, Claimable
  <1>6. OneActivePerKey'
    <2>1. \A d \in EventIds : status'[d] \in Active => status[d] \in Active
      BY <1>1, <1>5, ReclaimedStatusFacts DEF InboxInv, Active
    <2> QED BY <2>1 DEF InboxInv, OneActivePerKey
  <1>7. NumberedInOrder'
    <2>1. \A d \in EventIds : status'[d] = "none" <=> status[d] = "none"
      BY <1>1, <1>5, ReclaimedStatusFacts DEF InboxInv
    <2> QED BY <2>1 DEF InboxInv, NumberedInOrder
  <1> QED BY <1>2, <1>3, <1>4, <1>6, <1>7 DEF InboxInv

\* Ack and Fail differ in the outcome they record.
LEMMA SettleInv ==
  ASSUME InboxInv, NEW e \in EventIds, Ack(e) \/ Fail(e)
  PROVE  InboxInv'
  <1> PICK outcome \in Settled : status' = [status EXCEPT ![e] = outcome]
    BY DEF Ack, Fail, Settled
  <1> /\ status[e] # "none"
      /\ lease' = [lease EXCEPT ![e] = 0]
      /\ lock' = Unlocked(e)
      /\ UNCHANGED <<artifact, key, attempts>>
    BY DEF Ack, Fail
  <1>1. InboxTypeOK'
    BY UnlockedMatch, InboxAssumption DEF InboxInv, InboxTypeOK, Statuses
  <1>2. LocksMatchClaims'
    <2>1. ASSUME NEW a \in Artifacts, NEW d \in EventIds
          PROVE  (status'[d] = "processing" /\ artifact'[d] = a) <=> lock'[a].event = d
      <3>1. CASE d = e
        BY <3>1, UnlockedMatch DEF InboxInv, InboxTypeOK, Settled
      <3>2. CASE d # e
        BY <3>2, UnlockedMatch
        DEF InboxInv, InboxTypeOK, LocksMatchClaims, LocksFollowClaims
      <3> QED BY <3>1, <3>2
    <2>2. ASSUME NEW a \in Artifacts
          PROVE  /\ lock'[a].event = 0 => lock'[a] = NoLock
                 /\ lock'[a].event # 0 => lock'[a].left = lease'[lock'[a].event]
      BY UnlockedMatch
      DEF InboxInv, InboxTypeOK, LocksMatchClaims, LocksLastAsLongAsClaims
    <2> QED BY <2>1, <2>2 DEF LocksMatchClaims, LocksFollowClaims, LocksLastAsLongAsClaims
  <1>3. OldestFirst'
    BY DEF InboxInv, InboxTypeOK, OldestFirst, Settled
  <1>4. OneActivePerKey'
    BY DEF InboxInv, InboxTypeOK, OneActivePerKey, Active, Settled
  <1>5. NumberedInOrder'
    BY DEF InboxInv, InboxTypeOK, NumberedInOrder, Settled
  <1> QED BY <1>1, <1>2, <1>3, <1>4, <1>5 DEF InboxInv

LEMMA TickInv ==
  ASSUME InboxInv, Tick
  PROVE  InboxInv'
  <1> USE DEF Tick, TickLeases
  <1>1. \A n \in 0..LeaseTicks : Shorter(n) \in 0..LeaseTicks
    BY InboxAssumption DEF Shorter
  <1>2. \A a \in Artifacts : /\ lock'[a] \in Locks
                             /\ lock'[a].event = lock[a].event
                             /\ lock'[a].left = Shorter(lock[a].left)
    BY <1>1 DEF InboxInv, InboxTypeOK, Locks
  <1>3. InboxTypeOK'
    BY <1>1, <1>2 DEF InboxInv, InboxTypeOK
  <1>4. LocksMatchClaims'
    <2>1. LocksFollowClaims'
      BY <1>2 DEF InboxInv, LocksMatchClaims, LocksFollowClaims
    <2>2. ASSUME NEW a \in Artifacts
          PROVE  /\ lock'[a].event = 0 => lock'[a] = NoLock
                 /\ lock'[a].event # 0 => lock'[a].left = lease'[lock'[a].event]
      <3>1. lock[a].event = 0 => lock'[a] = NoLock
        BY <1>2 DEF InboxInv, LocksMatchClaims, LocksLastAsLongAsClaims, NoLock,
                    Shorter, Locks
      <3>2. lock[a] \in Locks
        BY DEF InboxInv, InboxTypeOK
      <3>3. lock[a].event # 0 => lock[a].event \in EventIds
        BY <3>2 DEF Locks, EventIds
      <3> QED BY <1>2, <3>1, <3>3
              DEF InboxInv, LocksMatchClaims, LocksLastAsLongAsClaims
    <2> QED BY <2>1, <2>2 DEF LocksMatchClaims, LocksLastAsLongAsClaims
  <1>5. OldestFirst' /\ OneActivePerKey' /\ NumberedInOrder'
    BY DEF InboxInv, OldestFirst, OneActivePerKey, NumberedInOrder
  <1> QED BY <1>3, <1>4, <1>5 DEF InboxInv

LEMMA NextInv == InboxInv /\ [InboxNext]_inboxVars => InboxInv'
  <1> SUFFICES ASSUME InboxInv, [InboxNext]_inboxVars PROVE InboxInv'
    OBVIOUS
  <1>1. ASSUME NEW e \in EventIds, NEW a \in Artifacts \cup {NoArtifact},
               NEW k \in Keys \cup {NoKey}, Enqueue(e, a, k)
        PROVE  InboxInv'
    BY <1>1, EnqueueInv
  <1>2. CASE ReclaimExpired
    BY <1>2, ReclaimInv
  <1>3. ASSUME NEW e \in EventIds, Claim(e) PROVE InboxInv'
    BY <1>3, ClaimInv
  <1>4. ASSUME NEW e \in EventIds, Ack(e) \/ Fail(e) PROVE InboxInv'
    BY <1>4, SettleInv
  <1>5. CASE Tick
    BY <1>5, TickInv
  <1>6. CASE UNCHANGED inboxVars
    BY <1>6 DEF inboxVars, InboxInv, InboxTypeOK, LocksMatchClaims, LocksFollowClaims,
                LocksLastAsLongAsClaims, OldestFirst, OneActivePerKey, NumberedInOrder
  <1> QED BY <1>1, <1>2, <1>3, <1>4, <1>5, <1>6 DEF InboxNext
-----------------------------------------------------------------------------
\* The tables keep their types, the events stay numbered in order, and the
\* rest of the inductive invariant holds in every reachable state.
THEOREM InvariantHolds == InboxSpec => []InboxInv
  BY InitInv, NextInv, PTL DEF InboxSpec

\* Every column holds values of its type.
THEOREM TypesHold == InboxSpec => []InboxTypeOK
  <1>1. InboxInv => InboxTypeOK
    BY DEF InboxInv
  <1> QED BY <1>1, InvariantHolds, PTL

\* A lock exists exactly as long as the claim that took it: artifact_locks is
\* never ahead of nor behind events.
THEOREM LocksAlwaysMatch == InboxSpec => []LocksMatchClaims
  <1>1. InboxInv => LocksMatchClaims
    BY DEF InboxInv
  <1> QED BY <1>1, InvariantHolds, PTL

\* claim_next_event serializes the events of an artifact, whatever is acked,
\* failed or expires in between.
THEOREM SameArtifactSerialized == InboxSpec => []OneTurnPerArtifact
  <1>1. InboxInv => OneTurnPerArtifact
    BY DEF InboxInv, LocksMatchClaims, LocksFollowClaims, OneTurnPerArtifact
  <1> QED BY <1>1, InvariantHolds, PTL

\* Delivery is in order per artifact, retries included.
THEOREM ArtifactOrderKept == InboxSpec => []OldestFirst
  <1>1. InboxInv => OldestFirst
    BY DEF InboxInv
  <1> QED BY <1>1, InvariantHolds, PTL

\* enqueue_event keeps at most one unsettled event per dedupe key.
THEOREM DedupeHolds == InboxSpec => []OneActivePerKey
  <1>1. InboxInv => OneActivePerKey
    BY DEF InboxInv
  <1> QED BY <1>1, InvariantHolds, PTL

-----------------------------------------------------------------------------
\* The refinement: the status and the artifact of each event, as they are.
LEMMA QueueHelpers ==
  /\ Queue!EventIds = EventIds
  /\ Queue!Settled = Settled
  /\ Expired \subseteq Queue!InProcess
  /\ Queue!Returned(Expired) = ReclaimedStatus
  BY DEF Queue!EventIds, EventIds, Queue!Settled, Settled, Queue!InProcess, Expired,
         Queue!Returned, ReclaimedStatus

LEMMA StepIsQueueStep ==
  ASSUME InboxInv, [InboxNext]_inboxVars
  PROVE  [Queue!QueueNext]_(Queue!queueVars)
  <1>1. ASSUME NEW e \in EventIds, NEW a \in Artifacts \cup {NoArtifact},
               NEW k \in Keys \cup {NoKey}, Enqueue(e, a, k)
        PROVE  Queue!QueueNext
    <2>1. \A d \in EventIds : d >= e => status[d] = "none"
      BY <1>1 DEF Enqueue, IsNext
    <2>2. \A d \in EventIds : d > e => d >= e
      BY InboxAssumption DEF EventIds
    <2>3. e >= e
      BY InboxAssumption DEF EventIds
    <2>4. Queue!Accept(e, a)
      BY <1>1, <2>1, <2>2, <2>3, QueueHelpers DEF Enqueue, Queue!Accept
    <2> QED BY <2>4, QueueHelpers DEF Queue!QueueNext
  <1>2. CASE ReclaimExpired
    <2>1. Queue!Return(Expired)
      BY <1>2, QueueHelpers DEF ReclaimExpired, Queue!Return
    <2> QED BY <2>1, QueueHelpers DEF Queue!QueueNext, Expired
  <1>3. ASSUME NEW e \in EventIds, Claim(e) PROVE Queue!QueueNext
    <2>1. \A d \in EventIds : Queue!Before(d, e) => status[d] \notin Queue!Active
      BY <1>3, ClaimedIsFree DEF Claim, Queue!Before, Queue!Active, Settled
    <2>2. ReclaimedStatus[e] = "pending"
      BY <1>3 DEF Claim, FirstClaimable, Claimable
    <2>3. \A d \in Queue!InProcess \ Expired : artifact[d] = artifact[e] => artifact[e] \notin Artifacts
      <3>1. \A d \in Queue!InProcess \ Expired : d \in EventIds /\ ReclaimedStatus[d] = "processing"
        BY DEF Queue!InProcess, Queue!EventIds, EventIds, ReclaimedStatus
      <3> QED BY <1>3, <3>1, ClaimedIsFree DEF Claim
    <2>4. Queue!HandOut(Expired, e)
      BY <1>3, <2>1, <2>2, <2>3, QueueHelpers DEF Claim, Queue!HandOut
    <2> QED BY <2>4, QueueHelpers DEF Queue!QueueNext, Expired
  <1>4. ASSUME NEW e \in EventIds, Ack(e) \/ Fail(e) PROVE Queue!QueueNext
    <2>1. \E outcome \in Settled : Queue!Settle(e, outcome)
      BY <1>4 DEF Ack, Fail, Queue!Settle, Settled
    <2> QED BY <2>1, QueueHelpers DEF Queue!QueueNext
  <1>5. CASE Tick
    BY <1>5 DEF Tick, TickLeases, Queue!queueVars
  <1>6. CASE UNCHANGED inboxVars
    BY <1>6 DEF inboxVars, Queue!queueVars
  <1> QED BY <1>1, <1>2, <1>3, <1>4, <1>5, <1>6 DEF InboxNext

\* The inbox of one Store implements the abstract queue: at-least-once, in
\* order per artifact, never again once settled.
THEOREM InboxImplementsQueue == InboxSpec => ImplementsQueue
  <1>1. InboxInit => Queue!QueueInit
    BY DEF InboxInit, Queue!QueueInit, EventIds, Queue!EventIds
  <1>2. InboxInv /\ [InboxNext]_inboxVars => [Queue!QueueNext]_(Queue!queueVars)
    BY StepIsQueueStep
  <1> QED
    BY <1>1, <1>2, InvariantHolds, PTL DEF InboxSpec, ImplementsQueue, Queue!QueueSpec

\* No step takes an event out of acked and failed.
THEOREM SettledStaysSettled == InboxSpec => SettledForGood
  <1>1. InboxInv /\ [InboxNext]_inboxVars =>
          [\A e \in EventIds : status[e] \in Settled => status'[e] \in Settled]_inboxVars
    <2> SUFFICES ASSUME InboxInv, InboxNext, NEW d \in EventIds, status[d] \in Settled
                 PROVE  status'[d] \in Settled
      OBVIOUS
    <2>1. ReclaimedStatus[d] \in Settled /\ status[d] \notin Active /\ status[d] # "none"
      BY ReclaimedStatusFacts DEF InboxInv, Settled, Active
    <2>2. ASSUME NEW e \in EventIds, NEW a \in Artifacts \cup {NoArtifact},
                 NEW k \in Keys \cup {NoKey}, Enqueue(e, a, k)
          PROVE  status'[d] \in Settled
      <3>1. status[e] = "none"
        BY <2>2 DEF Enqueue, IsNext, EventIds
      <3> QED BY <2>1, <2>2, <3>1 DEF Enqueue, InboxInv, InboxTypeOK
    <2>3. ASSUME NEW e \in EventIds, Claim(e) PROVE status'[d] \in Settled
      <3>1. ReclaimedStatus[e] = "pending" /\ ReclaimedStatus \in [EventIds -> Statuses]
        BY <2>3, ReclaimedTypes DEF Claim, FirstClaimable, Claimable, InboxInv
      <3>2. d # e
        BY <2>1, <3>1 DEF Settled
      <3> QED BY <2>1, <2>3, <3>1, <3>2 DEF Claim
    <2>4. ASSUME NEW e \in EventIds, Ack(e) \/ Fail(e) PROVE status'[d] \in Settled
      BY <2>4 DEF Ack, Fail, InboxInv, InboxTypeOK, Settled
    <2>5. CASE ReclaimExpired
      BY <2>1, <2>5 DEF ReclaimExpired
    <2>6. CASE Tick
      BY <2>6 DEF Tick, TickLeases
    <2> QED BY <2>2, <2>3, <2>4, <2>5, <2>6 DEF InboxNext
  <1> QED BY <1>1, InvariantHolds, PTL DEF InboxSpec, SettledForGood
-----------------------------------------------------------------------------
(* The supervisor *)

\* What the phases of a batch say of its turns.
Phases ==
  /\ phase = "rest" => \A s \in Slots : turn[s] = NoTurn
  /\ phase \in {"claim", "drop"} => \A s \in Slots : /\ turn[s].result \in {"none", "claimed"}
                                                     /\ s > next => turn[s] = NoTurn
  /\ phase = "claim" => turn[next] = NoTurn
  /\ phase = "drop" => turn[next] # NoTurn
  /\ phase = "settle" => \A s \in Slots : turn[s].result \in {"none", "ok", "error"}

\* A pipe holds nothing but the turn in flight, or its answer.  An "ok" was
\* sent after the effects.
InSync(s) ==
  /\ ~worker[s].up => worker[s].todo = <<>>
  /\ worker[s].todo = <<>> => ~worker[s].applied
  /\ worker[s].up /\ ~InFlight(s) => worker[s].todo = <<>> /\ worker[s].replies = <<>>
  /\ InFlight(s) =>
       /\ worker[s].todo # <<>> => worker[s].todo = <<turn[s].event>> /\ worker[s].replies = <<>>
       /\ worker[s].applied => turn[s].event \in done
       /\ worker[s].replies \in {<<>>, <<"ok">>, <<"refused">>}
       /\ worker[s].replies = <<"ok">> => turn[s].event \in done
  /\ turn[s].result = "ok" => turn[s].event \in done
Streams == \A s \in Slots : InSync(s)

\* The turns of a batch hold their claims until they are settled, with what is
\* left of a lease taken in this batch.
Held ==
  /\ \A s \in Slots : turn[s] # NoTurn =>
       /\ status[turn[s].event] = "processing"
       /\ attempts[turn[s].event] = turn[s].attempt
       /\ lease[turn[s].event] + elapsed >= LeaseTicks
  /\ \A s, t \in Slots : turn[s] # NoTurn /\ turn[s].event = turn[t].event => s = t

\* An event that is not settled and in no turn has an attempt left.
InTurn(e) == \E s \in Slots : turn[s].event = e
AttemptLeft ==
  \A e \in EventIds : status[e] \notin Settled /\ ~InTurn(e) => attempts[e] < MaxAttempts + faults

\* A turn that was hit is marked until it ends, and an interrupt on its way to
\* a turn in flight has marked it.
HitsMarked ==
  /\ \A s \in hits : /\ turn[s].result \in {"sent", "error"}
                     /\ InFlight(s) => s \in marked
  /\ LET s == interrupt.slot
         t == interrupt.turn
     IN  t # NoTurn =>
           /\ t.result = "sent"
           /\ t.attempt <= attempts[t.event]
           /\ turn[s] = t => s \in marked
           /\ turn[s].result = "claimed" /\ turn[s].event = t.event => turn[s].attempt > t.attempt

\* The inductive invariant.
SupervisorInv ==
  /\ InboxInv /\ SupervisorTypeOK /\ Phases /\ Streams /\ Held
  /\ AttemptLeft /\ BoundedDelivery /\ HitsMarked /\ AckedIsDone
-----------------------------------------------------------------------------
(* What the steps do to the inbox. *)

\* A claim: e was not held by a turn and is now, nothing else is disturbed.
LEMMA ClaimFacts ==
  ASSUME InboxTypeOK, NEW e \in EventIds, Claim(e)
  PROVE  /\ status[e] \notin Settled /\ (status[e] = "processing" => lease[e] = 0)
         /\ status'[e] = "processing" /\ lease'[e] = LeaseTicks /\ attempts'[e] = attempts[e] + 1
         /\ attempts[e] < MaxClaims
         /\ \A d \in EventIds \ {e} :
              /\ attempts'[d] = attempts[d] /\ lease'[d] = lease[d]
              /\ status[d] = "processing" /\ lease[d] > 0 => status'[d] = "processing"
              /\ status'[d] \in Settled <=> status[d] \in Settled
              /\ status'[d] = "acked" => status[d] = "acked"
  <1>1. status \in [EventIds -> Statuses] /\ attempts \in [EventIds -> 0..MaxClaims]
        /\ lease \in [EventIds -> 0..LeaseTicks]
    BY DEF InboxTypeOK
  <1>2. ReclaimedStatus[e] = "pending" /\ attempts[e] < MaxClaims
        /\ status' = [ReclaimedStatus EXCEPT ![e] = "processing"]
        /\ lease' = [lease EXCEPT ![e] = LeaseTicks]
        /\ attempts' = [attempts EXCEPT ![e] = @ + 1]
    BY DEF Claim, FirstClaimable, Claimable
  <1>3. ReclaimedStatus \in [EventIds -> Statuses]
        /\ \A d \in EventIds : ReclaimedStatus[d] = IF status[d] = "processing" /\ lease[d] = 0
                                                      THEN "pending" ELSE status[d]
    BY <1>1 DEF ReclaimedStatus, Expired, Statuses, Active
  <1> QED BY <1>1, <1>2, <1>3 DEF Settled, Statuses, Active

\* Settling e: it is settled for good, nothing else is disturbed.
LEMMA SettleFacts ==
  ASSUME InboxTypeOK, NEW e \in EventIds, Ack(e) \/ Fail(e)
  PROVE  /\ status'[e] \in Settled /\ (Fail(e) => status'[e] # "acked")
         /\ attempts' = attempts
         /\ \A d \in EventIds \ {e} : status'[d] = status[d] /\ lease'[d] = lease[d]
  BY DEF InboxTypeOK, Ack, Fail, Settled

\* Steps of others: live claims stay and nothing is settled or delivered.
Quiet == \/ UNCHANGED inboxVars \/ ReclaimExpired
         \/ \E e \in EventIds, a \in Artifacts \cup {NoArtifact}, k \in Keys \cup {NoKey} : Enqueue(e, a, k)

LEMMA QuietFacts ==
  ASSUME InboxTypeOK, Quiet
  PROVE  /\ attempts' = attempts /\ lease' = lease
         /\ \A d \in EventIds :
              /\ status[d] = "processing" /\ lease[d] > 0 => status'[d] = "processing"
              /\ status'[d] \in Settled <=> status[d] \in Settled
              /\ status'[d] = "acked" => status[d] = "acked"
  <1>1. CASE UNCHANGED inboxVars
    BY <1>1 DEF inboxVars
  <1>2. CASE ReclaimExpired
    BY <1>2, InboxAssumption DEF InboxTypeOK, ReclaimExpired, ReclaimedStatus, Expired, Statuses, Active, Settled
  <1>3. CASE \E e \in EventIds, a \in Artifacts \cup {NoArtifact}, k \in Keys \cup {NoKey} : Enqueue(e, a, k)
    <2>1. PICK e \in EventIds, a \in Artifacts \cup {NoArtifact}, k \in Keys \cup {NoKey} : Enqueue(e, a, k)
      BY <1>3
    <2>2. status[e] = "none"
      BY <2>1, InboxAssumption DEF Enqueue, IsNext, EventIds
    <2> QED BY <2>1, <2>2 DEF Enqueue, InboxTypeOK, Settled
  <1> QED BY <1>1, <1>2, <1>3 DEF Quiet

\* A tick: a lease loses at most one.
LEMMA TickFacts ==
  ASSUME InboxTypeOK, Tick
  PROVE  /\ attempts' = attempts /\ status' = status
         /\ \A d \in EventIds : lease'[d] + 1 >= lease[d]
  BY DEF InboxTypeOK, Tick, TickLeases, Shorter

\* The turns that are settled or dropped refer to events.
LEMMA FailureFacts ==
  ASSUME SupervisorTypeOK, NEW s \in Slots, turn[s] # NoTurn, DispatchFailure(s)
  PROVE  /\ turn[s].event \in EventIds
         /\ \/ UNCHANGED inboxVars /\ turn[s].attempt < MaxAttempts
            \/ Fail(turn[s].event)
  <1>1. turn[s] \in Turns
    BY DEF SupervisorTypeOK
  <1> QED BY <1>1, SupervisorAssumption DEF Turns, DispatchFailure, LastAttempt

\* Every step of the supervisor is a step of the inbox or leaves it alone.
LEMMA StepIsInboxStep ==
  ASSUME SupervisorTypeOK, Phases, [SupervisorNext]_supervisorVars
  PROVE  [InboxNext]_inboxVars
  <1>1. \A s \in Slots : turn[s] # NoTurn => turn[s].event \in EventIds
    BY DEF SupervisorTypeOK, Turns
  <1>2. ASSUME NEW s \in Slots, turn[s] # NoTurn, DispatchFailure(s) PROVE [InboxNext]_inboxVars
    BY <1>1, <1>2, FailureFacts DEF InboxNext
  <1>3. ClaimSlot => [InboxNext]_inboxVars
    BY DEF ClaimSlot, TakeTurn, InboxNext
  <1>4. DropTurn => [InboxNext]_inboxVars
    BY <1>2 DEF DropTurn, Phases, SupervisorTypeOK
  <1>5. ASSUME NEW s \in Slots, SettleTurn(s) PROVE [InboxNext]_inboxVars
    BY <1>1, <1>2, <1>5 DEF SettleTurn, InboxNext
  <1>6. Others \/ PassTime => [InboxNext]_inboxVars
    BY DEF Others, PassTime, InboxNext
  <1>7. CASE \/ BeginBatch \/ BeginSettle \/ EndBatch \/ Work \/ Interrupting \/ SkipSlot \/ Crash
             \/ \E s \in Slots : Send(s) \/ Receive(s) \/ Closed(s) \/ Timeout(s)
    BY <1>7 DEF BeginBatch, BeginSettle, EndBatch, Work, Interrupting, SkipSlot, Crash, Send,
       Receive, Closed, Timeout, Answered, Apply, Reply, WorkerDies, RequestInterrupt, Signal
  <1> QED BY <1>3, <1>4, <1>5, <1>6, <1>7 DEF SupervisorNext, Supervise, supervisorVars
-----------------------------------------------------------------------------
(* Type correctness *)

\* A dead process, or one just started, has the shape of a process.
LEMMA WorkerTypes ==
  /\ Started \in Workers /\ Dead(Started) \in Workers
  /\ \A w \in Workers : /\ Dead(w) \in Workers
                        /\ ~Dead(w).up /\ Dead(w).todo = <<>> /\ ~Dead(w).applied
                        /\ Dead(w).replies = w.replies
  <1>1. <<>> \in Seq(EventIds) /\ <<>> \in Seq(Answers)
    OBVIOUS
  <1>2. Started \in Workers
    BY <1>1 DEF Workers, Started
  <1>3. ASSUME NEW w \in Workers
        PROVE  /\ Dead(w) \in Workers
               /\ ~Dead(w).up /\ Dead(w).todo = <<>> /\ ~Dead(w).applied
               /\ Dead(w).replies = w.replies
    BY <1>1, <1>3 DEF Workers, Dead
  <1> QED BY <1>2, <1>3

\* On to the next slot.
LEMMA NextSlotFacts ==
  ASSUME next \in Slots, NextSlot
  PROVE  /\ next' \in Slots
         /\ (phase' = "claim" /\ next' = next + 1) \/ phase' = "wait"
  BY SupervisorAssumption DEF NextSlot, Slots

\* Each step of a turn or a worker process keeps its shape.
LEMMA TurnTypes ==
  ASSUME SupervisorTypeOK, NEW s \in Slots, turn[s].result \in Results, NEW r \in Results
  PROVE  [turn EXCEPT ![s].result = r] \in [Slots -> Turns]
  <1>1. turn \in [Slots -> Turns] /\ turn[s] \in [event : EventIds, attempt : 1..MaxClaims, result : Results]
    BY DEF SupervisorTypeOK, Turns, NoTurn, Results
  <1>2. [turn[s] EXCEPT !.result = r] \in [event : EventIds, attempt : 1..MaxClaims, result : Results]
    BY <1>1
  <1> QED BY <1>1, <1>2 DEF Turns

LEMMA TypesKept ==
  ASSUME InboxTypeOK, SupervisorTypeOK, Phases, SupervisorNext
  PROVE  SupervisorTypeOK'
  <1> USE SupervisorAssumption, InboxAssumption
  <1>0. /\ turn \in [Slots -> Turns] /\ worker \in [Slots -> Workers]
        /\ \A s \in Slots : worker[s] \in Workers /\ turn[s] \in Turns
        /\ NoTurn \in Turns
    BY DEF SupervisorTypeOK, Turns
  <1>1. BeginBatch => SupervisorTypeOK'
    BY <1>0, WorkerTypes DEF BeginBatch, SupervisorTypeOK, interruptVars, Slots
  <1>2. ClaimSlot => SupervisorTypeOK'
    <2> SUFFICES ASSUME ClaimSlot PROVE SupervisorTypeOK'
      OBVIOUS
    <2>1. next \in Slots /\ Session(next) \in Workers
      BY <1>0, WorkerTypes DEF SupervisorTypeOK, Session
    <2>2. worker' \in [Slots -> Workers]
      BY <1>0, <2>1 DEF ClaimSlot
    <2>3. turn' \in [Slots -> Turns]
      <3>1. ASSUME NEW e \in EventIds, TakeTurn(e) PROVE turn' \in [Slots -> Turns]
        <4>1. attempts'[e] \in 1..MaxClaims
          BY <3>1, ClaimFacts DEF InboxTypeOK, TakeTurn
        <4> QED BY <1>0, <3>1, <4>1 DEF Turns, Results, TakeTurn
      <3> QED BY <1>0, <3>1 DEF ClaimSlot
    <2>4. phase' \in {"claim", "drop", "wait"} /\ next' \in Slots
      BY <2>1, NextSlotFacts DEF ClaimSlot, TakeTurn, Slots
    <2> QED BY <2>2, <2>3, <2>4 DEF ClaimSlot, SupervisorTypeOK, interruptVars
  <1>3. DropTurn => SupervisorTypeOK'
    <2> SUFFICES ASSUME DropTurn PROVE SupervisorTypeOK'
      OBVIOUS
    <2>1. phase' \in {"claim", "wait"} /\ next' \in Slots
      BY NextSlotFacts DEF DropTurn, SupervisorTypeOK
    <2>2. turn' \in [Slots -> Turns]
      BY <1>0 DEF DropTurn
    <2> QED BY <2>1, <2>2 DEF DropTurn, SupervisorTypeOK, workerVars, interruptVars
  <1>4. SkipSlot => SupervisorTypeOK'
    <2> SUFFICES ASSUME SkipSlot PROVE SupervisorTypeOK'
      OBVIOUS
    <2>1. phase' \in {"claim", "wait"} /\ next' \in Slots
      BY NextSlotFacts DEF SkipSlot, SupervisorTypeOK
    <2> QED BY <2>1 DEF SkipSlot, Fault, SupervisorTypeOK, workerVars, interruptVars
  <1>5. ASSUME NEW s \in Slots, Send(s) PROVE SupervisorTypeOK'
    <2>1. turn[s].result = "claimed" /\ turn[s].event \in EventIds
      BY <1>0, <1>5 DEF Send, Turns, NoTurn
    <2>2. turn' \in [Slots -> Turns]
      BY <1>5, <2>1, TurnTypes DEF Send, Results
    <2>3. worker' \in [Slots -> Workers]
      <3>1. Append(worker[s].todo, turn[s].event) \in Seq(EventIds)
        BY <1>0, <2>1 DEF Workers
      <3>2. [worker[s] EXCEPT !.todo = Append(worker[s].todo, turn[s].event)] \in Workers
        BY <1>0, <3>1 DEF Workers
      <3> QED BY <1>0, <1>5, <3>2 DEF Send
    <2> QED BY <1>5, <2>2, <2>3 DEF Send, SupervisorTypeOK
  <1>6. ASSUME NEW s \in Slots, Receive(s) \/ Closed(s) \/ Timeout(s) PROVE SupervisorTypeOK'
    <2>1. PICK reply \in {"ok", "refused", "closed", "timeout"} : Answered(s, reply)
      <3>1. Receive(s) => Head(worker[s].replies) \in {"ok", "refused"}
        BY <1>0 DEF Receive, Workers, Answers
      <3> QED BY <1>6, <3>1 DEF Receive, Closed, Timeout
    <2>2. phase = "rest" => FALSE
      BY <1>6 DEF Phases, Receive, Closed, Timeout, InFlight, NoTurn
    <2>3. turn' \in [Slots -> Turns]
      BY <1>6, <2>1, TurnTypes DEF Answered, Result, Receive, Closed, Timeout, InFlight, Results
    <2>4. worker' \in [Slots -> Workers]
      <3>1. Receive(s) => Tail(worker[s].replies) \in Seq(Answers)
        BY <1>0 DEF Receive, Workers
      <3>2. Receive(s) => [worker[s] EXCEPT !.replies = Tail(worker[s].replies)] \in Workers
        BY <1>0, <3>1 DEF Workers
      <3> QED BY <1>0, <1>6, <3>2, WorkerTypes DEF Receive, Closed, Timeout, Poisoned
    <2> QED BY <2>1, <2>2, <2>3, <2>4 DEF Answered, SupervisorTypeOK
  <1>7. BeginSettle => SupervisorTypeOK'
    BY DEF BeginSettle, SupervisorTypeOK, workerVars, interruptVars
  <1>8. ASSUME NEW s \in Slots, SettleTurn(s) PROVE SupervisorTypeOK'
    <2>1. turn' \in [Slots -> Turns]
      BY <1>0, <1>8 DEF SettleTurn
    <2> QED BY <1>8, <2>1 DEF SettleTurn, SupervisorTypeOK, workerVars
  <1>9. EndBatch => SupervisorTypeOK'
    BY <1>0 DEF EndBatch, SupervisorTypeOK, workerVars, interruptVars
  <1>10. ASSUME NEW s \in Slots, Apply(s) \/ Reply(s) \/ WorkerDies(s) PROVE SupervisorTypeOK'
    <2>1. worker[s].todo \in Seq(EventIds) /\ worker[s].replies \in Seq(Answers)
      BY <1>0 DEF Workers
    <2>2. worker' \in [Slots -> Workers]
      <3>1. Apply(s) => [worker[s] EXCEPT !.applied = TRUE] \in Workers
        BY <1>0 DEF Workers
      <3>2. ASSUME Reply(s) PROVE worker'[s] \in Workers
        <4>1. /\ Tail(worker[s].todo) \in Seq(EventIds)
              /\ Append(worker[s].replies, IF worker[s].applied THEN "ok" ELSE "refused") \in Seq(Answers)
          BY <2>1, <3>2 DEF Reply, Answers
        <4>2. Replied(worker[s]) \in Workers
          BY <1>0, <4>1 DEF Workers, Replied
        <4> QED BY <1>0, <3>2, <4>2 DEF Reply
      <3> QED BY <1>0, <1>10, <3>1, <3>2, WorkerTypes DEF Apply, Reply, WorkerDies
    <2>3. done' \subseteq EventIds
      <3>1. worker[s].todo # <<>> => Head(worker[s].todo) \in EventIds
        BY <2>1
      <3> QED BY <1>10, <3>1 DEF Apply, Reply, WorkerDies, SupervisorTypeOK
    <2> QED BY <1>10, <2>2, <2>3 DEF Apply, Reply, WorkerDies, superVars, interruptVars, SupervisorTypeOK
  <1>11. ASSUME NEW s \in Slots, RequestInterrupt(s) PROVE SupervisorTypeOK'
    BY <1>0, <1>11 DEF RequestInterrupt, InFlight, NoTurn, Marked, superVars, workerVars, SupervisorTypeOK
  <1>12. Signal => SupervisorTypeOK'
    <2> SUFFICES ASSUME Signal PROVE SupervisorTypeOK'
      OBVIOUS
    <2>1. interrupt.slot \in Slots
      BY DEF Signal, SupervisorTypeOK
    <2>2. worker' \in [Slots -> Workers]
      BY <1>0, <2>1, WorkerTypes DEF Signal
    <2> QED BY <2>1, <2>2 DEF Signal, superVars, SupervisorTypeOK
  <1>13. Crash => SupervisorTypeOK'
    <2> SUFFICES ASSUME Crash PROVE SupervisorTypeOK'
      OBVIOUS
    <2>1. turn' = [s \in Slots |-> NoTurn] /\ worker' \in [Slots -> Workers]
      BY WorkerTypes DEF Crash
    <2> QED BY <1>0, <2>1 DEF Crash, Fault, SupervisorTypeOK, Slots
  <1>14. Others => SupervisorTypeOK'
    BY DEF Others, superVars, workerVars, interruptVars, SupervisorTypeOK
  <1>15. CASE PassTime
    <2>1. TimeLimit \in Nat /\ TimeLimit <= StartTicks + TurnTicks
      BY DEF TimeLimit
    <2>2. elapsed' \in 0..(StartTicks + TurnTicks)
      BY <1>15, <2>1 DEF PassTime, SupervisorTypeOK
    <2> QED BY <1>15, <2>2 DEF PassTime, workerVars, interruptVars, SupervisorTypeOK
  <1> QED
    BY <1>1, <1>2, <1>3, <1>4, <1>5, <1>6, <1>7, <1>8, <1>9, <1>10, <1>11, <1>12, <1>13, <1>14, <1>15
    DEF SupervisorNext, Supervise, Work, Interrupting
-----------------------------------------------------------------------------
(* Turns and phases *)

\* A slot has a turn or none.
LEMMA TurnFacts ==
  ASSUME SupervisorTypeOK, NEW s \in Slots
  PROVE  /\ turn[s] = NoTurn <=> turn[s].result = "none"
         /\ turn[s] = NoTurn <=> turn[s].event = 0
         /\ turn[s] # NoTurn => /\ turn[s].event \in EventIds /\ turn[s].attempt \in 1..MaxClaims
                                /\ turn[s].result \in Results
  BY DEF SupervisorTypeOK, Turns, NoTurn, Results, EventIds

\* A turn is sent and answered while the batch waits: only its result changes.
SlotStep(s) == Send(s) \/ Receive(s) \/ Closed(s) \/ Timeout(s)
LEMMA SlotStepFacts ==
  ASSUME SupervisorTypeOK, Phases, NEW s \in Slots, SlotStep(s)
  PROVE  /\ phase = "wait" /\ turn[s].result \in {"claimed", "sent"} /\ turn[s] # NoTurn
         /\ UNCHANGED <<inboxVars, phase, next, elapsed, faults, done>>
         /\ turn'[s].event = turn[s].event /\ turn'[s].attempt = turn[s].attempt
         /\ turn'[s].result \in {"sent", "ok", "error"}
         /\ turn'[s].result = "sent" <=> Send(s) /\ worker[s].up
         /\ \A t \in Slots \ {s} : turn'[t] = turn[t]
         /\ worker \in [Slots -> Workers]
         /\ \A t \in Slots \ {s} : worker'[t] = worker[t] /\ (t \in marked' <=> t \in marked)
  <1>1. turn \in [Slots -> Turns] /\ worker \in [Slots -> Workers]
    BY DEF SupervisorTypeOK
  <1>2. turn[s].result \in {"claimed", "sent"} /\ turn[s] # NoTurn
    BY DEF SlotStep, Send, Receive, Closed, Timeout, InFlight, NoTurn
  <1>3. phase = "wait"
    BY <1>2 DEF SlotStep, Send, Receive, Closed, Timeout, InFlight, Phases, SupervisorTypeOK, NoTurn
  <1>4. PICK r \in {"sent", "ok", "error"} :
          turn' = [turn EXCEPT ![s].result = r] /\ (r = "sent" <=> Send(s) /\ worker[s].up)
    <2>1. CASE Send(s)
      BY <2>1 DEF Send
    <2>2. CASE Receive(s) \/ Closed(s) \/ Timeout(s)
      <3>1. ~Send(s)
        BY <2>2 DEF Receive, Closed, Timeout, InFlight, Send
      <3> QED BY <2>2, <3>1 DEF Receive, Closed, Timeout, Answered, Result
    <2> QED BY <2>1, <2>2 DEF SlotStep
  <1>5. turn[s] \in [event : EventIds, attempt : 1..MaxClaims, result : Results]
    BY <1>1, <1>2 DEF Turns
  <1>6. /\ turn'[s].event = turn[s].event /\ turn'[s].attempt = turn[s].attempt /\ turn'[s].result = r
        /\ \A t \in Slots \ {s} : turn'[t] = turn[t]
    BY <1>1, <1>4, <1>5
  <1>7. \A t \in Slots \ {s} : worker'[t] = worker[t] /\ (t \in marked' <=> t \in marked)
    BY <1>1 DEF SlotStep, Send, Receive, Closed, Timeout, Answered
  <1>8. UNCHANGED <<inboxVars, phase, next, elapsed, faults, done>>
    BY DEF SlotStep, Send, Receive, Closed, Timeout, Answered
  <1> QED BY <1>1, <1>2, <1>3, <1>4, <1>6, <1>7, <1>8

\* Steps that are no part of the batch leave its turns alone.
LEMMA OutsideFacts ==
  ASSUME Work \/ Interrupting \/ Others \/ PassTime
  PROVE  /\ UNCHANGED <<phase, next, turn, faults>>
         /\ Quiet \/ PassTime
         /\ ~PassTime => elapsed' = elapsed
  BY DEF Work, Interrupting, Others, PassTime, Apply, Reply, WorkerDies, RequestInterrupt, Signal,
     superVars, Quiet

LEMMA PhasesKept ==
  ASSUME InboxTypeOK, SupervisorTypeOK, Phases, SupervisorNext
  PROVE  Phases'
  <1> USE SupervisorAssumption DEF Phases
  <1>0. turn \in [Slots -> Turns] /\ next \in Slots /\ 1 \in Slots
    BY DEF SupervisorTypeOK, Slots
  <1>1. CASE BeginBatch
    BY <1>0, <1>1 DEF BeginBatch, NoTurn
  <1>2. CASE ClaimSlot
    <2>1. CASE turn' = turn /\ phase' = "wait"
      BY <2>1
    <2>2. ASSUME NEW e \in EventIds, TakeTurn(e) PROVE Phases'
      <3>1. /\ turn'[next].result = "claimed" /\ turn'[next] # NoTurn
            /\ \A s \in Slots \ {next} : turn'[s] = turn[s]
        BY <1>0, <2>2 DEF NoTurn, TakeTurn
      <3>2. phase' \in {"claim", "drop", "wait"} /\ (phase' = "drop" => next' = next)
            /\ (phase' = "claim" => next' = next + 1) /\ next' \in Slots
        BY <1>0, <2>2, NextSlotFacts DEF TakeTurn
      <3> QED BY <1>0, <1>2, <3>1, <3>2 DEF ClaimSlot, NoTurn, Slots
    <2> QED BY <1>2, <2>1, <2>2 DEF ClaimSlot
  <1>3. CASE DropTurn \/ SkipSlot
    <2>1. /\ phase' \in {"claim", "wait"} /\ (phase' = "claim" => next' = next + 1) /\ next' \in Slots
      BY <1>0, <1>3, NextSlotFacts DEF DropTurn, SkipSlot
    <2>2. phase \in {"claim", "drop"}
      BY <1>3 DEF DropTurn, SkipSlot
    <2>3. \A s \in Slots : turn'[s] = turn[s] \/ turn'[s] = NoTurn
      BY <1>0, <1>3 DEF DropTurn, SkipSlot
    <2> QED BY <1>0, <2>1, <2>2, <2>3 DEF NoTurn, Slots
  <1>4. ASSUME NEW s \in Slots, SlotStep(s) PROVE Phases'
    BY <1>4, SlotStepFacts
  <1>5. CASE BeginSettle
    BY <1>5 DEF BeginSettle
  <1>6. ASSUME NEW s \in Slots, SettleTurn(s) PROVE Phases'
    BY <1>0, <1>6 DEF SettleTurn, NoTurn
  <1>7. CASE EndBatch
    BY <1>7 DEF EndBatch
  <1>8. CASE Crash
    BY <1>8 DEF Crash
  <1>9. CASE Work \/ Interrupting \/ Others \/ PassTime
    BY <1>9, OutsideFacts
  <1> QED BY <1>1, <1>2, <1>3, <1>4, <1>5, <1>6, <1>7, <1>8, <1>9 DEF SupervisorNext, Supervise, SlotStep
-----------------------------------------------------------------------------
(* Streams *)

\* What is appended to an empty pipe is all it holds, and taking it empties it.
LEMMA PipeFacts ==
  ASSUME NEW S, NEW x \in S
  PROVE  /\ Append(<<>>, x) = <<x>> /\ Tail(<<x>>) = <<>> /\ Head(<<x>>) = x
         /\ <<x>> # <<>> /\ <<>> \in Seq(S)
  OBVIOUS

\* A slot whose turn stays stays in sync, also when its process dies.
LEMMA SyncKept ==
  ASSUME NEW s \in Slots, InSync(s), turn'[s] = turn[s], done \subseteq done',
         worker[s] \in Workers,
         worker'[s] = worker[s] \/ worker'[s] = Dead(worker[s])
  PROVE  InSync(s)'
  <1>1. CASE worker'[s] = worker[s]
    BY <1>1 DEF InSync, InFlight
  <1>2. CASE worker'[s] = Dead(worker[s])
    BY <1>2, WorkerTypes DEF InSync, InFlight
  <1> QED BY <1>1, <1>2

\* A slot whose turn is taken or settled is in sync when its process is a new
\* one, or the one it has.
LEMMA SyncIdle ==
  ASSUME NEW s \in Slots, InSync(s), ~InFlight(s), turn'[s].result \in {"none", "claimed"},
         worker'[s] = worker[s] \/ worker'[s] = Started \/ worker'[s] = Dead(Started)
  PROVE  InSync(s)'
  <1>1. CASE worker'[s] = worker[s]
    BY <1>1 DEF InSync, InFlight
  <1>2. CASE worker'[s] = Started
    BY <1>2 DEF InSync, InFlight, Started
  <1>3. CASE worker'[s] = Dead(Started)
    BY <1>3 DEF InSync, InFlight, Started, Dead
  <1> QED BY <1>1, <1>2, <1>3

LEMMA SlotStepStreams ==
  ASSUME SupervisorTypeOK, Phases, Streams, NEW s \in Slots, SlotStep(s)
  PROVE  Streams'
  <1>0. InSync(s) /\ worker[s] \in Workers /\ worker \in [Slots -> Workers]
    BY DEF Streams, SupervisorTypeOK
  <1>1. ASSUME NEW t \in Slots \ {s} PROVE InSync(t)'
    <2>1. worker[t] \in Workers /\ InSync(t)
      BY DEF Streams, SupervisorTypeOK
    <2> QED BY <2>1, SlotStepFacts, SyncKept
  <1>2. CASE Send(s)
    <2>1. turn[s].result = "claimed" /\ ~InFlight(s) /\ turn[s].event \in EventIds
      BY <1>2, SlotStepFacts, TurnFacts DEF Send, InFlight
    <2>2. CASE worker[s].up
      <3>1. worker[s].todo = <<>> /\ worker[s].replies = <<>> /\ ~worker[s].applied
        BY <1>0, <2>1, <2>2 DEF InSync
      <3>2. turn'[s].result = "sent" /\ turn'[s].event = turn[s].event
        BY <1>2, <2>2, SlotStepFacts
      <3>3. worker' = [worker EXCEPT ![s] = [worker[s] EXCEPT !.todo = Append(worker[s].todo, turn[s].event)]]
        BY <1>2, <2>2 DEF Send
      <3>4. /\ worker'[s].up /\ worker'[s].todo = <<turn[s].event>> /\ worker'[s].replies = <<>>
            /\ ~worker'[s].applied
        BY <1>0, <2>1, <2>2, <3>1, <3>3, PipeFacts DEF Workers
      <3>5. worker'[s].todo # <<>>
        BY <3>4, <2>1, PipeFacts
      <3> QED BY <1>1, <3>2, <3>4, <3>5 DEF Streams, InSync, InFlight
    <2>3. CASE ~worker[s].up
      <3>1. turn'[s].result = "error" /\ worker' = worker
        <4>1. turn' = [turn EXCEPT ![s].result = "error"] /\ worker' = worker
          BY <1>2, <2>3 DEF Send
        <4>2. turn[s] \in [event : EventIds, attempt : 1..MaxClaims, result : Results]
          BY <2>1 DEF SupervisorTypeOK, Turns, NoTurn
        <4> QED BY <4>1, <4>2 DEF SupervisorTypeOK
      <3> QED BY <1>0, <1>1, <2>3, <3>1 DEF Streams, InSync, InFlight
    <2> QED BY <2>2, <2>3
  <1>3. CASE Receive(s) \/ Closed(s) \/ Timeout(s)
    <2>1. InFlight(s) /\ ~Send(s)
      BY <1>3 DEF Receive, Closed, Timeout, Send, InFlight
    <2>2. turn'[s].event = turn[s].event /\ ~InFlight(s)' /\ done' = done
      BY <2>1, SlotStepFacts DEF InFlight
    <2>3. /\ worker'[s].todo = <<>> /\ worker'[s].replies = <<>> /\ ~worker'[s].applied
      <3>1. CASE Receive(s)
        <4>1. worker' = [worker EXCEPT ![s] = [worker[s] EXCEPT !.replies = Tail(worker[s].replies)]]
              /\ worker[s].replies # <<>>
          BY <3>1 DEF Receive
        <4>2. worker[s].todo = <<>> /\ worker[s].replies \in {<<"ok">>, <<"refused">>} /\ ~worker[s].applied
          BY <1>0, <2>1, <4>1 DEF InSync
        <4>3. Tail(worker[s].replies) = <<>>
          BY <4>2, PipeFacts
        <4> QED BY <1>0, <4>1, <4>2, <4>3 DEF Workers
      <3>2. CASE Closed(s)
        BY <1>0, <3>2 DEF Closed, InSync
      <3>3. CASE Timeout(s)
        BY <1>0, <3>3, WorkerTypes DEF Timeout, Poisoned
      <3> QED BY <1>3, <3>1, <3>2, <3>3
    <2>4. turn'[s].result = "ok" => turn[s].event \in done
      <3>1. ASSUME turn'[s].result = "ok"
            PROVE  Receive(s) /\ Head(worker[s].replies) = "ok"
        <4>1. turn \in [Slots -> Turns]
          BY DEF SupervisorTypeOK
        <4>2. turn[s] \in [event : EventIds, attempt : 1..MaxClaims, result : Results]
          BY <2>1, <4>1 DEF Turns, InFlight, NoTurn
        <4>3. ASSUME NEW reply, Answered(s, reply) PROVE reply = "ok"
          BY <3>1, <4>1, <4>2, <4>3 DEF Answered, Result
        <4> QED BY <1>3, <4>3 DEF Receive, Closed, Timeout
      <3>2. ASSUME Receive(s), Head(worker[s].replies) = "ok" PROVE turn[s].event \in done
        <4>1. worker[s].replies \in {<<>>, <<"ok">>, <<"refused">>} /\ worker[s].replies # <<>>
          BY <1>0, <2>1, <3>2 DEF InSync, Receive
        <4>2. worker[s].replies # <<"refused">>
          BY <3>2, PipeFacts
        <4> QED BY <1>0, <2>1, <4>1, <4>2 DEF InSync
      <3> QED BY <3>1, <3>2
    <2> QED BY <1>1, <2>2, <2>3, <2>4 DEF Streams, InSync, InFlight
  <1> QED BY <1>2, <1>3 DEF SlotStep

\* What a worker that has a line in its pipe works on is the turn in flight.
LEMMA WorkingFacts ==
  ASSUME SupervisorTypeOK, Streams, NEW s \in Slots, worker[s].todo # <<>>
  PROVE  /\ worker[s].up /\ InFlight(s) /\ turn[s].event \in EventIds
         /\ worker[s].todo = <<turn[s].event>> /\ worker[s].replies = <<>>
         /\ Head(worker[s].todo) = turn[s].event
  <1>1. worker[s].up /\ InFlight(s) /\ worker[s].todo = <<turn[s].event>> /\ worker[s].replies = <<>>
    BY DEF Streams, InSync
  <1>2. turn[s].event \in EventIds
    BY <1>1, TurnFacts DEF InFlight
  <1> QED BY <1>1, <1>2, PipeFacts

LEMMA WorkStreams ==
  ASSUME SupervisorTypeOK, Streams, NEW s \in Slots, Apply(s) \/ Reply(s) \/ WorkerDies(s)
  PROVE  Streams'
  <1>0. /\ InSync(s) /\ worker[s] \in Workers /\ worker \in [Slots -> Workers]
        /\ turn' = turn /\ done \subseteq done'
    BY DEF Streams, SupervisorTypeOK, Apply, Reply, WorkerDies, superVars
  <1>1. ASSUME NEW t \in Slots \ {s} PROVE InSync(t)'
    <2>1. worker'[t] = worker[t] /\ worker[t] \in Workers /\ InSync(t)
      BY <1>0 DEF Apply, Reply, WorkerDies, Streams
    <2> QED BY <1>0, <2>1, SyncKept
  <1>2. CASE Apply(s)
    <2>1. worker'[s] = [worker[s] EXCEPT !.applied = TRUE] /\ turn[s].event \in done'
      BY <1>0, <1>2, WorkingFacts DEF Apply
    <2>2. /\ worker'[s].up = worker[s].up /\ worker'[s].todo = worker[s].todo
          /\ worker'[s].replies = worker[s].replies
      BY <1>0, <2>1 DEF Workers
    <2> QED BY <1>0, <1>1, <1>2, <2>1, <2>2, WorkingFacts DEF Streams, InSync, InFlight, Apply
  <1>3. CASE Reply(s)
    <2>1. worker'[s] = Replied(worker[s])
      BY <1>0, <1>3 DEF Reply
    <2>2. /\ worker'[s].up /\ worker'[s].todo = <<>> /\ ~worker'[s].applied
          /\ worker'[s].replies = IF worker[s].applied THEN <<"ok">> ELSE <<"refused">>
      <3>1. Tail(worker[s].todo) = <<>> /\ worker[s].replies = <<>> /\ worker[s].up
        BY <1>3, WorkingFacts, PipeFacts DEF Reply
      <3>2. /\ worker'[s].up = worker[s].up /\ worker'[s].todo = Tail(worker[s].todo) /\ worker'[s].applied = FALSE
            /\ worker'[s].replies = Append(worker[s].replies, IF worker[s].applied THEN "ok" ELSE "refused")
        BY <1>0, <2>1 DEF Replied, Workers
      <3> QED BY <3>1, <3>2, PipeFacts
    <2>3. InFlight(s) /\ (worker[s].applied => turn[s].event \in done)
      BY <1>0, <1>3, WorkingFacts DEF Reply, InSync
    <2>4. worker'[s].replies = <<"ok">> => worker[s].applied
      <3>1. Head(<<"ok">>) = "ok" /\ Head(<<"refused">>) = "refused"
        BY PipeFacts
      <3> QED BY <2>2, <3>1
    <2> QED BY <1>0, <1>1, <2>2, <2>3, <2>4 DEF Streams, InSync, InFlight
  <1>4. CASE WorkerDies(s)
    <2>1. worker'[s] = Dead(worker[s])
      BY <1>0, <1>4 DEF WorkerDies
    <2> QED BY <1>0, <1>1, <2>1, SyncKept DEF Streams
  <1> QED BY <1>2, <1>3, <1>4

LEMMA StreamsKept ==
  ASSUME InboxTypeOK, SupervisorTypeOK, Phases, Streams, SupervisorNext
  PROVE  Streams'
  <1>0. /\ worker \in [Slots -> Workers] /\ turn \in [Slots -> Turns]
        /\ \A s \in Slots : worker[s] \in Workers /\ InSync(s)
        /\ next \in Slots
    BY DEF SupervisorTypeOK, Streams
  <1>1. CASE BeginBatch
    <2>1. /\ turn' = turn /\ done' = done
          /\ \A s \in Slots : worker'[s] = worker[s] \/ worker'[s] = Dead(worker[s])
      BY <1>1 DEF BeginBatch
    <2> QED BY <1>0, <2>1, SyncKept DEF Streams
  <1>2. ASSUME NEW n \in Slots, n = next, ClaimSlot PROVE Streams'
    <2>1. done' = done /\ worker'[n] = Session(n)
          /\ \A s \in Slots \ {n} : turn'[s] = turn[s] /\ worker'[s] = worker[s]
      BY <1>0, <1>2 DEF ClaimSlot, TakeTurn
    <2>2. turn[n] = NoTurn /\ ~InFlight(n)
      BY <1>2 DEF ClaimSlot, Phases, InFlight, NoTurn
    <2>3. turn'[n].result \in {"none", "claimed"}
      BY <1>0, <1>2, <2>2 DEF ClaimSlot, TakeTurn, NoTurn
    <2>4. InSync(n)'
      BY <1>0, <2>1, <2>2, <2>3, SyncIdle DEF Session
    <2>5. \A s \in Slots \ {n} : InSync(s)'
      BY <1>0, <2>1, SyncKept
    <2> QED BY <2>4, <2>5 DEF Streams
  <1>3. ASSUME NEW n \in Slots, n = next, DropTurn PROVE Streams'
    <2>1. /\ done' = done /\ worker' = worker /\ turn'[n].result = "none"
          /\ \A s \in Slots \ {n} : turn'[s] = turn[s]
      BY <1>0, <1>3 DEF DropTurn, workerVars, NoTurn
    <2>2. ~InFlight(n)
      BY <1>0, <1>3 DEF DropTurn, Phases, InFlight
    <2>3. InSync(n)'
      BY <1>0, <2>1, <2>2, SyncIdle
    <2>4. \A s \in Slots \ {n} : InSync(s)'
      BY <1>0, <2>1, SyncKept
    <2> QED BY <2>3, <2>4 DEF Streams
  <1>4. CASE BeginSettle \/ EndBatch \/ SkipSlot \/ Others \/ PassTime
    <2>1. turn' = turn /\ worker' = worker /\ done \subseteq done'
      BY <1>4 DEF BeginSettle, EndBatch, SkipSlot, Others, PassTime, superVars, workerVars
    <2> QED BY <1>0, <2>1, SyncKept DEF Streams
  <1>5. ASSUME NEW s \in Slots, SettleTurn(s) PROVE Streams'
    <2>1. /\ done' = done /\ worker' = worker /\ turn'[s].result = "none"
          /\ \A t \in Slots \ {s} : turn'[t] = turn[t]
      BY <1>0, <1>5 DEF SettleTurn, workerVars, NoTurn
    <2>2. ~InFlight(s)
      BY <1>5 DEF SettleTurn, Phases, InFlight
    <2>3. InSync(s)'
      BY <1>0, <2>1, <2>2, SyncIdle
    <2>4. \A t \in Slots \ {s} : InSync(t)'
      BY <1>0, <2>1, SyncKept
    <2> QED BY <2>3, <2>4 DEF Streams
  <1>6. ASSUME NEW s \in Slots, SlotStep(s) PROVE Streams'
    BY <1>6, SlotStepStreams
  <1>7. CASE Work
    BY <1>7, WorkStreams DEF Work
  <1>8. CASE Interrupting
    <2>1. /\ turn' = turn /\ done' = done
          /\ \A s \in Slots : worker'[s] = worker[s] \/ worker'[s] = Dead(worker[s])
      BY <1>0, <1>8 DEF Interrupting, RequestInterrupt, Signal, superVars, workerVars
    <2> QED BY <1>0, <2>1, SyncKept DEF Streams
  <1>9. CASE Crash
    <2>1. \A s \in Slots : worker'[s] = Dead(Started) /\ turn'[s] = NoTurn
      BY <1>9 DEF Crash
    <2>2. Started.replies = <<>>
      BY DEF Started
    <2> QED BY <2>1, <2>2, WorkerTypes DEF Streams, InSync, InFlight, NoTurn
  <1> QED BY <1>0, <1>1, <1>2, <1>3, <1>4, <1>5, <1>6, <1>7, <1>8, <1>9 DEF SupervisorNext, Supervise, SlotStep

\* What a step does to the inbox: it leaves it alone or lets others at it, takes
\* or settles a turn, or passes time.
LEMMA StepCases ==
  ASSUME SupervisorTypeOK, Phases, SupervisorNext
  PROVE  \/ Quiet
         \/ PassTime
         \/ ClaimSlot /\ \E e \in EventIds : TakeTurn(e)
         \/ \E s \in Slots : turn[s] # NoTurn /\ DispatchFailure(s)
         \/ \E s \in Slots : turn[s] # NoTurn /\ turn[s].result = "ok" /\ Ack(turn[s].event)
  <1>1. ClaimSlot => (\E e \in EventIds : TakeTurn(e)) \/ Quiet
    BY DEF ClaimSlot, Quiet
  <1>2. DropTurn => turn[next] # NoTurn /\ DispatchFailure(next) /\ next \in Slots
    BY DEF DropTurn, Phases, SupervisorTypeOK
  <1>3. ASSUME NEW s \in Slots, SettleTurn(s)
        PROVE  turn[s] # NoTurn /\ (DispatchFailure(s) \/ (turn[s].result = "ok" /\ Ack(turn[s].event)))
    BY <1>3 DEF SettleTurn
  <1>4. ASSUME NEW s \in Slots, SlotStep(s) PROVE Quiet
    BY <1>4, SlotStepFacts DEF Quiet
  <1>5. CASE BeginBatch \/ BeginSettle \/ EndBatch \/ SkipSlot \/ Crash
    BY <1>5 DEF BeginBatch, BeginSettle, EndBatch, SkipSlot, Crash, Quiet
  <1>6. CASE Work \/ Interrupting \/ Others \/ PassTime
    BY <1>6, OutsideFacts
  <1> QED BY <1>1, <1>2, <1>3, <1>4, <1>5, <1>6 DEF SupervisorNext, Supervise, SlotStep

\* An ack follows an "ok" in sync.
LEMMA AckedKept ==
  ASSUME InboxTypeOK, SupervisorTypeOK, Phases, Streams, AckedIsDone, SupervisorNext
  PROVE  AckedIsDone'
  <1>1. done \subseteq done'
    <2>1. ASSUME NEW s \in Slots, SlotStep(s) PROVE done' = done
      BY <2>1, SlotStepFacts
    <2>2. Work => done \subseteq done'
      BY DEF Work, Apply, Reply, WorkerDies
    <2>3. Interrupting => done' = done
      BY DEF Interrupting, RequestInterrupt, Signal, workerVars
    <2>4. CASE \/ BeginBatch \/ ClaimSlot \/ DropTurn \/ BeginSettle \/ EndBatch \/ SkipSlot \/ Crash \/ Others
               \/ PassTime \/ \E s \in Slots : SettleTurn(s)
      BY <2>4 DEF BeginBatch, ClaimSlot, DropTurn, BeginSettle, EndBatch, SkipSlot, Crash, Others, PassTime,
         SettleTurn, workerVars
    <2> QED BY <2>1, <2>2, <2>3, <2>4 DEF SupervisorNext, Supervise, SlotStep
  <1>2. ASSUME NEW e \in EventIds, status'[e] = "acked", status[e] # "acked" PROVE e \in done
    <2>1. ~Quiet /\ ~PassTime
      BY <1>2, QuietFacts, TickFacts DEF PassTime
    <2>2. ASSUME NEW d \in EventIds, TakeTurn(d) PROVE FALSE
      BY <1>2, <2>2, ClaimFacts DEF TakeTurn
    <2>3. ASSUME NEW s \in Slots, turn[s] # NoTurn, DispatchFailure(s) PROVE FALSE
      <3>1. UNCHANGED inboxVars \/ (turn[s].event \in EventIds /\ Fail(turn[s].event))
        BY <2>3, FailureFacts
      <3> QED BY <1>2, <3>1, SettleFacts DEF inboxVars
    <2>4. PICK s \in Slots : turn[s] # NoTurn /\ turn[s].result = "ok" /\ Ack(turn[s].event)
      BY <2>1, <2>2, <2>3, StepCases
    <2>5. turn[s].event \in EventIds /\ turn[s].event \in done
      BY <2>4, TurnFacts DEF Streams, InSync
    <2> QED BY <1>2, <2>4, <2>5, SettleFacts
  <1> QED BY <1>1, <1>2 DEF AckedIsDone
-----------------------------------------------------------------------------
(* Claims and attempts *)

\* Inside a batch the leases of its turns have not run out.
LEMMA HeldFacts ==
  ASSUME InboxTypeOK, SupervisorTypeOK, Held, NEW s \in Slots, turn[s] # NoTurn
  PROVE  /\ turn[s].event \in EventIds /\ status[turn[s].event] = "processing"
         /\ lease[turn[s].event] > 0 /\ attempts[turn[s].event] = turn[s].attempt
         /\ elapsed \in Nat /\ lease[turn[s].event] + elapsed >= LeaseTicks
  <1>1. turn[s].event \in EventIds
    BY TurnFacts
  <1>2. elapsed \in Nat /\ elapsed < LeaseTicks /\ lease[turn[s].event] \in Nat
    BY <1>1, SupervisorAssumption, InboxAssumption DEF SupervisorTypeOK, InboxTypeOK
  <1> QED BY <1>1, <1>2, InboxAssumption DEF Held

\* An event that can be claimed is in no turn.
LEMMA TakenFacts ==
  ASSUME InboxTypeOK, SupervisorTypeOK, Held, NEW e \in EventIds, TakeTurn(e)
  PROVE  ~InTurn(e)
  <1> SUFFICES ASSUME NEW s \in Slots, turn[s].event = e PROVE FALSE
    BY DEF InTurn
  <1>1. turn[s] # NoTurn
    BY DEF NoTurn, EventIds
  <1>2. status[e] = "processing" => lease[e] = 0
    BY ClaimFacts DEF TakeTurn
  <1> QED BY <1>1, <1>2, HeldFacts, InboxAssumption DEF InboxTypeOK

\* The batch ends the turn of slot s, with or without settling its event.
EndsTurn(s) == /\ turn[s] # NoTurn /\ turn' = [turn EXCEPT ![s] = NoTurn]
               /\ DispatchFailure(s) \/ (turn[s].result = "ok" /\ Ack(turn[s].event))
               /\ UNCHANGED <<elapsed, faults, marked, interrupt>>
               /\ s \notin hits'
               /\ \A t \in hits' : t \in hits

LEMMA EndsTurnFacts ==
  ASSUME InboxTypeOK, SupervisorTypeOK, NEW s \in Slots, EndsTurn(s)
  PROVE  /\ turn'[s] = NoTurn /\ \A t \in Slots \ {s} : turn'[t] = turn[t]
         /\ turn[s].event \in EventIds /\ attempts' = attempts
         /\ \A d \in EventIds \ {turn[s].event} : status'[d] = status[d] /\ lease'[d] = lease[d]
         /\ \/ status'[turn[s].event] \in Settled
            \/ status' = status /\ turn[s].attempt < MaxAttempts
  <1>1. turn \in [Slots -> Turns] /\ turn[s].event \in EventIds
    BY TurnFacts DEF SupervisorTypeOK, EndsTurn
  <1>2. (UNCHANGED inboxVars /\ turn[s].attempt < MaxAttempts) \/ Fail(turn[s].event) \/ Ack(turn[s].event)
    BY FailureFacts DEF EndsTurn
  <1> QED BY <1>1, <1>2, SettleFacts DEF EndsTurn, inboxVars

\* Which step a turn sees: it is taken, ended, or goes on.
LEMMA TurnCases ==
  ASSUME SupervisorTypeOK, Phases, Streams, HitsMarked, SupervisorNext
  PROVE  \/ \E s \in Slots : s = next /\ turn[s] = NoTurn /\ \E e \in EventIds :
               TakeTurn(e) /\ UNCHANGED <<elapsed, faults, marked, interrupt, hits>>
         \/ \E s \in Slots : EndsTurn(s)
         \/ \E s \in Slots : SlotStep(s)
         \/ Interrupting
         \/ Crash
         \/ PassTime /\ UNCHANGED <<turn, faults, marked, interrupt, hits>>
         \/ /\ Quiet /\ UNCHANGED <<turn, marked, interrupt, hits>>
            /\ faults' = faults \/ faults' = faults + 1
            /\ elapsed' = elapsed \/ \A s \in Slots : turn[s] = NoTurn
  <1>1. next \in Slots
    BY DEF SupervisorTypeOK
  <1>2. CASE ClaimSlot
    BY <1>1, <1>2 DEF ClaimSlot, Phases, Quiet, interruptVars
  <1>3. CASE DropTurn
    <2>1. next \notin hits /\ turn[next] # NoTurn
      BY <1>1, <1>3 DEF DropTurn, Phases, HitsMarked
    <2>2. EndsTurn(next)
      BY <1>3, <2>1 DEF DropTurn, EndsTurn, interruptVars
    <2> QED BY <1>1, <2>2
  <1>4. ASSUME NEW s \in Slots, SettleTurn(s) PROVE EndsTurn(s)
    BY <1>4 DEF SettleTurn, EndsTurn
  <1>5. CASE BeginBatch \/ EndBatch
    BY <1>5 DEF BeginBatch, EndBatch, Phases, Quiet, interruptVars
  <1>6. CASE BeginSettle \/ Others \/ Work
    BY <1>6 DEF BeginSettle, Others, Work, Apply, Reply, WorkerDies, Quiet, interruptVars, superVars
  <1>7. CASE SkipSlot
    BY <1>7 DEF SkipSlot, Fault, Quiet, interruptVars
  <1>8. CASE PassTime
    BY <1>8 DEF PassTime, interruptVars
  <1> QED BY <1>2, <1>3, <1>4, <1>5, <1>6, <1>7, <1>8 DEF SupervisorNext, Supervise, SlotStep

LEMMA HeldKept ==
  ASSUME InboxTypeOK, SupervisorTypeOK, Phases, Streams, HitsMarked, Held, SupervisorNext
  PROVE  Held'
  <1> USE InboxAssumption, SupervisorAssumption
  <1>0. turn \in [Slots -> Turns]
    BY DEF SupervisorTypeOK
  <1>1. ASSUME NEW n \in Slots, n = next, turn[n] = NoTurn, NEW e \in EventIds, TakeTurn(e), elapsed' = elapsed
        PROVE  Held'
    <2>1. /\ turn'[n].event = e /\ turn'[n].attempt = attempts'[e] /\ \A s \in Slots \ {n} : turn'[s] = turn[s]
      BY <1>0, <1>1 DEF TakeTurn
    <2>2. status'[e] = "processing" /\ lease'[e] = LeaseTicks /\ elapsed \in Nat
      BY <1>1, ClaimFacts DEF TakeTurn, SupervisorTypeOK
    <2>3. ASSUME NEW s \in Slots \ {n}, turn[s] # NoTurn
          PROVE  /\ turn[s].event \in EventIds /\ turn[s].event # e
                 /\ status'[turn[s].event] = "processing"
                 /\ attempts'[turn[s].event] = attempts[turn[s].event]
                 /\ lease'[turn[s].event] = lease[turn[s].event]
      <3>1. turn[s].event \in EventIds \ {e}
        BY <1>1, <2>3, TakenFacts, HeldFacts DEF InTurn
      <3> QED BY <1>1, <2>3, <3>1, ClaimFacts, HeldFacts DEF TakeTurn
    <2>4. ASSUME NEW s \in Slots, turn'[s] # NoTurn
          PROVE  /\ status'[turn'[s].event] = "processing"
                 /\ attempts'[turn'[s].event] = turn'[s].attempt
                 /\ lease'[turn'[s].event] + elapsed' >= LeaseTicks
      <3>1. CASE s = n
        BY <1>1, <2>1, <2>2, <3>1
      <3>2. CASE s # n
        BY <1>1, <2>1, <2>3, <2>4, <3>2, HeldFacts
      <3> QED BY <3>1, <3>2
    <2>5. ASSUME NEW s \in Slots, NEW t \in Slots, turn'[s] # NoTurn, turn'[s].event = turn'[t].event
          PROVE  s = t
      <3>1. CASE s # n /\ t # n
        BY <2>1, <2>5, <3>1 DEF Held
      <3>2. CASE s = n /\ t # n
        <4>1. turn[t].event = e /\ turn[t] # NoTurn
          BY <2>1, <2>5, <3>2 DEF NoTurn, EventIds
        <4> QED BY <2>3, <3>2, <4>1
      <3>3. CASE s # n /\ t = n
        BY <2>1, <2>3, <2>5, <3>3
      <3> QED BY <3>1, <3>2, <3>3
    <2> QED BY <2>4, <2>5 DEF Held
  <1>2. ASSUME NEW n \in Slots, EndsTurn(n) PROVE Held'
    <2>1. elapsed' = elapsed /\ turn[n] # NoTurn
      BY <1>2 DEF EndsTurn
    <2>2. ASSUME NEW s \in Slots, turn'[s] # NoTurn
          PROVE  /\ s # n /\ turn'[s] = turn[s] /\ turn[s].event \in EventIds
                 /\ turn[s].event # turn[n].event
      <3>1. s # n /\ turn'[s] = turn[s]
        BY <1>2, <2>2, EndsTurnFacts
      <3>2. turn[s].event # turn[n].event
        BY <2>1, <3>1 DEF Held
      <3> QED BY <2>2, <3>1, <3>2, HeldFacts
    <2>3. ASSUME NEW s \in Slots, turn'[s] # NoTurn
          PROVE  /\ status'[turn'[s].event] = "processing"
                 /\ attempts'[turn'[s].event] = turn'[s].attempt
                 /\ lease'[turn'[s].event] + elapsed' >= LeaseTicks
      BY <1>2, <2>1, <2>2, <2>3, EndsTurnFacts, HeldFacts
    <2>4. ASSUME NEW s \in Slots, NEW t \in Slots, turn'[s] # NoTurn, turn'[s].event = turn'[t].event
          PROVE  s = t
      <3>1. turn[s] # NoTurn /\ turn'[s] = turn[s]
        BY <2>2, <2>4
      <3>2. t # n
        BY <1>2, <2>2, <2>4, <3>1, EndsTurnFacts DEF NoTurn, EventIds
      <3> QED BY <1>2, <2>4, <3>1, <3>2, EndsTurnFacts DEF Held
    <2> QED BY <2>3, <2>4 DEF Held
  <1>3. ASSUME NEW n \in Slots, SlotStep(n) PROVE Held'
    <2>1. /\ turn[n] # NoTurn /\ UNCHANGED <<inboxVars, elapsed>>
          /\ \A s \in Slots : turn'[s].event = turn[s].event /\ turn'[s].attempt = turn[s].attempt
          /\ \A s \in Slots : turn'[s] # NoTurn => turn[s] # NoTurn
      BY <1>3, SlotStepFacts
    <2> QED BY <2>1 DEF Held, inboxVars
  <1>4. CASE turn' = turn /\ elapsed' = elapsed /\ Quiet
    <2>1. ASSUME NEW s \in Slots, turn[s] # NoTurn
          PROVE  /\ status'[turn[s].event] = "processing"
                 /\ attempts'[turn[s].event] = turn[s].attempt
                 /\ lease'[turn[s].event] + elapsed' >= LeaseTicks
      BY <1>4, <2>1, HeldFacts, QuietFacts
    <2> QED BY <1>4, <2>1 DEF Held
  <1>5. CASE \A s \in Slots : turn'[s] = NoTurn
    BY <1>5 DEF Held
  <1>6. CASE PassTime /\ turn' = turn /\ phase # "rest"
    <2>1. elapsed' = elapsed + 1 /\ Tick
      BY <1>6 DEF PassTime
    <2>2. ASSUME NEW s \in Slots, turn[s] # NoTurn
          PROVE  /\ status'[turn[s].event] = "processing"
                 /\ attempts'[turn[s].event] = turn[s].attempt
                 /\ lease'[turn[s].event] + elapsed' >= LeaseTicks
      <3>1. /\ turn[s].event \in EventIds /\ lease[turn[s].event] \in Nat /\ elapsed \in Nat
            /\ lease[turn[s].event] + elapsed >= LeaseTicks
        BY <2>2, HeldFacts DEF InboxTypeOK
      <3>2. lease'[turn[s].event] \in Nat /\ lease'[turn[s].event] + 1 >= lease[turn[s].event]
        BY <2>1, <3>1, TickFacts DEF Tick, TickLeases, Shorter
      <3> QED BY <2>1, <2>2, <3>1, <3>2, HeldFacts, TickFacts
    <2> QED BY <1>6, <2>2 DEF Held
  <1>7. Crash => \A s \in Slots : turn'[s] = NoTurn
    BY DEF Crash
  <1>8. Interrupting => turn' = turn /\ elapsed' = elapsed /\ Quiet
    BY DEF Interrupting, RequestInterrupt, Signal, superVars, Quiet
  <1>9. phase = "rest" => \A s \in Slots : turn[s] = NoTurn
    BY DEF Phases
  <1> QED BY <1>1, <1>2, <1>3, <1>4, <1>5, <1>6, <1>7, <1>8, <1>9, TurnCases

LEMMA AttemptsKept ==
  ASSUME InboxTypeOK, SupervisorTypeOK, Phases, Streams, HitsMarked, Held, AttemptLeft, BoundedDelivery,
         SupervisorNext
  PROVE  AttemptLeft' /\ BoundedDelivery'
  <1> USE SupervisorAssumption, InboxAssumption
  <1>0. attempts \in [EventIds -> 0..MaxClaims] /\ faults \in Nat /\ turn \in [Slots -> Turns]
    BY DEF InboxTypeOK, SupervisorTypeOK
  <1>1. ASSUME NEW n \in Slots, n = next, turn[n] = NoTurn, NEW e \in EventIds, TakeTurn(e), faults' = faults
        PROVE  AttemptLeft' /\ BoundedDelivery'
    <2>1. /\ turn'[n].event = e /\ \A s \in Slots \ {n} : turn'[s] = turn[s]
      BY <1>0, <1>1 DEF TakeTurn
    <2>2. attempts[e] < MaxAttempts + faults
      BY <1>1, ClaimFacts, TakenFacts DEF AttemptLeft, TakeTurn
    <2>3. \A d \in EventIds : InTurn(d) => InTurn(d)'
      BY <1>1, <2>1 DEF InTurn, NoTurn, EventIds
    <2>4. InTurn(e)'
      BY <2>1 DEF InTurn
    <2>5. /\ attempts'[e] = attempts[e] + 1
          /\ \A d \in EventIds \ {e} : /\ attempts'[d] = attempts[d]
                                       /\ status'[d] \in Settled <=> status[d] \in Settled
      BY <1>1, ClaimFacts DEF TakeTurn
    <2>6. BoundedDelivery'
      BY <1>0, <1>1, <2>2, <2>5 DEF BoundedDelivery
    <2>7. AttemptLeft'
      BY <1>0, <1>1, <2>3, <2>4, <2>5 DEF AttemptLeft
    <2> QED BY <2>6, <2>7
  <1>2. ASSUME NEW n \in Slots, EndsTurn(n) PROVE AttemptLeft' /\ BoundedDelivery'
    <2>1. attempts' = attempts /\ faults' = faults /\ turn[n] # NoTurn /\ turn[n].event \in EventIds
      BY <1>2, EndsTurnFacts DEF EndsTurn
    <2>2. \A d \in EventIds \ {turn[n].event} :
            (InTurn(d) => InTurn(d)') /\ (status'[d] \in Settled <=> status[d] \in Settled)
      BY <1>2, EndsTurnFacts DEF InTurn
    <2>3. status'[turn[n].event] \notin Settled => attempts[turn[n].event] < MaxAttempts
      BY <1>2, <2>1, EndsTurnFacts, HeldFacts
    <2> QED BY <1>0, <2>1, <2>2, <2>3 DEF AttemptLeft, BoundedDelivery
  <1>3. CASE /\ \A s \in Slots : turn'[s].event = turn[s].event
             /\ faults' = faults \/ faults' = faults + 1
             /\ Quiet \/ PassTime
    <2>1. attempts' = attempts /\ \A d \in EventIds : status'[d] \in Settled <=> status[d] \in Settled
      BY <1>3, QuietFacts, TickFacts DEF PassTime
    <2>2. \A d \in EventIds : InTurn(d) <=> InTurn(d)'
      BY <1>3 DEF InTurn
    <2> QED BY <1>0, <1>3, <2>1, <2>2 DEF AttemptLeft, BoundedDelivery
  <1>4. CASE Crash
    <2>1. faults' = faults + 1 /\ attempts' = attempts /\ status' = status
      BY <1>4 DEF Crash, Fault, inboxVars
    <2> QED BY <1>0, <2>1 DEF AttemptLeft, BoundedDelivery
  <1>5. ASSUME NEW s \in Slots, SlotStep(s)
        PROVE  (\A t \in Slots : turn'[t].event = turn[t].event) /\ faults' = faults /\ Quiet
    BY <1>5, SlotStepFacts DEF Quiet
  <1>6. Interrupting => turn' = turn /\ faults' = faults /\ Quiet
    BY DEF Interrupting, RequestInterrupt, Signal, superVars, Quiet
  <1> QED BY <1>1, <1>2, <1>3, <1>4, <1>5, <1>6, TurnCases
-----------------------------------------------------------------------------
(* Interrupts *)

LEMMA HitsKept ==
  ASSUME InboxTypeOK, SupervisorTypeOK, Phases, Streams, HitsMarked, Held, SupervisorNext
  PROVE  HitsMarked'
  <1> USE InboxAssumption, SupervisorAssumption
  <1> DEFINE i == interrupt.slot
             t == interrupt.turn
  <1>0. /\ turn \in [Slots -> Turns] /\ attempts \in [EventIds -> 0..MaxClaims] /\ hits \subseteq Slots
        /\ t # NoTurn => i \in Slots /\ t.event \in EventIds /\ t.attempt \in Nat
    BY DEF InboxTypeOK, SupervisorTypeOK, Turns, NoInterrupt
  <1>1. ASSUME NEW n \in Slots, n = next, turn[n] = NoTurn, NEW e \in EventIds, TakeTurn(e),
               UNCHANGED <<marked, interrupt, hits>>
        PROVE  HitsMarked'
    <2>1. /\ turn'[n].result = "claimed" /\ turn'[n].event = e /\ turn'[n].attempt = attempts'[e]
          /\ \A s \in Slots \ {n} : turn'[s] = turn[s]
      BY <1>0, <1>1 DEF TakeTurn
    <2>2. n \notin hits
      BY <1>1 DEF HitsMarked, NoTurn
    <2>3. attempts'[e] = attempts[e] + 1 /\ \A d \in EventIds \ {e} : attempts'[d] = attempts[d]
      BY <1>1, ClaimFacts DEF TakeTurn
    <2>4. ASSUME NEW s \in hits'
          PROVE  turn'[s].result \in {"sent", "error"} /\ (InFlight(s)' => s \in marked')
      BY <1>0, <1>1, <2>1, <2>2, <2>4 DEF HitsMarked, InFlight
    <2>5. ASSUME t # NoTurn
          PROVE  /\ t.result = "sent" /\ t.attempt <= attempts'[t.event]
                 /\ turn'[i] = t => i \in marked
                 /\ turn'[i].result = "claimed" /\ turn'[i].event = t.event => turn'[i].attempt > t.attempt
      <3>1. t.result = "sent" /\ t.attempt <= attempts[t.event]
        BY <2>5 DEF HitsMarked
      <3>2. t.attempt <= attempts'[t.event] /\ (t.event = e => t.attempt < attempts'[e])
        BY <1>0, <2>3, <2>5, <3>1
      <3>3. CASE i = n
        BY <2>1, <2>5, <3>1, <3>2, <3>3
      <3>4. CASE i # n
        BY <1>0, <2>1, <2>5, <3>1, <3>2, <3>4 DEF HitsMarked
      <3> QED BY <3>3, <3>4
    <2> QED BY <1>1, <2>4, <2>5 DEF HitsMarked
  <1>2. ASSUME NEW n \in Slots, EndsTurn(n) PROVE HitsMarked'
    <2>1. /\ turn'[n] = NoTurn /\ \A s \in Slots \ {n} : turn'[s] = turn[s]
          /\ attempts' = attempts /\ UNCHANGED <<marked, interrupt>>
          /\ n \notin hits' /\ \A s \in hits' : s \in hits
      BY <1>2, EndsTurnFacts DEF EndsTurn
    <2>2. turn'[n].result = "none"
      BY <2>1 DEF NoTurn
    <2>3. ASSUME NEW s \in hits'
          PROVE  turn'[s].result \in {"sent", "error"} /\ (InFlight(s)' => s \in marked')
      BY <1>0, <2>1, <2>3 DEF HitsMarked, InFlight
    <2>4. ASSUME t # NoTurn
          PROVE  /\ t.result = "sent" /\ t.attempt <= attempts'[t.event]
                 /\ turn'[i] = t => i \in marked
                 /\ turn'[i].result = "claimed" /\ turn'[i].event = t.event => turn'[i].attempt > t.attempt
      BY <1>0, <2>1, <2>2, <2>4 DEF HitsMarked
    <2> QED BY <2>1, <2>3, <2>4 DEF HitsMarked
  <1>3. ASSUME NEW n \in Slots, SlotStep(n) PROVE HitsMarked'
    <2>1. /\ turn[n].result \in {"claimed", "sent"} /\ turn'[n].result \in {"sent", "ok", "error"}
          /\ turn'[n].event = turn[n].event /\ turn'[n].attempt = turn[n].attempt
          /\ turn'[n].result = "sent" => Send(n)
          /\ \A s \in Slots \ {n} : turn'[s] = turn[s] /\ (s \in marked' <=> s \in marked)
          /\ attempts' = attempts
      BY <1>3, SlotStepFacts DEF inboxVars
    <2>2. UNCHANGED <<interrupt, hits>>
      BY <1>3 DEF SlotStep, Send, Receive, Closed, Timeout, Answered
    <2>3. Send(n) => turn[n].result = "claimed" /\ n \notin hits
      BY DEF Send, HitsMarked
    <2>4. n \in hits => turn'[n].result # "ok" /\ turn'[n].result # "sent"
      <3>1. SUFFICES ASSUME n \in hits PROVE turn'[n].result # "ok"
        BY <2>1, <2>3
      <3>2. ~Send(n) /\ InFlight(n) /\ n \in marked
        BY <2>1, <2>3, <3>1 DEF HitsMarked, InFlight
      <3>3. ASSUME NEW reply, Answered(n, reply) PROVE turn'[n].result = "error"
        <4>1. turn' = [turn EXCEPT ![n].result = "error"]
          BY <3>2, <3>3 DEF Answered, Result
        <4>2. turn[n] \in [event : EventIds, attempt : 1..MaxClaims, result : Results]
          BY <1>0, <3>2 DEF Turns, NoTurn, InFlight
        <4> QED BY <1>0, <4>1, <4>2
      <3> QED BY <1>3, <3>2, <3>3 DEF SlotStep, Receive, Closed, Timeout
    <2>5. ASSUME NEW s \in hits'
          PROVE  turn'[s].result \in {"sent", "error"} /\ (InFlight(s)' => s \in marked')
      <3>1. CASE s = n
        BY <2>1, <2>2, <2>4, <2>5, <3>1 DEF InFlight
      <3>2. CASE s # n
        BY <1>0, <2>1, <2>2, <2>5, <3>2 DEF InFlight, HitsMarked
      <3> QED BY <3>1, <3>2
    <2>6. ASSUME t # NoTurn
          PROVE  /\ t.result = "sent" /\ t.attempt <= attempts'[t.event]
                 /\ turn'[i] = t => i \in marked'
                 /\ turn'[i].result = "claimed" /\ turn'[i].event = t.event => turn'[i].attempt > t.attempt
      <3>1. CASE i = n
        <4>1. turn'[n] = t => Send(n) /\ turn[n].event = t.event /\ turn[n].attempt = t.attempt
          BY <2>1, <2>6 DEF HitsMarked
        <4>2. turn'[n] # t
          BY <1>0, <2>3, <2>6, <3>1, <4>1 DEF HitsMarked
        <4> QED BY <2>1, <2>6, <3>1, <4>2 DEF HitsMarked
      <3>2. CASE i # n
        BY <1>0, <2>1, <2>6, <3>2 DEF HitsMarked
      <3> QED BY <3>1, <3>2
    <2> QED BY <2>2, <2>5, <2>6 DEF HitsMarked
  <1>4. CASE Interrupting
    <2>1. turn' = turn /\ attempts' = attempts
      BY <1>4 DEF Interrupting, RequestInterrupt, Signal, superVars, inboxVars
    <2>2. ASSUME NEW n \in Slots, RequestInterrupt(n) PROVE HitsMarked'
      <3>1. InFlight(n) => turn[n].result = "sent" /\ attempts[turn[n].event] = turn[n].attempt /\ turn[n] # NoTurn
                           /\ turn[n].attempt \in Nat
        BY HeldFacts, TurnFacts DEF InFlight, NoTurn
      <3>2. hits' = hits /\ marked \subseteq marked' /\ (InFlight(n) => n \in marked')
        BY <2>2 DEF RequestInterrupt, Marked
      <3>3. InFlight(n) /\ interrupt'.slot = n /\ interrupt'.turn = turn[n]
        BY <2>2 DEF RequestInterrupt
      <3> QED BY <2>1, <3>1, <3>2, <3>3 DEF HitsMarked, InFlight
    <2>3. CASE Signal
      <3>1. interrupt'.turn = NoTurn
        BY <2>3 DEF Signal, NoInterrupt
      <3>2. ASSUME NEW s \in hits'
            PROVE  turn[s].result \in {"sent", "error"} /\ (InFlight(s) => s \in marked')
        <4>1. interrupt.turn # NoTurn
          BY <2>3 DEF Signal, SupervisorTypeOK
        <4> QED BY <2>3, <3>2, <4>1 DEF Signal, HitsMarked, InFlight
      <3> QED BY <2>1, <3>1, <3>2 DEF HitsMarked, InFlight
    <2> QED BY <1>4, <2>2, <2>3 DEF Interrupting
  <1>5. CASE Crash
    BY <1>5 DEF Crash, HitsMarked, NoInterrupt
  <1>6. CASE (Quiet \/ PassTime) /\ UNCHANGED <<turn, marked, interrupt, hits>>
    <2>1. attempts' = attempts
      BY <1>6, QuietFacts, TickFacts DEF PassTime
    <2> QED BY <1>6, <2>1 DEF HitsMarked, InFlight
  <1> QED BY <1>1, <1>2, <1>3, <1>4, <1>5, <1>6, TurnCases
-----------------------------------------------------------------------------
(* The theorems *)

LEMMA SupervisorInitInv == SupervisorInit => SupervisorInv
  <1> SUFFICES ASSUME SupervisorInit PROVE SupervisorInv
    OBVIOUS
  <1> USE SupervisorAssumption, InboxAssumption
  <1>1. InboxInv
    BY InitInv DEF SupervisorInit
  <1>2. SupervisorTypeOK
    BY WorkerTypes DEF SupervisorInit, SupervisorTypeOK, Turns, Slots
  <1>3. \A s \in Slots : worker[s] = Dead(Started) /\ turn[s] = NoTurn
    BY DEF SupervisorInit
  <1>4. Started.replies = <<>>
    BY DEF Started
  <1>5. Streams
    BY <1>3, <1>4, WorkerTypes DEF Streams, InSync, InFlight, NoTurn
  <1>6. Phases /\ Held /\ HitsMarked
    BY <1>3 DEF SupervisorInit, Phases, Held, HitsMarked, NoTurn, NoInterrupt
  <1>7. AttemptLeft /\ BoundedDelivery /\ AckedIsDone
    BY DEF SupervisorInit, InboxInit, AttemptLeft, BoundedDelivery, AckedIsDone
  <1> QED BY <1>1, <1>2, <1>5, <1>6, <1>7 DEF SupervisorInv

LEMMA SupervisorNextInv == SupervisorInv /\ [SupervisorNext]_supervisorVars => SupervisorInv'
  <1> SUFFICES ASSUME SupervisorInv, [SupervisorNext]_supervisorVars PROVE SupervisorInv'
    OBVIOUS
  <1>0. InboxTypeOK
    BY DEF SupervisorInv, InboxInv
  <1>1. CASE SupervisorNext
    <2>1. InboxInv'
      BY StepIsInboxStep, NextInv DEF SupervisorInv
    <2>2. SupervisorTypeOK' /\ Phases'
      BY <1>0, <1>1, TypesKept, PhasesKept DEF SupervisorInv
    <2>3. Streams' /\ AckedIsDone'
      BY <1>0, <1>1, StreamsKept, AckedKept DEF SupervisorInv
    <2>4. Held' /\ AttemptLeft' /\ BoundedDelivery' /\ HitsMarked'
      BY <1>0, <1>1, HeldKept, AttemptsKept, HitsKept DEF SupervisorInv
    <2> QED BY <2>1, <2>2, <2>3, <2>4 DEF SupervisorInv
  <1>2. CASE UNCHANGED supervisorVars
    <2>1. InboxInv'
      BY StepIsInboxStep, NextInv DEF SupervisorInv
    <2>2. UNCHANGED <<inboxVars, phase, next, turn, elapsed, faults, worker, done, marked, interrupt,
                      interrupts, hits>>
      BY <1>2 DEF supervisorVars, superVars, workerVars, interruptVars
    <2>3. SupervisorTypeOK' /\ Phases'
      BY <2>2 DEF SupervisorInv, SupervisorTypeOK, Phases
    <2>4. Streams' /\ AckedIsDone'
      BY <2>2 DEF SupervisorInv, Streams, InSync, InFlight, AckedIsDone, inboxVars
    <2>5. Held' /\ AttemptLeft' /\ BoundedDelivery' /\ HitsMarked'
      BY <2>2 DEF SupervisorInv, Held, AttemptLeft, InTurn, BoundedDelivery, HitsMarked, InFlight, inboxVars
    <2> QED BY <2>1, <2>3, <2>4, <2>5 DEF SupervisorInv
  <1> QED BY <1>1, <1>2

\* The inductive invariant holds of every state of a supervisor.
THEOREM SupervisorInvHolds == SupervisorSpec => []SupervisorInv
  BY SupervisorInitInv, SupervisorNextInv, PTL DEF SupervisorSpec

\* Slots, pipes, marks and claims have values of their types.
THEOREM SupervisorTypes == SupervisorSpec => []SupervisorTypeOK
  <1>1. SupervisorInv => SupervisorTypeOK
    BY DEF SupervisorInv
  <1> QED BY <1>1, SupervisorInvHolds, PTL

\* A supervisor, its workers, its crashes and the users of the board use the
\* inbox as Inbox allows: every theorem about the inbox holds of them.
THEOREM UsesInbox == SupervisorSpec => InboxSpec
  <1>1. SupervisorInit => InboxInit
    BY DEF SupervisorInit
  <1>2. SupervisorInv /\ [SupervisorNext]_supervisorVars => [InboxNext]_inboxVars
    BY StepIsInboxStep DEF SupervisorInv
  <1> QED BY <1>1, <1>2, SupervisorInvHolds, PTL DEF SupervisorSpec, InboxSpec

\* An event is acked only when its effects are durable, whatever times out,
\* dies, answers late or is interrupted.
THEOREM AckOnlyWhenDone == SupervisorSpec => []AckedIsDone
  <1>1. SupervisorInv => AckedIsDone
    BY DEF SupervisorInv
  <1> QED BY <1>1, SupervisorInvHolds, PTL

\* A worker under a supervisor works under the claim it was sent.
THEOREM WorkUnderLease == SupervisorSpec => []WorksUnderLease
  <1>1. SupervisorInv => WorksUnderLease
    <2> SUFFICES ASSUME SupervisorInv, NEW s \in Slots, worker[s].todo # <<>>
                 PROVE  LET e == Head(worker[s].todo)
                        IN  status[e] = "processing" /\ attempts[e] = turn[s].attempt
      BY DEF WorksUnderLease
    <2>1. Head(worker[s].todo) = turn[s].event /\ turn[s] # NoTurn
      BY WorkingFacts DEF SupervisorInv, InFlight, NoTurn
    <2> QED BY <2>1 DEF SupervisorInv, Held
  <1> QED BY <1>1, SupervisorInvHolds, PTL

\* Deliveries are bounded by max_attempts and the crashes of the supervisor.
THEOREM DeliveryBounded == SupervisorSpec => []BoundedDelivery
  <1>1. SupervisorInv => BoundedDelivery
    BY DEF SupervisorInv
  <1> QED BY <1>1, SupervisorInvHolds, PTL

\* A turn that an interrupt hit, and whose mark no later interrupt has taken back
\* (supervisor.py:787), does not end as ok.
THEOREM StandingInterruptNotOk == SupervisorSpec => []InterruptedNotOk
  <1>1. SupervisorInv => InterruptedNotOk
    BY DEF SupervisorInv, HitsMarked, InterruptedNotOk
  <1> QED BY <1>1, SupervisorInvHolds, PTL
-----------------------------------------------------------------------------
(* The pool and its transports *)

\* A slot that claims an event gives it.
LEMMA TakeTurnGives ==
  ASSUME SupervisorInv, NEW e \in EventIds, phase = "claim", TakeTurn(e), UNCHANGED done
  PROVE  Transport!TransportNext
  <1>1. /\ next \in Slots /\ turn \in [Slots -> Turns] /\ turn[next] = NoTurn
        /\ turn' = [turn EXCEPT ![next] = [event |-> e, attempt |-> attempts'[e], result |-> "claimed"]]
    BY DEF SupervisorInv, SupervisorTypeOK, Phases, TakeTurn
  <1>2. SeenTurns[next] = Transport!Idle
    BY <1>1 DEF SeenTurns, SeenResult, NoTurn, Transport!Idle
  <1>3. SeenTurns' = [SeenTurns EXCEPT ![next] = [event |-> e, result |-> "open"]]
    BY <1>1 DEF SeenTurns, SeenResult
  <1>4. Transport!Give(next, e)
    BY <1>2, <1>3 DEF Transport!Give
  <1> QED BY <1>1, <1>4 DEF Transport!TransportNext

\* A turn that ends: well, only when the effects are durable (InSync).
LEMMA EndOfTurnFinishes ==
  ASSUME SupervisorTypeOK, NEW s \in Slots, turn[s].result \in {"claimed", "sent"},
         NEW outcome \in {"ok", "error"}, outcome = "ok" => turn[s].event \in done,
         turn' = [turn EXCEPT ![s].result = outcome], UNCHANGED done
  PROVE  Transport!TransportNext
  <1>1. turn \in [Slots -> Turns] /\ turn[s].event \in EventIds
    BY DEF SupervisorTypeOK, Turns, NoTurn
  <1>2. SeenTurns[s].result = "open" /\ SeenTurns[s].event = turn[s].event
    BY DEF SeenTurns, SeenResult
  <1>3. SeenTurns' = [SeenTurns EXCEPT ![s].result = outcome]
    <2>1. /\ turn'[s].event = turn[s].event /\ turn'[s].result = outcome
          /\ \A t \in Slots \ {s} : turn'[t] = turn[t]
      BY <1>1 DEF Turns
    <2>2. SeenTurns'[s] = [event |-> turn[s].event, result |-> outcome]
      BY <2>1 DEF SeenTurns, SeenResult
    <2>3. [SeenTurns[s] EXCEPT !.result = outcome] = [event |-> turn[s].event, result |-> outcome]
      BY DEF SeenTurns
    <2>4. \A t \in Slots \ {s} : SeenTurns'[t] = SeenTurns[t]
      BY <2>1 DEF SeenTurns
    <2>5. SeenTurns' = [t \in Slots |-> SeenTurns'[t]] /\ SeenTurns = [t \in Slots |-> SeenTurns[t]]
      BY DEF SeenTurns
    <2> QED BY <2>2, <2>3, <2>4, <2>5
  <1>4. Transport!Finish(s, outcome)
    BY <1>2, <1>3 DEF Transport!Finish
  <1> QED BY <1>4 DEF Transport!TransportNext, Transport!Outcomes

\* Turns that are put away, settled or not.
LEMMA PutAwayLeaves ==
  ASSUME SupervisorTypeOK, NEW gone \in SUBSET Slots,
         turn' = [s \in Slots |-> IF s \in gone THEN NoTurn ELSE turn[s]], UNCHANGED done
  PROVE  Transport!TransportNext
  <1>1. SeenTurns' = [s \in Slots |-> IF s \in gone THEN Transport!Idle ELSE SeenTurns[s]]
    BY DEF SeenTurns, SeenResult, NoTurn, Transport!Idle
  <1>2. Transport!Leave(gone)
    BY <1>1 DEF Transport!Leave
  <1> QED BY <1>2 DEF Transport!TransportNext

\* Every step of the supervisor and its workers is one the transports allow.
LEMMA StepIsTransportStep ==
  ASSUME SupervisorInv, SupervisorInv', [SupervisorNext]_supervisorVars
  PROVE  [Transport!TransportNext]_(Transport!transportVars)
  <1>0. turn \in [Slots -> Turns] /\ SupervisorTypeOK
    BY DEF SupervisorInv, SupervisorTypeOK
  <1>1. UNCHANGED <<turn, done>> => UNCHANGED Transport!transportVars
    BY DEF SeenTurns, Transport!transportVars
  <1>2. ClaimSlot => Transport!TransportNext \/ UNCHANGED <<turn, done>>
    BY TakeTurnGives DEF ClaimSlot
  <1>3. ASSUME NEW s \in Slots, turn' = [turn EXCEPT ![s] = NoTurn], UNCHANGED done
        PROVE  Transport!TransportNext
    <2>1. {s} \in SUBSET Slots /\ turn' = [t \in Slots |-> IF t \in {s} THEN NoTurn ELSE turn[t]]
      BY <1>0, <1>3
    <2> QED BY <1>0, <1>3, <2>1, PutAwayLeaves
  <1>4. DropTurn => Transport!TransportNext
    BY <1>0, <1>3 DEF DropTurn, workerVars, SupervisorTypeOK
  <1>5. ASSUME NEW s \in Slots, SettleTurn(s) PROVE Transport!TransportNext
    BY <1>3, <1>5 DEF SettleTurn, workerVars
  <1>6. Crash => Transport!TransportNext
    <2> SUFFICES ASSUME Crash PROVE Transport!TransportNext
      OBVIOUS
    <2>1. turn' = [s \in Slots |-> IF s \in Slots THEN NoTurn ELSE turn[s]] /\ UNCHANGED done
      BY DEF Crash
    <2> QED BY <1>0, <2>1, PutAwayLeaves
  <1>7. ASSUME NEW s \in Slots, Send(s)
        PROVE  Transport!TransportNext \/ UNCHANGED Transport!transportVars
    <2>1. turn[s].result = "claimed" /\ UNCHANGED done
      BY <1>7 DEF Send
    <2>2. CASE turn' = [turn EXCEPT ![s].result = "sent"]
      <3>1. SeenTurns' = SeenTurns
        BY <1>0, <2>1, <2>2 DEF SeenTurns, SeenResult, Turns
      <3> QED BY <2>1, <3>1 DEF Transport!transportVars
    <2>3. CASE turn' = [turn EXCEPT ![s].result = "error"]
      BY <1>0, <2>1, <2>3, EndOfTurnFinishes
    <2> QED BY <1>7, <2>2, <2>3 DEF Send
  <1>8. ASSUME NEW s \in Slots, NEW reply, InFlight(s), Answered(s, reply), UNCHANGED done
        PROVE  Transport!TransportNext
    <2> DEFINE outcome == Result(s, reply)
    <2>1. outcome \in {"ok", "error"} /\ turn' = [turn EXCEPT ![s].result = outcome]
      BY <1>8 DEF Result, Answered
    <2>2. outcome = "ok" => turn[s].event \in done
      <3>1. turn'[s].result = outcome /\ turn'[s].event = turn[s].event
        BY <1>0, <2>1 DEF Turns
      <3>2. turn'[s].result = "ok" => turn'[s].event \in done'
        BY DEF SupervisorInv, Streams, InSync
      <3> QED BY <1>8, <3>1, <3>2
    <2> HIDE DEF outcome
    <2> QED BY <1>0, <1>8, <2>1, <2>2, EndOfTurnFinishes DEF InFlight
  <1>9. ASSUME NEW s \in Slots, Receive(s) \/ Closed(s) \/ Timeout(s)
        PROVE  Transport!TransportNext
    BY <1>8, <1>9 DEF Receive, Closed, Timeout, Answered
  <1>10. ASSUME NEW s \in Slots, Apply(s)
         PROVE  Transport!TransportNext
    <2>1. worker[s].todo = <<turn[s].event>> /\ turn[s].event \in EventIds
      BY <1>0, <1>10 DEF SupervisorInv, Streams, InSync, InFlight, Apply, Turns, NoTurn
    <2>2. Transport!Commit(turn[s].event)
      BY <1>10, <2>1 DEF Apply, superVars, SeenTurns, Transport!Commit
    <2> QED BY <2>1, <2>2 DEF Transport!TransportNext
  <1>11. CASE \/ BeginBatch \/ BeginSettle \/ EndBatch \/ Interrupting \/ SkipSlot \/ Others \/ PassTime
              \/ UNCHANGED supervisorVars \/ \E s \in Slots : Reply(s) \/ WorkerDies(s)
    <2>1. UNCHANGED <<turn, done>>
      BY <1>11 DEF BeginBatch, BeginSettle, EndBatch, Interrupting, SkipSlot, Others, PassTime,
         Signal, RequestInterrupt, Reply, WorkerDies, supervisorVars, superVars, workerVars
    <2> QED BY <1>1, <2>1
  <1> QED
    BY <1>1, <1>2, <1>4, <1>5, <1>6, <1>7, <1>9, <1>10, <1>11 DEF SupervisorNext, Supervise, Work

\* Over the native stream, with its lines, timeouts and interrupts, the slots of a
\* pool see turns that end once, and well only when the work is done: the same that
\* ServeProofs shows of one session over each transport.
THEOREM PoolImplementsTransport == SupervisorSpec => ImplementsTransport
  <1>1. SupervisorInit => Transport!TransportInit
    BY DEF SupervisorInit, SeenTurns, SeenResult, NoTurn, Transport!TransportInit, Transport!Idle
  <1>2. SupervisorInv /\ SupervisorInv' /\ [SupervisorNext]_supervisorVars
          => [Transport!TransportNext]_(Transport!transportVars)
    BY StepIsTransportStep
  <1> QED
    BY <1>1, <1>2, SupervisorInvHolds, PTL
    DEF SupervisorSpec, ImplementsTransport, Transport!TransportSpec
=============================================================================
