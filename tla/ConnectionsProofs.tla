-------------------------- MODULE ConnectionsProofs --------------------------
(***************************************************************************)
(* Any number of connections, statement by statement, with any leases and  *)
(* any number of events, implement the abstract queue, and a lock lasts as *)
(* long as its lease, except in the steps the two properties name.         *)
(*                                                                         *)
(* The invariant has to survive those steps as well: whatever they do, a   *)
(* lock belongs to an event in processing and ends with that event's       *)
(* lease; an event in processing has its lock unless it was robbed; and    *)
(* what a connection has passed over and what it is about to take agrees   *)
(* with the locks it read.                                                 *)
(***************************************************************************)
EXTENDS InboxConnections, TLAPS

\* Every lock belongs to an event in processing and ends with its lease.
LocksOfClaims ==
  \A a \in Artifacts : lock[a] # NoLock =>
     /\ lock[a].event \in EventIds
     /\ status[lock[a].event] = "processing"
     /\ lease[lock[a].event] = lock[a].until /\ lock[a].until \in Nat

\* Only a robbed turn is without its lock.
ClaimsHaveLocks ==
  \A e \in EventIds \ robbed :
     status[e] = "processing" /\ artifact[e] \in Artifacts => lock[artifact[e]].event = e

\* A method with locals l that is at step has read rows that are there; it passed
\* over what it read to be locked and is about to take what it read to be free.
Live(row, t) == row # NoLock /\ row.until >= t
ReadWell(step, l) ==
  /\ \A e \in l.ids \cup l.pending : status[e] # "none"
  /\ step \in {"look", "take"} =>
       \A d \in l.pending \ l.ids :
          \E r \in l.locks : r.artifact = artifact[d] /\ Live(r.row, l.now)
  /\ step = "take" =>
       \A e \in EventIds : Oldest(e, l.ids) /\ artifact[e] \in Artifacts =>
          \E r \in l.locks : r.artifact = artifact[e] /\ ~Live(r.row, l.now)
AllReadWell == \A c \in Conns : ReadWell(pc[c], local[c])

\* Rows that somebody holds are there; a date is given once, to an event that is
\* not in the inbox yet.
KnownRows == \A w \in Workers : \A e \in held[w] : status[e] # "none"
DatesGivenOnce ==
  \A c \in Conns : local[c].event # 0 =>
     /\ status[local[c].event] = "none"
     /\ \A b \in Conns : b # c => local[b].event # local[c].event

ConnInv == /\ ConnectionsTypeOK /\ LocksOfClaims /\ ClaimsHaveLocks
           /\ AllReadWell /\ KnownRows /\ DatesGivenOnce

LEMMA NotBeforeItself == \A i \in Int : ~(i < i)
OBVIOUS

LEMMA EventFacts == /\ EventIds \subseteq Int /\ 0 \notin EventIds
                    /\ \A e \in EventIds : e # 0 /\ e \in 0..MaxEvents
                    /\ \A e \in 0..MaxEvents : e # 0 => e \in EventIds
BY ConnectionsAssumption DEF EventIds

LEMMA TableTypes ==
  ASSUME ConnInv
  PROVE  /\ status \in [EventIds -> {"none"} \cup Active \cup Settled]
         /\ artifact \in [EventIds -> Artifacts \cup {NoArtifact}]
         /\ key \in [EventIds -> Keys \cup {NoKey}]
         /\ lease \in [EventIds -> NoLease..(MaxTime + LeaseTicks)]
         /\ lock \in [Artifacts -> LockRows]
         /\ held \in [Workers -> SUBSET EventIds] /\ pc \in [Conns -> Steps]
         /\ robbed \subseteq EventIds
         /\ local \in [Conns -> Locals(now)]
         /\ NoLease \in NoLease..(MaxTime + LeaseTicks)
         /\ NoLock \in LockRows /\ NoLock.event = 0
         /\ now \in 0..MaxTime /\ now \in Nat
         /\ Workers \subseteq Conns
BY ConnectionsAssumption DEF ConnInv, ConnectionsTypeOK, NoLease, NoLock, Conns, LockRows

LEMMA NoLocalsFacts ==
  ASSUME NEW t \in Nat
  PROVE  /\ NoLocals \in Locals(t)
         /\ NoLocals.ids = {} /\ NoLocals.pending = {} /\ NoLocals.event = 0
BY ConnectionsAssumption DEF NoLocals, Locals

\* A connection with nothing read can be at any step but those of a scan.
LEMMA NothingRead ==
  ASSUME NEW step, NEW l, l.ids = {}, l.pending = {}
  PROVE  ReadWell(step, l)
BY DEF ReadWell, Oldest

LEMMA InitInv == Init => ConnInv
<1> SUFFICES ASSUME Init
             PROVE  ConnInv
  OBVIOUS
<1>1. NoLocals \in Locals(0) /\ NoLocals.ids = {} /\ NoLocals.pending = {} /\ NoLocals.event = 0
  BY NoLocalsFacts
<1>2. ConnectionsTypeOK
  BY <1>1, ConnectionsAssumption DEF Init, ConnectionsTypeOK, NoLock, NoLease, Steps, LockRows
<1>3. AllReadWell
  BY <1>1, NothingRead DEF Init, AllReadWell
<1>4. DatesGivenOnce
  BY <1>1 DEF Init, DatesGivenOnce
<1> QED
  BY <1>2, <1>3, <1>4 DEF Init, ConnInv, LocksOfClaims, ClaimsHaveLocks, KnownRows, NoLock
-----------------------------------------------------------------------------
\* What stays true of a reading while rows are added and change.
RowsStay == \A e \in EventIds : status[e] # "none" => status'[e] # "none" /\ artifact'[e] = artifact[e]

LEMMA ReadingsStay ==
  ASSUME RowsStay, NEW step, NEW l, l.ids \subseteq EventIds, l.pending \subseteq EventIds,
         ReadWell(step, l)
  PROVE  ReadWell(step, l)'
BY DEF RowsStay, ReadWell, Oldest

\* A step of connection c that goes to step with locals l.
LEMMA GotoFacts ==
  ASSUME ConnInv, NEW c \in Conns, NEW step \in Steps, NEW l \in Locals(now), Goto(c, step, l),
         RowsStay, ReadWell(step, l)', UNCHANGED now
  PROVE  /\ pc' \in [Conns -> Steps] /\ local' \in [Conns -> Locals(now')]
         /\ local'[c] = l /\ \A b \in Conns : b # c => local'[b] = local[b]
         /\ AllReadWell'
<1>1. /\ pc' \in [Conns -> Steps] /\ local' \in [Conns -> Locals(now')]
      /\ local'[c] = l /\ pc'[c] = step
      /\ \A b \in Conns : b # c => local'[b] = local[b] /\ pc'[b] = pc[b]
  BY TableTypes DEF Goto
<1>2. ASSUME NEW b \in Conns, b # c
      PROVE  ReadWell(pc[b], local[b])'
  <2>1. PICK s, m : s = pc[b] /\ m = local[b]
    OBVIOUS
  <2>2. m.ids \subseteq EventIds /\ m.pending \subseteq EventIds
    BY <2>1, TableTypes DEF Locals
  <2>3. ReadWell(s, m)'
    BY <2>1, <2>2, ReadingsStay DEF ConnInv, AllReadWell
  <2>4. pc'[b] = s /\ local'[b] = m
    BY <1>1, <1>2, <2>1
  <2> QED
    BY <2>3, <2>4 DEF ReadWell
<1>3. ReadWell(pc[c], local[c])'
  BY <1>1 DEF ReadWell
<1>4. AllReadWell'
  BY <1>2, <1>3 DEF AllReadWell
<1> QED
  BY <1>1, <1>4

\* Steps that only read, or forget.
LEMMA ReadKeepsInv ==
  ASSUME ConnInv, NEW c \in Conns, NEW step \in Steps, NEW l \in Locals(now), Goto(c, step, l),
         ReadWell(step, l), UNCHANGED <<tables, now, robbed>>,
         l.event = 0 \/ l.event = local[c].event \/ IsNext(l.event),
         held' \in [Workers -> SUBSET EventIds],
         \A w \in Workers : held'[w] \subseteq held[w]
  PROVE  ConnInv'
<1>1. UNCHANGED <<status, artifact, key, lease, lock>>
  BY DEF tables
<1>2. RowsStay
  BY <1>1, TableTypes DEF RowsStay
<1>3. ReadWell(step, l)'
  <2>1. l.ids \subseteq EventIds /\ l.pending \subseteq EventIds
    BY DEF Locals
  <2> QED
    BY <1>2, <2>1, ReadingsStay
<1>4. /\ pc' \in [Conns -> Steps] /\ local' \in [Conns -> Locals(now')]
      /\ local'[c] = l /\ \A b \in Conns : b # c => local'[b] = local[b]
      /\ AllReadWell'
  BY <1>2, <1>3, GotoFacts
<1>5. ConnectionsTypeOK'
  BY <1>1, <1>4 DEF ConnInv, ConnectionsTypeOK
<1>6. KnownRows'
  BY <1>1 DEF ConnInv, KnownRows
<1>7. DatesGivenOnce'
  <2>1. CASE l.event = 0 \/ l.event = local[c].event
    BY <1>1, <1>4, <2>1 DEF ConnInv, DatesGivenOnce
  <2>2. CASE IsNext(l.event) /\ l.event # 0
    <3>1. l.event \in EventIds
      BY <2>2, EventFacts DEF Locals
    <3>2. l.event \notin Dated
      <4>1. ~(l.event < l.event)
        BY <3>1, EventFacts, NotBeforeItself, Zenon
      <4> QED
        BY <2>2, <4>1 DEF IsNext
    <3>3. status[l.event] = "none" /\ \A b \in Conns : local[b].event # l.event
      BY <3>1, <3>2 DEF Dated
    <3> QED
      BY <1>1, <1>4, <3>3 DEF ConnInv, DatesGivenOnce
  <2> QED
    BY <2>1, <2>2
<1> QED
  BY <1>1, <1>4, <1>5, <1>6, <1>7 DEF ConnInv, LocksOfClaims, ClaimsHaveLocks

LEMMA ReadsKeepInv ==
  ASSUME ConnInv, NEW c \in Conns,
         \/ \E a \in Artifacts \cup {NoArtifact}, k \in Keys \cup {NoKey} : EnqueueCheck(c, a, k)
         \/ \E e \in EventIds : EnqueueDate(c, e)
         \/ SelectOverdue(c) \/ SelectPending(c) \/ LookAt(c)
  PROVE  ConnInv'
<1>1. /\ held \in [Workers -> SUBSET EventIds] /\ local[c] \in Locals(now)
      /\ NoLocals \in Locals(now) /\ NoLocals.ids = {} /\ NoLocals.pending = {} /\ NoLocals.event = 0
      /\ now \in 0..now
  BY TableTypes, NoLocalsFacts
<1>2. {"idle", "date", "insert", "reclaim", "look", "take"} \subseteq Steps
  BY DEF Steps
<1>3. ASSUME NEW a \in Artifacts \cup {NoArtifact}, NEW k \in Keys \cup {NoKey}, EnqueueCheck(c, a, k)
      PROVE  ConnInv'
  <2> DEFINE l == [NoLocals EXCEPT !.artifact = a, !.key = k]
  <2>1. l \in Locals(now) /\ l.ids = {} /\ l.pending = {} /\ l.event = 0
    BY <1>1 DEF NoLocals, Locals
  <2>2. Goto(c, "date", l) /\ UNCHANGED <<tables, now, held, robbed>>
    BY <1>3 DEF EnqueueCheck
  <2> HIDE DEF l
  <2> QED
    BY <1>1, <1>2, <2>1, <2>2, NothingRead, ReadKeepsInv
<1>4. ASSUME NEW e \in EventIds, EnqueueDate(c, e)
      PROVE  ConnInv'
  <2> DEFINE l == [local[c] EXCEPT !.event = e]
  <2>1. l \in Locals(now) /\ l.ids = local[c].ids /\ l.pending = local[c].pending /\ l.event = e
    BY <1>1, EventFacts DEF Locals
  <2>2. Goto(c, "insert", l) /\ UNCHANGED <<tables, now, held, robbed>> /\ IsNext(e)
    BY <1>4 DEF EnqueueDate
  <2>3. \A d \in l.ids \cup l.pending : status[d] # "none"
    BY <2>1 DEF ConnInv, AllReadWell, ReadWell
  <2> HIDE DEF l
  <2>4. ReadWell("insert", l)
    BY <2>3 DEF ReadWell
  <2> QED
    BY <1>1, <1>2, <2>1, <2>2, <2>4, ReadKeepsInv
<1>5. CASE SelectOverdue(c)
  <2> DEFINE l == [NoLocals EXCEPT !.now = now, !.ids = Overdue(now)]
  <2>1. l.ids = Overdue(now) /\ l.pending = {} /\ l.event = 0 /\ l \in Locals(now)
    BY <1>1 DEF NoLocals, Overdue, Locals
  <2>2. Goto(c, "reclaim", l) /\ UNCHANGED <<tables, now, held, robbed>>
    BY <1>5 DEF SelectOverdue
  <2> HIDE DEF l
  <2>3. ReadWell("reclaim", l)
    BY <2>1 DEF ReadWell, Overdue
  <2> QED
    BY <1>1, <1>2, <2>1, <2>2, <2>3, ReadKeepsInv
<1>6. CASE SelectPending(c)
  <2> DEFINE found == {e \in EventIds : status[e] = "pending"}
             l == [local[c] EXCEPT !.ids = found, !.pending = found]
  <2>1. l.ids = found /\ l.pending = found /\ l.event = local[c].event /\ l \in Locals(now)
    BY <1>1 DEF Locals
  <2>2. Goto(c, "look", l) /\ UNCHANGED <<tables, now, held, robbed>>
    BY <1>6 DEF SelectPending
  <2>3. \A e \in found : status[e] # "none"
    OBVIOUS
  <2> HIDE DEF l, found
  <2>4. ReadWell("look", l)
    BY <2>1, <2>3 DEF ReadWell
  <2> QED
    BY <1>1, <1>2, <2>1, <2>2, <2>4, ReadKeepsInv
<1>7. CASE LookAt(c)
  <2>1. CASE Goto(c, "idle", NoLocals)
    BY <1>1, <1>2, <1>7, <2>1, NothingRead, ReadKeepsInv DEF LookAt
  <2>2. CASE ~Goto(c, "idle", NoLocals)
    <3>1. PICK e \in EventIds :
            /\ Oldest(e, local[c].ids)
            /\ LET seen == [local[c] EXCEPT !.locks = @ \cup LockReading(e)]
               IN  IF LockedAt(artifact[e], local[c].now)
                     THEN Goto(c, "look", [seen EXCEPT !.ids = @ \ {e}])
                     ELSE Goto(c, "take", seen)
      BY <1>7, <2>2 DEF LookAt
    <3> DEFINE seen == [local[c] EXCEPT !.locks = @ \cup LockReading(e)]
               rest == [seen EXCEPT !.ids = @ \ {e}]
    <3>2. LockReading(e) \subseteq [artifact : Artifacts, row : LockRows]
      BY TableTypes DEF LockReading
    <3>3. /\ seen \in Locals(now) /\ seen.locks = local[c].locks \cup LockReading(e)
          /\ seen.ids = local[c].ids /\ seen.pending = local[c].pending /\ seen.now = local[c].now
          /\ seen.event = local[c].event
          /\ rest \in Locals(now) /\ rest.locks = seen.locks /\ rest.ids = seen.ids \ {e}
          /\ rest.pending = seen.pending /\ rest.now = seen.now /\ rest.event = seen.event
      BY <1>1, <3>2 DEF Locals
    <3>4. /\ UNCHANGED <<tables, now, held, robbed>>
          /\ \/ LockedAt(artifact[e], local[c].now) /\ Goto(c, "look", rest)
             \/ ~LockedAt(artifact[e], local[c].now) /\ Goto(c, "take", seen)
      BY <1>7, <3>1 DEF LookAt
    <3>5. /\ \A d \in local[c].ids \cup local[c].pending : status[d] # "none"
          /\ \A d \in local[c].pending \ local[c].ids :
               \E r \in local[c].locks : r.artifact = artifact[d] /\ Live(r.row, local[c].now)
      BY <1>7 DEF ConnInv, AllReadWell, ReadWell, LookAt, At
    <3>6. artifact[e] \in Artifacts =>
            \E r \in LockReading(e) : r.artifact = artifact[e] /\ r.row = lock[artifact[e]]
      <4>1. artifact[e] \in Artifacts =>
              [artifact |-> artifact[e], row |-> lock[artifact[e]]] \in LockReading(e)
        BY DEF LockReading
      <4> QED
        BY <4>1
    <3>7. LockedAt(artifact[e], local[c].now)
            <=> artifact[e] \in Artifacts /\ Live(lock[artifact[e]], local[c].now)
      BY DEF LockedAt, Live
    <3>8. \A d \in EventIds : Oldest(d, local[c].ids) => d = e
      BY <3>1, EventFacts DEF Oldest
    <3> HIDE DEF seen, rest
    <3>9. CASE LockedAt(artifact[e], local[c].now) /\ Goto(c, "look", rest)
      <4>1. ReadWell("look", rest)
        BY <3>3, <3>5, <3>6, <3>7, <3>9 DEF ReadWell
      <4> QED
        BY <1>1, <1>2, <3>3, <3>4, <3>9, <4>1, ReadKeepsInv
    <3>10. CASE ~LockedAt(artifact[e], local[c].now) /\ Goto(c, "take", seen)
      <4>1. ReadWell("take", seen)
        BY <3>3, <3>5, <3>6, <3>7, <3>8, <3>10 DEF ReadWell
      <4> QED
        BY <1>1, <1>2, <3>3, <3>4, <3>10, <4>1, ReadKeepsInv
    <3> QED
      BY <3>4, <3>9, <3>10
  <2> QED
    BY <2>1, <2>2
<1> QED
  BY <1>3, <1>4, <1>5, <1>6, <1>7
-----------------------------------------------------------------------------
\* Steps that write.
LEMMA EnqueueInsertKeepsInv ==
  ASSUME ConnInv, NEW c \in Conns, NEW e \in EventIds, EnqueueInsert(c, e)
  PROVE  ConnInv'
<1>1. /\ status' = [status EXCEPT ![e] = "pending"]
      /\ artifact' = [artifact EXCEPT ![e] = local[c].artifact]
      /\ key' = [key EXCEPT ![e] = local[c].key]
      /\ Goto(c, "idle", NoLocals) /\ UNCHANGED <<lease, lock, now, held, robbed>>
      /\ e = local[c].event
  BY DEF EnqueueInsert
<1>2. local[c].artifact \in Artifacts \cup {NoArtifact} /\ local[c].key \in Keys \cup {NoKey}
  BY TableTypes DEF Locals
<1>3. /\ status'[e] = "pending" /\ \A d \in EventIds : d # e => status'[d] = status[d]
      /\ \A d \in EventIds : d # e => artifact'[d] = artifact[d]
  BY <1>1, TableTypes
<1>4. status[e] = "none" /\ \A b \in Conns : b # c => local[b].event # e
  BY <1>1, EventFacts DEF ConnInv, DatesGivenOnce
<1>5. RowsStay
  BY <1>3, <1>4 DEF RowsStay
<1>6. NoLocals \in Locals(now) /\ NoLocals.ids = {} /\ NoLocals.pending = {} /\ NoLocals.event = 0
      /\ ReadWell("idle", NoLocals)'
  <2>1. NoLocals \in Locals(now) /\ NoLocals.ids = {} /\ NoLocals.pending = {} /\ NoLocals.event = 0
    BY TableTypes, NoLocalsFacts
  <2>2. ReadWell("idle", NoLocals)
    BY <2>1, NothingRead
  <2> QED
    BY <1>5, <2>1, <2>2, ReadingsStay
<1>7. /\ pc' \in [Conns -> Steps] /\ local' \in [Conns -> Locals(now')]
      /\ local'[c] = NoLocals /\ \A b \in Conns : b # c => local'[b] = local[b]
      /\ AllReadWell'
  BY <1>1, <1>5, <1>6, GotoFacts DEF Steps
<1>8. ConnectionsTypeOK'
  BY <1>1, <1>2, <1>7 DEF ConnInv, ConnectionsTypeOK, Active
<1>9. LocksOfClaims' /\ ClaimsHaveLocks'
  BY <1>1, <1>3, <1>4 DEF ConnInv, LocksOfClaims, ClaimsHaveLocks
<1>10. KnownRows'
  BY <1>1, <1>3, TableTypes DEF ConnInv, KnownRows
<1>11. DatesGivenOnce'
  <2>1. ASSUME NEW b \in Conns, local'[b].event # 0
        PROVE  /\ status'[local'[b].event] = "none"
               /\ \A d \in Conns : d # b => local'[d].event # local'[b].event
    <3>1. b # c /\ local'[b] = local[b]
      BY <1>6, <1>7, <2>1
    <3>2. local[b].event \in EventIds /\ local[b].event # e
      BY <1>4, <2>1, <3>1, TableTypes, EventFacts DEF Locals
    <3>3. status[local[b].event] = "none" /\ \A d \in Conns : d # b => local[d].event # local[b].event
      BY <2>1, <3>1 DEF ConnInv, DatesGivenOnce
    <3>4. \A d \in Conns : d # b => local'[d].event # local[b].event
      BY <1>6, <1>7, <2>1, <3>1, <3>3
    <3> QED
      BY <1>3, <3>1, <3>2, <3>3, <3>4
  <2> QED
    BY <2>1 DEF DatesGivenOnce
<1> QED
  BY <1>7, <1>8, <1>9, <1>10, <1>11 DEF ConnInv

\* What is common to the steps that change events but add none.
LEMMA ChangesKeepInv ==
  ASSUME ConnInv, NEW c \in Conns, NEW step \in Steps, NEW l \in Locals(now), Goto(c, step, l),
         l.ids = {}, l.pending = {}, l.event = 0,
         status' \in [EventIds -> {"none"} \cup Active \cup Settled],
         \A e \in EventIds : status'[e] = "none" <=> status[e] = "none",
         lease' \in [EventIds -> NoLease..(MaxTime + LeaseTicks)],
         lock' \in [Artifacts -> LockRows],
         LocksOfClaims', ClaimsHaveLocks', UNCHANGED <<artifact, key, now>>,
         robbed' \subseteq EventIds,
         held' \in [Workers -> SUBSET EventIds],
         \A w \in Workers : \A e \in held'[w] : e \in held[w] \/ status[e] # "none"
  PROVE  ConnInv'
<1>1. RowsStay
  BY DEF RowsStay
<1>2. ReadWell(step, l)'
  BY <1>1, NothingRead, ReadingsStay
<1>3. /\ pc' \in [Conns -> Steps] /\ local' \in [Conns -> Locals(now')]
      /\ local'[c] = l /\ \A b \in Conns : b # c => local'[b] = local[b]
      /\ AllReadWell'
  BY <1>1, <1>2, GotoFacts
<1>4. ConnectionsTypeOK'
  BY <1>3 DEF ConnInv, ConnectionsTypeOK
<1>5. KnownRows'
  <2>1. ASSUME NEW w \in Workers, NEW e \in held'[w]
        PROVE  status'[e] # "none"
    <3>1. e \in EventIds
      OBVIOUS
    <3> QED
      BY <3>1 DEF ConnInv, KnownRows
  <2> QED
    BY <2>1 DEF KnownRows
<1>6. DatesGivenOnce'
  <2>1. ASSUME NEW b \in Conns, local'[b].event # 0
        PROVE  /\ status'[local'[b].event] = "none"
               /\ \A d \in Conns : d # b => local'[d].event # local'[b].event
    <3>1. b # c /\ local'[b] = local[b]
      BY <1>3, <2>1
    <3>2. local[b].event \in EventIds
      BY <2>1, <3>1, TableTypes, EventFacts DEF Locals
    <3>3. status[local[b].event] = "none" /\ \A d \in Conns : d # b => local[d].event # local[b].event
      BY <2>1, <3>1 DEF ConnInv, DatesGivenOnce
    <3>4. \A d \in Conns : d # b => local'[d].event # local[b].event
      BY <1>3, <2>1, <3>1, <3>3
    <3> QED
      BY <3>1, <3>2, <3>3, <3>4
  <2> QED
    BY <2>1 DEF DatesGivenOnce
<1> QED
  BY <1>3, <1>4, <1>5, <1>6 DEF ConnInv

LEMMA WriteReclaimKeepsInv ==
  ASSUME ConnInv, NEW c \in Conns, WriteReclaim(c)
  PROVE  ConnInv'
<1> DEFINE ids == local[c].ids
           t == local[c].now
           l == IF c \in Workers THEN [NoLocals EXCEPT !.now = t] ELSE NoLocals
<1>1. /\ status' = [e \in EventIds |-> IF e \in ids THEN "pending" ELSE status[e]]
      /\ lease' = [e \in EventIds |-> IF e \in ids THEN NoLease ELSE lease[e]]
      /\ lock' = [a \in Artifacts |->
                    IF lock[a].event \in ids \/ LockOver(a, t) THEN NoLock ELSE lock[a]]
      /\ robbed' = {e \in EventIds :
                      /\ e \notin ids
                      /\ \/ e \in robbed
                         \/ OverdueChanged(c) /\ e \in Overdue(t)}
      /\ UNCHANGED <<artifact, key, now, held>> /\ At(c, "reclaim")
  BY DEF WriteReclaim
<1>2. PICK step \in {"scan", "idle"} : Goto(c, step, l)
  BY DEF WriteReclaim
<1>3. ids \subseteq EventIds /\ (\A e \in ids : status[e] # "none") /\ t \in 0..now
  BY TableTypes DEF ConnInv, AllReadWell, ReadWell, Locals
<1>4. l.ids = {} /\ l.pending = {} /\ l.event = 0 /\ l \in Locals(now)
  BY <1>3, TableTypes, NoLocalsFacts DEF NoLocals, Locals
<1>5. OverdueChanged(c) <=> ids # Overdue(t)
  BY <1>1 DEF OverdueChanged
<1> HIDE DEF ids, l, t
<1>6. /\ status' \in [EventIds -> {"none"} \cup Active \cup Settled]
      /\ \A e \in EventIds : status'[e] = "none" <=> status[e] = "none"
  BY <1>1, <1>3, TableTypes DEF Active
<1>7. /\ lease' \in [EventIds -> NoLease..(MaxTime + LeaseTicks)]
      /\ lock' \in [Artifacts -> LockRows]
  BY <1>1, TableTypes
<1>8. LocksOfClaims'
  <2> SUFFICES ASSUME NEW a \in Artifacts, lock'[a] # NoLock
               PROVE  /\ lock'[a].event \in EventIds
                      /\ status'[lock'[a].event] = "processing"
                      /\ lease'[lock'[a].event] = lock'[a].until /\ lock'[a].until \in Nat
    BY DEF LocksOfClaims
  <2>1. lock'[a] = lock[a] /\ lock[a].event \notin ids
    BY <1>1
  <2> QED
    BY <1>1, <2>1 DEF ConnInv, LocksOfClaims
<1>9. ClaimsHaveLocks'
  <2> SUFFICES ASSUME NEW e \in EventIds, e \notin robbed', status'[e] = "processing", artifact'[e] \in Artifacts
               PROVE  lock'[artifact'[e]].event = e
    BY DEF ClaimsHaveLocks
  <2>1. e \notin ids /\ status[e] = "processing" /\ e \notin robbed /\ artifact'[e] = artifact[e]
    BY <1>1
  <2>2. lock[artifact[e]].event = e
    BY <2>1 DEF ConnInv, ClaimsHaveLocks
  <2>3. /\ lock[artifact[e]] # NoLock
    BY <2>2, TableTypes, EventFacts
  <2>4. lease[e] = lock[artifact[e]].until /\ lease[e] # NoLease
    BY <2>1, <2>2, <2>3 DEF ConnInv, LocksOfClaims, NoLease
  <2>5. ~LockOver(artifact[e], t)
    <3> SUFFICES ASSUME LockOver(artifact[e], t)
                 PROVE  FALSE
      OBVIOUS
    <3>1. e \in Overdue(t)
      BY <2>1, <2>4 DEF LockOver, Overdue
    <3> QED
      BY <1>1, <1>5, <2>1, <3>1
  <2> QED
    BY <1>1, <2>1, <2>2, <2>5
<1>10. robbed' \subseteq EventIds
  BY <1>1
<1> QED
  BY <1>1, <1>2, <1>4, <1>6, <1>7, <1>8, <1>9, <1>10, TableTypes, ChangesKeepInv DEF Steps

\* Whoever is in processing on the artifact that is about to be taken, and was not
\* robbed, shows that the claim has lost its reading.
LEMMA TakenFromUnread ==
  ASSUME ConnInv, NEW c \in Conns, NEW e \in EventIds, Taking(c, e),
         NEW d \in EventIds \ robbed, status[d] = "processing", artifact[d] = artifact[e]
  PROVE  LostItsReading(c)
<1>1. artifact[e] \in Artifacts /\ At(c, "take") /\ Oldest(e, local[c].ids)
  BY DEF Taking
<1>2. lock[artifact[e]].event = d
  BY <1>1 DEF ConnInv, ClaimsHaveLocks
<1>3. lock[artifact[e]] # NoLock
  BY <1>2, TableTypes, EventFacts
<1>4. lease[d] = lock[artifact[e]].until /\ lease[d] # NoLease /\ lease[d] \in Int
  BY <1>1, <1>2, <1>3 DEF ConnInv, LocksOfClaims, NoLease
<1>5. PICK r \in local[c].locks : r.artifact = artifact[e] /\ ~Live(r.row, local[c].now)
  BY <1>1 DEF ConnInv, AllReadWell, ReadWell, At
<1>6. CASE r.row # lock[artifact[e]]
  BY <1>5, <1>6 DEF LostItsReading, LockChanged
<1>7. CASE r.row = lock[artifact[e]]
  <2>1. local[c].now \in Int
    BY TableTypes DEF Locals
  <2>2. lease[d] < local[c].now
    BY <1>3, <1>4, <1>5, <1>7, <2>1 DEF Live
  <2>3. d \in Overdue(local[c].now)
    BY <1>4, <2>2 DEF Overdue
  <2> QED
    BY <2>3 DEF LostItsReading, ClaimedOverdue
<1> QED
  BY <1>6, <1>7

LEMMA TakeKeepsInv ==
  ASSUME ConnInv, NEW c \in Workers, NEW e \in EventIds, Take(c, e)
  PROVE  ConnInv'
<1> DEFINE until == LeaseUntil(local[c].now)
           l == [local[c] EXCEPT !.ids = @ \ {e}, !.pending = @ \ {e}]
<1>1. /\ c \in Conns /\ local[c].now \in Nat /\ local[c].now <= MaxTime
      /\ UNCHANGED <<artifact, key, now>> /\ At(c, "take") /\ Oldest(e, local[c].ids)
  BY TableTypes, ConnectionsAssumption DEF Take, Locals
<1>2. CASE status[e] = "pending"
  <2>1. /\ status' = [status EXCEPT ![e] = "processing"]
        /\ lease' = [lease EXCEPT ![e] = until]
        /\ lock' = [a \in Artifacts |->
                      IF a = artifact[e] THEN [event |-> e, until |-> until] ELSE lock[a]]
        /\ held' = [held EXCEPT ![c] = @ \cup {e}]
        /\ robbed' = (robbed \cup IF LostItsReading(c) THEN {lock[artifact[e]].event} ELSE {}) \ {0, e}
        /\ Goto(c, "idle", NoLocals)
    BY <1>2 DEF Take, StillPending
  <2>2. until \in NoLease..(MaxTime + LeaseTicks) /\ until \in Nat
    BY <1>1, ConnectionsAssumption DEF LeaseUntil, NoLease
  <2> HIDE DEF until
  <2>3. /\ status' \in [EventIds -> {"none"} \cup Active \cup Settled]
        /\ \A d \in EventIds : status'[d] = "none" <=> status[d] = "none"
    BY <1>2, <2>1, TableTypes DEF Active
  <2>4. /\ lease' \in [EventIds -> NoLease..(MaxTime + LeaseTicks)]
        /\ lock' \in [Artifacts -> LockRows]
    BY <2>1, <2>2, TableTypes, EventFacts DEF LockRows
  <2>5. LocksOfClaims'
    <3> SUFFICES ASSUME NEW a \in Artifacts, lock'[a] # NoLock
                 PROVE  /\ lock'[a].event \in EventIds
                        /\ status'[lock'[a].event] = "processing"
                        /\ lease'[lock'[a].event] = lock'[a].until /\ lock'[a].until \in Nat
      BY DEF LocksOfClaims
    <3>1. CASE a = artifact[e]
      BY <2>1, <2>2, <3>1, TableTypes
    <3>2. CASE a # artifact[e]
      <4>1. lock'[a] = lock[a] /\ lock[a].event # e
        BY <1>2, <2>1, <3>2 DEF ConnInv, LocksOfClaims
      <4> QED
        BY <2>1, <4>1 DEF ConnInv, LocksOfClaims
    <3> QED
      BY <3>1, <3>2
  <2>6. robbed' \subseteq EventIds
    <3>1. artifact[e] \in Artifacts => lock[artifact[e]].event \in 0..MaxEvents
      BY TableTypes DEF LockRows
    <3>2. LostItsReading(c) => artifact[e] \in Artifacts
      <4>1. \A d \in EventIds : Taking(c, d) => d = e
        BY <1>1, EventFacts DEF Taking, Oldest
      <4> QED
        BY <4>1 DEF LostItsReading, LockChanged, OlderCame, ClaimedOverdue, Taking
    <3> QED
      BY <2>1, <3>1, <3>2, TableTypes, EventFacts
  <2>7. ClaimsHaveLocks'
    <3> SUFFICES ASSUME NEW d \in EventIds, d \notin robbed', status'[d] = "processing", artifact'[d] \in Artifacts
                 PROVE  lock'[artifact'[d]].event = d
      BY DEF ClaimsHaveLocks
    <3>1. CASE d = e
      BY <1>1, <2>1, <3>1
    <3>2. CASE d # e
      <4>1. status[d] = "processing" /\ artifact'[d] = artifact[d] /\ d \notin robbed
        BY <1>1, <2>1, <3>2, TableTypes, EventFacts
      <4>2. lock[artifact[d]].event = d
        BY <4>1 DEF ConnInv, ClaimsHaveLocks
      <4>3. artifact[d] # artifact[e]
        <5> SUFFICES ASSUME artifact[d] = artifact[e]
                     PROVE  FALSE
          OBVIOUS
        <5>1. Taking(c, e)
          BY <1>1, <4>1 DEF Taking
        <5>2. LostItsReading(c)
          BY <1>1, <4>1, <5>1, TakenFromUnread
        <5> QED
          BY <2>1, <3>2, <4>2, <5>2, EventFacts
      <4> QED
        BY <2>1, <4>1, <4>2, <4>3
    <3> QED
      BY <3>1, <3>2
  <2>8. /\ held' \in [Workers -> SUBSET EventIds]
        /\ \A w \in Workers : \A d \in held'[w] : d \in held[w] \/ status[d] # "none"
    BY <1>2, <2>1, TableTypes
  <2> QED
    BY <1>1, <2>1, <2>3, <2>4, <2>5, <2>6, <2>7, <2>8, TableTypes, NoLocalsFacts, ChangesKeepInv DEF Steps
<1>3. CASE status[e] # "pending"
  <2>1. Goto(c, "look", l) /\ UNCHANGED <<status, lease, lock, held, robbed>>
    BY <1>3 DEF Take, StillPending
  <2>2. /\ l.ids = local[c].ids \ {e} /\ l.pending = local[c].pending \ {e}
        /\ l.locks = local[c].locks /\ l.now = local[c].now /\ l.event = local[c].event
        /\ l \in Locals(now)
    BY <1>1, TableTypes DEF Locals
  <2>3. ReadWell("take", local[c])
    BY <1>1 DEF ConnInv, AllReadWell, At
  <2> HIDE DEF l
  <2>4. ReadWell("look", l)
    BY <2>2, <2>3 DEF ReadWell
  <2> QED
    BY <1>1, <2>1, <2>2, <2>4, TableTypes, ReadKeepsInv DEF Steps, tables
<1> QED
  BY <1>2, <1>3

LEMMA AnswerKeepsInv ==
  ASSUME ConnInv, NEW w \in Workers, NEW e \in EventIds, NEW outcome \in Settled, Answer(w, e, outcome)
  PROVE  ConnInv'
<1>1. /\ status' = [status EXCEPT ![e] = outcome]
      /\ lease' = [lease EXCEPT ![e] = NoLease]
      /\ lock' = [a \in Artifacts |-> IF lock[a].event = e THEN NoLock ELSE lock[a]]
      /\ held' = [held EXCEPT ![w] = @ \ {e}]
      /\ robbed' = robbed \ {e}
      /\ UNCHANGED <<artifact, key, now, pc, local>> /\ e \in held[w]
  BY DEF Answer
<1>2. status[e] # "none"
  BY <1>1 DEF ConnInv, KnownRows
<1>3. /\ status' \in [EventIds -> {"none"} \cup Active \cup Settled]
      /\ \A d \in EventIds : status'[d] = "none" <=> status[d] = "none"
  BY <1>1, <1>2, TableTypes DEF Settled
<1>4. ConnectionsTypeOK'
  <2>1. /\ lease' \in [EventIds -> NoLease..(MaxTime + LeaseTicks)]
        /\ lock' \in [Artifacts -> LockRows]
        /\ held' \in [Workers -> SUBSET EventIds]
    BY <1>1, TableTypes
  <2> QED
    BY <1>1, <1>3, <2>1 DEF ConnInv, ConnectionsTypeOK
<1>5. LocksOfClaims' /\ ClaimsHaveLocks'
  <2>1. LocksOfClaims'
    BY <1>1 DEF ConnInv, LocksOfClaims
  <2>2. ASSUME NEW d \in EventIds, d \notin robbed', status'[d] = "processing", artifact'[d] \in Artifacts
        PROVE  lock'[artifact'[d]].event = d
    <3>1. d # e
      BY <1>1, <2>2, TableTypes DEF Settled
    <3>2. status[d] = "processing" /\ d \notin robbed /\ artifact'[d] = artifact[d]
      BY <1>1, <2>2, <3>1
    <3>3. lock[artifact[d]].event = d
      BY <2>2, <3>2 DEF ConnInv, ClaimsHaveLocks
    <3> QED
      BY <1>1, <2>2, <3>1, <3>2, <3>3
  <2> QED
    BY <2>1, <2>2 DEF ClaimsHaveLocks
<1>6. RowsStay
  BY <1>1, <1>3 DEF RowsStay
<1>7. AllReadWell'
  <2>1. ASSUME NEW b \in Conns
        PROVE  ReadWell(pc[b], local[b])'
    <3>1. PICK s, m : s = pc[b] /\ m = local[b]
      OBVIOUS
    <3>2. m.ids \subseteq EventIds /\ m.pending \subseteq EventIds
      BY <3>1, TableTypes DEF Locals
    <3>3. ReadWell(s, m)'
      BY <1>6, <3>1, <3>2, ReadingsStay DEF ConnInv, AllReadWell
    <3>4. pc'[b] = s /\ local'[b] = m
      BY <1>1, <3>1
    <3> QED
      BY <3>3, <3>4 DEF ReadWell
  <2> QED
    BY <2>1 DEF AllReadWell
<1>8. KnownRows'
  <2>1. \A v \in Workers : held'[v] \subseteq held[v] /\ held[v] \subseteq EventIds
    BY <1>1, TableTypes
  <2> QED
    BY <1>3, <2>1 DEF ConnInv, KnownRows
<1>9. DatesGivenOnce'
  <2>1. \A b \in Conns : local[b].event # 0 => local[b].event \in EventIds
    BY TableTypes, EventFacts DEF Locals
  <2> QED
    BY <1>1, <1>3, <2>1 DEF ConnInv, DatesGivenOnce
<1> QED
  BY <1>4, <1>5, <1>7, <1>8, <1>9 DEF ConnInv

LEMMA NextKeepsInv ==
  ASSUME ConnInv, [Next]_vars
  PROVE  ConnInv'
<1>1. CASE \E c \in Conns : Crash(c)
  <2>1. PICK c \in Conns : Crash(c)
    BY <1>1
  <2>2. /\ held' \in [Workers -> SUBSET EventIds] /\ \A v \in Workers : held'[v] \subseteq held[v]
        /\ Goto(c, "idle", NoLocals) /\ UNCHANGED <<tables, now, robbed>>
    BY <2>1, TableTypes DEF Crash
  <2>3. NoLocals \in Locals(now) /\ NoLocals.event = 0 /\ ReadWell("idle", NoLocals)
    BY TableTypes, NoLocalsFacts, NothingRead
  <2> QED
    BY <2>2, <2>3, ReadKeepsInv DEF Steps
<1>2. CASE Tick
  <2>1. /\ now' = now + 1 /\ now' \in 0..MaxTime
        /\ UNCHANGED <<status, artifact, key, lease, lock, pc, local, held, robbed>>
    BY <1>2, TableTypes, ConnectionsAssumption DEF Tick, tables
  <2>2. Locals(now) \subseteq Locals(now')
    BY <2>1, TableTypes DEF Locals
  <2>3. ConnectionsTypeOK'
    BY <2>1, <2>2 DEF ConnInv, ConnectionsTypeOK
  <2> QED
    BY <2>1, <2>3 DEF ConnInv, LocksOfClaims, ClaimsHaveLocks, AllReadWell, ReadWell, KnownRows, DatesGivenOnce
<1>3. CASE UNCHANGED vars
  BY <1>3 DEF vars, tables, ConnInv, ConnectionsTypeOK, LocksOfClaims, ClaimsHaveLocks, AllReadWell,
              ReadWell, KnownRows, DatesGivenOnce
<1>4. Workers \subseteq Conns
  BY DEF Conns
<1> QED
  BY <1>1, <1>2, <1>3, <1>4, ReadsKeepInv, EnqueueInsertKeepsInv, WriteReclaimKeepsInv, TakeKeepsInv,
     AnswerKeepsInv DEF Next

LEMMA ConnInvHolds == Spec => []ConnInv
<1>1. ConnInv /\ [Next]_vars => ConnInv'
  BY NextKeepsInv
<1> QED
  BY InitInv, <1>1, PTL DEF Spec

\* Every variable has its type, whatever the connections do to each other.
THEOREM ConnectionTypes == Spec => []ConnectionsTypeOK
<1>1. ConnInv => ConnectionsTypeOK
  BY DEF ConnInv
<1> QED
  BY ConnInvHolds, <1>1, PTL
-----------------------------------------------------------------------------
\* Connections that act change their step.
LEMMA Moves ==
  ASSUME ConnInv, NEW c \in Conns
  PROVE  /\ WriteReclaim(c) => pc'[c] # pc[c]
         /\ \A e \in EventIds : EnqueueInsert(c, e) \/ Take(c, e) => pc'[c] # pc[c]
BY TableTypes DEF WriteReclaim, EnqueueInsert, Take, Goto, At

LEMMA LocksStandInStep ==
  ASSUME ConnInv, Next, NEW a \in Artifacts, lock[a] # NoLock, lock'[a] # lock[a],
         ~StaleReclaim, ~StaleClaim
  PROVE  lock[a].until < now \/ status'[lock[a].event] \in Settled
<1>1. /\ lock[a].event \in EventIds /\ lease[lock[a].event] = lock[a].until
      /\ lock[a].until \in Int /\ now \in Int
  BY TableTypes DEF ConnInv, LocksOfClaims
<1>2. ASSUME NEW c \in Conns, WriteReclaim(c)
      PROVE  lock[a].until < now
  <2>1. lock[a].event \in local[c].ids \/ lock[a].until < local[c].now
    BY <1>2 DEF WriteReclaim, LockOver
  <2>2. local[c].ids = Overdue(local[c].now)
    BY <1>2, Moves DEF StaleReclaim, OverdueChanged, WriteReclaim
  <2>3. lock[a].until < local[c].now
    BY <1>1, <2>1, <2>2 DEF Overdue
  <2>4. local[c].now \in 0..now
    BY TableTypes DEF Locals
  <2> QED
    BY <1>1, <2>3, <2>4
<1>3. ASSUME NEW w \in Workers, NEW e \in EventIds, Take(w, e)
      PROVE  lock[a].until < now
  <2>1. a = artifact[e] /\ w \in Conns /\ Oldest(e, local[w].ids) /\ At(w, "take")
    BY <1>3, TableTypes DEF Take
  <2>2. Taking(w, e)
    BY <2>1 DEF Taking
  <2>3. PICK r \in local[w].locks : r.artifact = a /\ ~Live(r.row, local[w].now)
    BY <2>1 DEF ConnInv, AllReadWell, ReadWell, At
  <2>4. r.row = lock[a]
    BY <1>3, <2>1, <2>2, <2>3, Moves DEF StaleClaim, LockChanged
  <2>5. local[w].now \in 0..now
    BY <2>1, TableTypes DEF Locals
  <2> QED
    BY <1>1, <2>3, <2>4, <2>5 DEF Live
<1>4. ASSUME NEW w \in Workers, NEW e \in EventIds, NEW outcome \in Settled, Answer(w, e, outcome)
      PROVE  status'[lock[a].event] \in Settled
  <2>1. lock[a].event = e
    BY <1>4 DEF Answer
  <2> QED
    BY <1>4, <2>1, TableTypes DEF Answer
<1> QED
  BY <1>2, <1>3, <1>4
  DEF Next, EnqueueCheck, EnqueueDate, EnqueueInsert, SelectOverdue, SelectPending, LookAt, Crash, Tick, tables

\* A lock protects its turn until the event is settled or the lease has run out
\* (store.py, claim_next_event and reclaim_expired_leases on any number of
\* connections), unless a reclaim resets rows that are no longer the overdue ones
\* or a claim overwrites a lock that its own lock query did not find.
THEOREM LocksLast == Spec => LockHeldForLease
<1>1. ConnInv /\ [Next]_vars =>
        [\A a \in Artifacts :
           lock[a] # NoLock /\ lock'[a] # lock[a]
             => \/ lock[a].until < now
                \/ status'[lock[a].event] \in Settled
                \/ StaleReclaim \/ StaleClaim]_vars
  BY LocksStandInStep
<1> QED
  BY ConnInvHolds, <1>1, PTL DEF Spec, LockHeldForLease
-----------------------------------------------------------------------------
\* A claim whose reading still holds, on an artifact with no robbed turn, takes the
\* oldest event that waits, while none is in processing.
LEMMA ClaimInOrder ==
  ASSUME ConnInv, NEW w \in Workers, NEW e \in EventIds, Take(w, e),
         ~ActsOnOldReading, ~TurnWasRobbed, artifact[e] \in Artifacts,
         NEW d \in EventIds, artifact[d] = artifact[e]
  PROVE  /\ status[d] # "processing"
         /\ d < e => status[d] # "pending"
<1>1. w \in Conns /\ Taking(w, e) /\ pc'[w] # pc[w] /\ Oldest(e, local[w].ids) /\ At(w, "take")
  BY Moves, TableTypes DEF Take, Taking
<1>2. ~LostItsReading(w)
  BY <1>1 DEF ActsOnOldReading
<1>3. status[d] # "processing"
  <2> SUFFICES ASSUME status[d] = "processing"
               PROVE  FALSE
    OBVIOUS
  <2>1. d \notin robbed
    BY <1>1 DEF TurnWasRobbed
  <2> QED
    BY <1>1, <1>2, <2>1, TakenFromUnread
<1>4. ASSUME d < e, status[d] = "pending"
      PROVE  FALSE
  <2>1. d \in local[w].pending
    BY <1>1, <1>2, <1>4 DEF LostItsReading, OlderCame
  <2>2. d \notin local[w].ids
    BY <1>1, <1>4, EventFacts DEF Oldest
  <2>3. PICK r \in local[w].locks : r.artifact = artifact[d] /\ Live(r.row, local[w].now)
    BY <1>1, <2>1, <2>2 DEF ConnInv, AllReadWell, ReadWell, At
  <2>4. PICK q \in local[w].locks : q.artifact = artifact[e] /\ ~Live(q.row, local[w].now)
    BY <1>1 DEF ConnInv, AllReadWell, ReadWell, At
  <2>5. r.row = lock[artifact[e]] /\ q.row = lock[artifact[e]]
    BY <1>1, <1>2, <2>3, <2>4 DEF LostItsReading, LockChanged
  <2> QED
    BY <2>3, <2>4, <2>5
<1> QED
  BY <1>3, <1>4

\* Each statement maps to a step of the abstract queue, or to none.
LEMMA StepImplements ==
  ASSUME ConnInv, Next, ~ActsOnOldReading, ~TurnWasRobbed
  PROVE  Queue!QueueNext \/ UNCHANGED <<status, artifact>>
<1> USE DEF Queue!EventIds, EventIds
<1>1. ASSUME NEW c \in Conns, NEW e \in EventIds, EnqueueInsert(c, e)
      PROVE  Queue!QueueNext
  <2>1. local[c].artifact \in Artifacts \cup {NoArtifact} /\ e = local[c].event /\ At(c, "insert")
    BY <1>1, TableTypes DEF Locals, EnqueueInsert
  <2>2. status[e] = "none"
    BY <2>1, EventFacts DEF ConnInv, DatesGivenOnce
  <2>3. ~Overtaken(c)
    BY <1>1, Moves DEF ActsOnOldReading
  <2>4. \A d \in EventIds : d > e /\ artifact[d] = local[c].artifact /\ local[c].artifact \in Artifacts
                              => status[d] = "none"
    BY <2>1, <2>3 DEF Overtaken
  <2>5. Queue!Accept(e, local[c].artifact)
    BY <1>1, <2>2, <2>4 DEF EnqueueInsert, Queue!Accept
  <2> QED
    BY <2>1, <2>5 DEF Queue!QueueNext
<1>2. ASSUME NEW c \in Conns, WriteReclaim(c)
      PROVE  Queue!QueueNext
  <2>1. local[c].ids = Overdue(local[c].now)
    BY <1>2, Moves DEF ActsOnOldReading, OverdueChanged, WriteReclaim
  <2>2. Queue!Return(local[c].ids)
    BY <1>2, <2>1 DEF WriteReclaim, Overdue, Queue!Return, Queue!Returned, Queue!InProcess
  <2>3. local[c].ids \in SUBSET EventIds
    BY TableTypes DEF Locals
  <2> QED
    BY <2>2, <2>3 DEF Queue!QueueNext
<1>3. ASSUME NEW w \in Workers, NEW e \in EventIds, Take(w, e), status[e] = "pending"
      PROVE  Queue!QueueNext
  <2>1. status' = [status EXCEPT ![e] = "processing"] /\ UNCHANGED artifact
    BY <1>3 DEF Take, StillPending
  <2>2. \A d \in EventIds : Queue!Before(d, e) => status[d] \notin Queue!Active
    BY <1>3, ClaimInOrder DEF Queue!Before, Queue!Active
  <2>3. \A d \in EventIds : status[d] = "processing" /\ artifact[d] = artifact[e] => artifact[e] \notin Artifacts
    BY <1>3, ClaimInOrder
  <2>4. Queue!Returned({}) = status
    BY TableTypes DEF Queue!Returned
  <2>5. Queue!HandOut({}, e)
    BY <1>3, <2>1, <2>2, <2>3, <2>4 DEF Queue!HandOut, Queue!InProcess
  <2> QED
    BY <2>5 DEF Queue!QueueNext
<1>4. ASSUME NEW w \in Workers, NEW e \in EventIds, Take(w, e), status[e] # "pending"
      PROVE  UNCHANGED <<status, artifact>>
  BY <1>4 DEF Take, StillPending
<1>5. ASSUME NEW w \in Workers, NEW e \in EventIds, NEW outcome \in Settled, Answer(w, e, outcome)
      PROVE  Queue!QueueNext
  <2>1. status[e] # "none"
    BY <1>5 DEF ConnInv, KnownRows, Answer
  <2>2. Queue!Settle(e, outcome)
    BY <1>5, <2>1 DEF Answer, Queue!Settle
  <2> QED
    BY <2>2 DEF Queue!QueueNext, Queue!Settled, Settled
<1> QED
  BY <1>1, <1>2, <1>3, <1>4, <1>5
  DEF Next, EnqueueCheck, EnqueueDate, SelectOverdue, SelectPending, LookAt, Crash, Tick, tables

\* Any number of connections implement the abstract queue, except in the steps
\* where one acts on a reading that has changed and in claims on an artifact with
\* a turn that such a step robbed of its lock (store.py:441-723).
THEOREM ConnectionsImplementQueue == Spec => ImplementsQueue
<1>1. Init => Queue!QueueInit
  BY DEF Init, Queue!QueueInit, Queue!EventIds, EventIds
<1>2. ConnInv /\ [Next]_vars => [Queue!QueueNext \/ ActsOnOldReading \/ TurnWasRobbed]_<<status, artifact>>
  <2>1. CASE UNCHANGED vars
    BY <2>1 DEF vars, tables
  <2> QED
    BY <2>1, StepImplements
<1> QED
  BY ConnInvHolds, <1>1, <1>2, PTL DEF Spec, ImplementsQueue
=============================================================================
