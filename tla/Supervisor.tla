----------------------------- MODULE Supervisor -----------------------------
(***************************************************************************)
(* The supervisor of surface/supervisor.py over the inbox, and its worker  *)
(* processes over the native stream transport (transports/                 *)
(* native_stream.py, worker.py).                                           *)
(*                                                                         *)
(* A supervisor works in batches: it claims an event for each of its       *)
(* slots, sends them all to the workers at once, waits for every answer    *)
(* and settles the events in the order of the slots.  A pool of one slot   *)
(* is the serial loop.                                                     *)
(*                                                                         *)
(* Nothing on a worker's stream tells which event a line answers.  What a  *)
(* worker does to the database is one step, "its effects are durable"; the *)
(* steps of generation events are in JobPoller.  The event counter that    *)
(* recycles sessions is a choice made between batches.                     *)
(***************************************************************************)
EXTENDS Inbox, Sequences

CONSTANTS PoolSize,     \* pool_size
          MaxAttempts,  \* SupervisorConfig.max_attempts
          StartTicks,   \* the longest a batch takes to start sessions and claim
          TurnTicks,    \* the transport's timeout
          MaxFaults,    \* bound: supervisor crashes and sessions that do not start
          MaxInterrupts \* bound: calls of request_worker_interrupt

ASSUME SupervisorAssumption ==
  /\ PoolSize \in Nat \ {0} /\ MaxAttempts \in Nat \ {0}
  /\ StartTicks \in Nat /\ TurnTicks \in Nat /\ MaxFaults \in Nat
  /\ MaxInterrupts \in Nat
  /\ StartTicks + TurnTicks < LeaseTicks
  /\ MaxAttempts + MaxFaults <= MaxClaims

VARIABLES phase,      \* where run_pool_once is
          next,       \* the slot it claims for next
          turn,       \* turn[s]: the event of slot s, its attempt_count, the result
          worker,     \* worker[s]: the process of slot s and its pipes
          marked,     \* _interrupted_sessions
          interrupt,  \* a call of request_worker_interrupt: session, turn in flight
          interrupts, \* such calls so far
          elapsed,    \* ticks since the batch began
          faults,     \* faults so far
          done,       \* history: events whose effects are durable
          hits        \* history: slots whose turn the last interrupt hit

superVars == <<phase, next, turn, elapsed, faults>>
workerVars == <<worker, done>>
interruptVars == <<marked, interrupt, interrupts, hits>>
supervisorVars == <<inboxVars, superVars, workerVars, interruptVars>>

Slots == 1..PoolSize

\* A slot without a turn, a process just started, no interrupt being made.
NoTurn  == [event |-> 0, attempt |-> 0, result |-> "none"]
Started == [up |-> TRUE, todo |-> <<>>, applied |-> FALSE, replies |-> <<>>]
Dead(w) == [w EXCEPT !.up = FALSE, !.todo = <<>>, !.applied = FALSE]
NoInterrupt == [slot |-> 0, turn |-> NoTurn]

SupervisorInit ==
  /\ InboxInit
  /\ phase = "rest" /\ next = 1 /\ elapsed = 0 /\ faults = 0
  /\ turn = [s \in Slots |-> NoTurn]
  /\ worker = [s \in Slots |-> Dead(Started)]
  /\ marked = {} /\ interrupt = NoInterrupt /\ interrupts = 0 /\ hits = {}
  /\ done = {}

InFlight(s) == turn[s].result = "sent"
Fault == faults < MaxFaults /\ faults' = faults + 1
-----------------------------------------------------------------------------
\* Broken variants of the definitions below, for the mutation checks: a session
\* used on after a timeout, a failure that looks for the last attempt exactly or
\* allows one more, an interrupt that marks no turn, turns as long as leases, a
\* worker that answers ok whatever became of the event.
UsedOn(w) == w
AtExactly(n) == n = MaxAttempts
OneMore(n) == n > MaxAttempts
NeverMarked(s) == marked
LeaseLong == LeaseTicks
AlwaysOk(w) == [w EXCEPT !.todo = Tail(w.todo), !.applied = FALSE, !.replies = Append(w.replies, "ok")]

(* run_pool_once: claiming *)

\* _maybe_recycle may stop every session between batches.
BeginBatch ==
  /\ phase = "rest"
  /\ phase' = "claim" /\ next' = 1 /\ elapsed' = 0
  /\ \/ UNCHANGED worker
     \/ worker' = [s \in Slots |-> Dead(worker[s])]
  /\ UNCHANGED <<inboxVars, turn, faults, done, interruptVars>>

\* On to the next slot, or to the workers.
NextSlot == IF next < PoolSize THEN phase' = "claim" /\ next' = next + 1
                               ELSE phase' = "wait" /\ next' = 1

\* _ensure_slot_session: a live session is kept, a dead or poisoned one replaced.
Session(s) == IF worker[s].up THEN worker[s] ELSE Started

\* The slot gets the claimed event, unless no context can be built for it.
TakeTurn(e) ==
  /\ Claim(e)
  /\ turn' = [turn EXCEPT ![next] = [event |-> e, attempt |-> attempts'[e], result |-> "claimed"]]
  /\ NextSlot \/ (phase' = "drop" /\ UNCHANGED next)

ClaimSlot ==
  /\ phase = "claim"
  /\ worker' = [worker EXCEPT ![next] = Session(next)]
  /\ \/ \E e \in EventIds : TakeTurn(e)
     \/ /\ \A e \in EventIds : ~FirstClaimable(e)
        /\ ReclaimExpired
        /\ phase' = "wait" /\ next' = 1
        /\ UNCHANGED turn
  /\ UNCHANGED <<elapsed, faults, done, interruptVars>>

\* The slot's session does not start.
SkipSlot ==
  /\ phase = "claim" /\ ~worker[next].up
  /\ Fault
  /\ NextSlot
  /\ UNCHANGED <<inboxVars, turn, elapsed, workerVars, interruptVars>>

\* _handle_dispatch_failure: below the last attempt the lease is left to expire.
LastAttempt(n) == n >= MaxAttempts
DispatchFailure(s) == IF LastAttempt(turn[s].attempt) THEN Fail(turn[s].event)
                                                      ELSE UNCHANGED inboxVars

DropTurn ==
  /\ phase = "drop"
  /\ DispatchFailure(next)
  /\ turn' = [turn EXCEPT ![next] = NoTurn]
  /\ NextSlot
  /\ UNCHANGED <<elapsed, faults, workerVars, interruptVars>>
-----------------------------------------------------------------------------
(* send_event, one thread per slot *)

Send(s) ==
  /\ phase = "wait" /\ turn[s].result = "claimed"
  /\ marked' = marked \ {s}
  /\ IF worker[s].up
       THEN /\ turn' = [turn EXCEPT ![s].result = "sent"]
            /\ worker' = [worker EXCEPT ![s].todo = Append(@, turn[s].event)]
       ELSE /\ turn' = [turn EXCEPT ![s].result = "error"]
            /\ UNCHANGED worker
  /\ UNCHANGED <<inboxVars, phase, next, elapsed, faults, done, interrupt, interrupts, hits>>

\* The result of a turn that was interrupted is an error, whatever the answer.
Result(s, reply) == IF reply = "ok" /\ s \notin marked THEN "ok" ELSE "error"

\* The turn ends: an answer was read, or there will be none.
Answered(s, reply) ==
  /\ turn' = [turn EXCEPT ![s].result = Result(s, reply)]
  /\ marked' = marked \ {s}
  /\ UNCHANGED <<inboxVars, phase, next, elapsed, faults, done, interrupt, interrupts, hits>>

\* The next line of the worker, taken for the answer.
Receive(s) ==
  /\ InFlight(s) /\ worker[s].replies # <<>>
  /\ worker' = [worker EXCEPT ![s].replies = Tail(@)]
  /\ Answered(s, Head(worker[s].replies))

\* The worker closed its end.
Closed(s) ==
  /\ InFlight(s) /\ ~worker[s].up /\ worker[s].replies = <<>>
  /\ Answered(s, "closed")
  /\ UNCHANGED worker

\* The turn timed out: the session is poisoned and its process killed.
Poisoned(w) == Dead(w)
Timeout(s) ==
  /\ InFlight(s) /\ worker[s].replies = <<>>
  /\ worker' = [worker EXCEPT ![s] = Poisoned(@)]
  /\ Answered(s, "timeout")

(* Settling, when every slot has its result *)

BeginSettle ==
  /\ phase = "wait"
  /\ \A s \in Slots : turn[s].result \in {"none", "ok", "error"}
  /\ phase' = "settle"
  /\ UNCHANGED <<inboxVars, next, turn, elapsed, faults, workerVars, interruptVars>>

SettleTurn(s) ==
  /\ phase = "settle" /\ turn[s] # NoTurn
  /\ \A t \in 1..(s - 1) : turn[t] = NoTurn
  /\ IF turn[s].result = "ok" THEN Ack(turn[s].event) ELSE DispatchFailure(s)
  /\ turn' = [turn EXCEPT ![s] = NoTurn]
  /\ hits' = hits \ {s}
  /\ UNCHANGED <<phase, next, elapsed, faults, workerVars, marked, interrupt, interrupts>>

EndBatch ==
  /\ phase = "settle" /\ \A s \in Slots : turn[s] = NoTurn
  /\ phase' = "rest" /\ elapsed' = 0
  /\ UNCHANGED <<inboxVars, next, turn, faults, workerVars, interruptVars>>
-----------------------------------------------------------------------------
(* run_worker: one line after another *)

\* handle_event committed its last transaction.
Apply(s) ==
  /\ worker[s].todo # <<>> /\ ~worker[s].applied
  /\ worker' = [worker EXCEPT ![s].applied = TRUE]
  /\ done' = done \cup {Head(worker[s].todo)}
  /\ UNCHANGED <<inboxVars, superVars, interruptVars>>

\* The answer is printed: ok, or a refusal of an event it did nothing about.
Replied(w) ==
  [w EXCEPT !.todo = Tail(w.todo), !.applied = FALSE,
            !.replies = Append(w.replies, IF w.applied THEN "ok" ELSE "refused")]
Reply(s) ==
  /\ worker[s].todo # <<>>
  /\ worker' = [worker EXCEPT ![s] = Replied(worker[s])]
  /\ UNCHANGED <<inboxVars, superVars, done, interruptVars>>

WorkerDies(s) ==
  /\ worker[s].up
  /\ worker' = [worker EXCEPT ![s] = Dead(@)]
  /\ UNCHANGED <<inboxVars, superVars, done, interruptVars>>

(* request_worker_interrupt, from a thread of its own or between batches *)

\* The turn is marked before the signal is sent.
Marked(s) == marked \cup {s}

\* (Of a session without a turn it marks nothing: a process that just dies.)
RequestInterrupt(s) ==
  /\ interrupt = NoInterrupt /\ InFlight(s)
  /\ interrupts < MaxInterrupts /\ interrupts' = interrupts + 1
  /\ interrupt' = [slot |-> s, turn |-> turn[s]]
  /\ marked' = Marked(s)
  /\ UNCHANGED <<inboxVars, superVars, workerVars, hits>>

\* SIGINT ends a worker, now or a little later (WorkerDies); without a process
\* to signal the mark is taken back.  (When the turn is over and its session
\* was replaced, the new process is not signalled, but it may die anyway.)
Signal ==
  /\ interrupt # NoInterrupt
  /\ LET s == interrupt.slot
     IN  IF worker[s].up
           THEN /\ worker' = [worker EXCEPT ![s] = Dead(@)] \/ UNCHANGED worker
                /\ hits' = IF turn[s] = interrupt.turn THEN hits \cup {s} ELSE hits
                /\ UNCHANGED marked
           ELSE /\ marked' = marked \ {s}
                /\ hits' = hits \ {s}
                /\ UNCHANGED worker
  /\ interrupt' = NoInterrupt
  /\ UNCHANGED <<inboxVars, superVars, done, interrupts>>
-----------------------------------------------------------------------------
(* Crashes, other processes, and time *)

\* The supervisor dies.  A worker process reads no further line; what it still
\* does about the one it has is left out, it would only add to done.
Crash ==
  /\ Fault
  /\ phase' = "rest" /\ next' = 1 /\ elapsed' = 0
  /\ turn' = [s \in Slots |-> NoTurn]
  /\ worker' = [s \in Slots |-> Dead(Started)]
  /\ marked' = {} /\ interrupt' = NoInterrupt /\ hits' = {}
  /\ UNCHANGED <<inboxVars, done, interrupts>>

\* Users enqueue events and the board takes back expired leases.
Others ==
  /\ \/ \E e \in EventIds, a \in Artifacts \cup {NoArtifact}, k \in Keys \cup {NoKey} :
          Enqueue(e, a, k)
     \/ ReclaimExpired
  /\ UNCHANGED <<superVars, workerVars, interruptVars>>

\* A batch takes no longer than its sessions' start and the transport's timeout.
TimeLimit == CASE phase = "claim" -> StartTicks
               [] phase = "drop"  -> StartTicks
               [] OTHER           -> StartTicks + TurnTicks

PassTime ==
  /\ Tick
  /\ \/ phase = "rest" /\ UNCHANGED elapsed
     \/ phase # "rest" /\ elapsed < TimeLimit /\ elapsed' = elapsed + 1
  /\ UNCHANGED <<phase, next, turn, faults, workerVars, interruptVars>>

Supervise == \/ BeginBatch \/ ClaimSlot \/ DropTurn \/ BeginSettle \/ EndBatch
             \/ \E s \in Slots : Send(s) \/ Receive(s) \/ Closed(s) \/ Timeout(s) \/ SettleTurn(s)
Work == \E s \in Slots : Apply(s) \/ Reply(s) \/ WorkerDies(s)
Interrupting == Signal \/ \E s \in Slots : RequestInterrupt(s)

SupervisorNext == Supervise \/ Work \/ Interrupting \/ SkipSlot \/ Crash \/ Others \/ PassTime

\* The loop of "surface serve" goes on and time passes.  Workers owe nothing.
SupervisorSpec == /\ SupervisorInit /\ [][SupervisorNext]_supervisorVars
                  /\ WF_supervisorVars(Supervise) /\ SF_supervisorVars(PassTime)
-----------------------------------------------------------------------------
Results == {"claimed", "sent", "ok", "error"}
Turns   == [event : EventIds, attempt : 1..MaxClaims, result : Results] \cup {NoTurn}
Answers == {"ok", "refused"}
Workers == [up : BOOLEAN, todo : Seq(EventIds), applied : BOOLEAN, replies : Seq(Answers)]

\* The supervisor's bookkeeping, the pipes and the phases have values of their
\* types, and slots have turns only inside a batch.
SupervisorTypeOK ==
  /\ phase \in {"rest", "claim", "drop", "wait", "settle"} /\ next \in Slots
  /\ turn \in [Slots -> Turns]
  /\ worker \in [Slots -> Workers]
  /\ marked \subseteq Slots /\ hits \subseteq Slots
  /\ interrupt \in [slot : Slots, turn : Turns \ {NoTurn}] \cup {NoInterrupt}
  /\ elapsed \in 0..(StartTicks + TurnTicks) /\ faults \in 0..MaxFaults /\ interrupts \in 0..MaxInterrupts
  /\ done \subseteq EventIds
  /\ phase = "rest" => turn = [s \in Slots |-> NoTurn]

\* An event is acked only when its effects are durable: with timeouts, dead and
\* replaced workers, interrupts, crashes and answers that come late, the answer
\* the supervisor reads is the answer to the event it acks.
AckedIsDone == \A e \in EventIds : status[e] = "acked" => e \in done

\* A worker under a supervisor never works on an event whose claim was lost: no
\* other worker can have the event, or another one of its artifact, meanwhile.
WorksUnderLease ==
  \A s \in Slots : worker[s].todo # <<>> =>
     LET e == Head(worker[s].todo)
     IN  status[e] = "processing" /\ attempts[e] = turn[s].attempt

\* An event is delivered at most MaxAttempts times, and once more for each
\* crash of the supervisor.
BoundedDelivery == \A e \in EventIds : attempts[e] <= MaxAttempts + faults

\* A turn that was in flight when an interrupt hit it is not a success, also
\* when its answer was in the pipe already.  (A second interrupt of the turn,
\* which finds no process to signal, takes the mark of the first one back.)
InterruptedNotOk == \A s \in hits : turn[s].result # "ok"

\* Every event is acked or failed in the end, whatever workers do.
EventsSettle == \A e \in EventIds : status[e] = "pending" ~> status[e] \in Settled

\* The slots of a pool get from their workers what WorkerTransport says: one turn
\* at a time, that ends once, and well only when its event's effects are durable.
\* A turn that is claimed or sent is open.
SeenResult(result) == IF result \in {"claimed", "sent"} THEN "open" ELSE result
SeenTurns == [s \in Slots |-> [event |-> turn[s].event, result |-> SeenResult(turn[s].result)]]
Transport == INSTANCE WorkerTransport
               WITH Supervisors <- Slots, Events <- EventIds, turn <- SeenTurns
ImplementsTransport == Transport!TransportSpec
=============================================================================
