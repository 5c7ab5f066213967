----------------------------- MODULE Generation -----------------------------
(***************************************************************************)
(* Images and videos, from the request to the result: what a user asks     *)
(* for on the board (surface/board.py) or a command, the handlers of the   *)
(* worker pool that turn requests into jobs within the budget              *)
(* (surface/worker.py, stages/config.py), the poller that completes them   *)
(* (poller.py), and what locks and changed sources do to the artifact in   *)
(* between (store.py).                                                     *)
(*                                                                         *)
(* The inbox is the abstract queue that Inbox implements; turns hold their *)
(* leases (WorksUnderLease of Supervisor).  An event has at most one job   *)
(* (OneJobPerRequest of JobPoller, but for the exception it names), which  *)
(* has the event's number here.  "surface serve" waits for the turns of    *)
(* its pool and then polls: a poll lists the unfinished jobs and decides   *)
(* on each by the row it listed, which a command may have made stale.  A   *)
(* request that is refused ends like a turn that dies: with its event      *)
(* still in processing, to be tried again or given up.  Webhooks, which no *)
(* command calls yet, and "surface store job-cancel" are in JobPoller, the *)
(* versions in ArtifactGraph and JobPoller.                                *)
(***************************************************************************)
EXTENDS ArtifactQueue, Functions

CONSTANTS Stages, StageOf,  \* the stage of each artifact
          Costs,            \* cost_estimate of a request
          ProjectLimit,     \* budget.project_usd
          StageLimit,       \* budget.stage_usd
          MaxTouches        \* bound: what users do without an event, and commands

ASSUME GenerationAssumption ==
  /\ MaxEvents \in Nat /\ NoArtifact \notin Artifacts
  /\ StageOf \in [Artifacts -> Stages]
  /\ Costs \subseteq Nat
  /\ ProjectLimit \in Nat /\ StageLimit \in Nat /\ MaxTouches \in Nat

VARIABLES request,  \* request[e]: events.type and the cost estimate
          job,      \* job[e]: jobs.status of e's job, "none" before the INSERT
          cancel,   \* jobs with cancel_requested
          state,    \* artifacts.status
          locked,   \* artifacts.locked
          turn,     \* turn[a]: the turn of a worker on a and its next step
          touches,  \* direct actions so far
          unsent,   \* jobs the poll listed without a provider's id and has yet to do
          sent,     \* jobs the poll listed with one and has yet to do
          task,     \* the job the poller completes and its next step
          command,  \* the job a command has looked at and what it will do
          raced,    \* history: jobs made after another one was, since the check
          revived,  \* history: jobs that ended without cost and were taken up again
          sealed,   \* history: locked since nothing was under way
          marked    \* history: stale since nothing was open or under way

tables == <<queueVars, request, job, cancel, state, locked>>
poll == <<unsent, sent, task>>
history == <<raced, revived, sealed, marked>>
generationVars == <<tables, turn, touches, poll, command, history>>

Kinds == {"generate", "reopen", "cancel"}  \* "generate": regenerate or revise
NoRequest == [kind |-> "none", cost |-> 0]
NoTurn == [event |-> 0, step |-> "none"]
NoTask == [job |-> 0, step |-> "none"]
Listing == [job |-> 0, step |-> "list"]
FirstStep == [generate |-> "check", reopen |-> "draft", cancel |-> "cancel"]

GenerationInit ==
  /\ QueueInit
  /\ request = [e \in EventIds |-> NoRequest]
  /\ job = [e \in EventIds |-> "none"]
  /\ cancel = {} /\ locked = {}
  /\ state = [a \in Artifacts |-> "draft"]
  /\ turn = [a \in Artifacts |-> NoTurn]
  /\ unsent = {} /\ sent = {} /\ task = NoTask /\ command = NoTask
  /\ touches = 0
  /\ raced = {} /\ revived = {} /\ sealed = {} /\ marked = {}

Unfinished == {"queued", "running"}
Art(j) == artifact[j]
JobsOf(a) == {j \in EventIds : Art(j) = a /\ job[j] \in Unfinished}
AtStep(a, step) == turn[a].step = step
Goes(a, from, to) == AtStep(a, from) /\ turn' = [turn EXCEPT ![a].step = to]

OpenEvents(a) == {e \in EventIds : Art(e) = a /\ status[e] \in {"pending", "processing"}}
\* No job of a is unfinished, nor on the list of a poll.
AtHand(j) == job[j] \in Unfinished \/ j \in unsent \cup sent \/ task.job = j
AtRest(a) == \A j \in EventIds : AtHand(j) => Art(j) # a
-----------------------------------------------------------------------------
\* Broken variants of the definitions below, for the mutation checks: a budget
\* that forgets finished jobs, a lock nobody looks at, a poll that takes up failed
\* jobs again, an event acked that was given up.
UnfinishedOnly == Unfinished
AlwaysFree(e) == TRUE
AnyJob(st) == {j \in EventIds : job[j] \in {st, "failed"}}
TakenForDone == "acked"

(* The board, and commands that enqueue events *)

\* A second cancel or reopen finds the first as long as that is unsettled;
\* revisions with different notes are different requests.
Duplicate(a, kind) == kind # "generate" /\ \E e \in OpenEvents(a) : request[e].kind = kind

Submit(e, a, kind, cost) ==
  /\ ~Duplicate(a, kind)
  /\ cost \in IF kind = "generate" THEN Costs ELSE {0}
  /\ Accept(e, a)
  /\ request' = [request EXCEPT ![e] = [kind |-> kind, cost |-> cost]]
  /\ marked' = IF kind = "cancel" THEN marked ELSE marked \ {a}
  /\ UNCHANGED <<job, cancel, state, locked, turn, touches, poll, command, raced, revived, sealed>>

\* Done by the board itself, or by a command.
Touch == touches < MaxTouches /\ touches' = touches + 1

\* approve; a lock may be overridden.
Approve(a) ==
  /\ state[a] \notin {"failed", "cancelled"}
  /\ state' = [state EXCEPT ![a] = "approved"]
  /\ marked' = marked \ {a}
  /\ Touch
  /\ UNCHANGED <<queueVars, request, job, cancel, locked, turn, poll, command, raced, revived, sealed>>

\* lock, unlock.  Turns past their check of the lock count as under way.
Lock(a) ==
  /\ locked' = locked \cup {a}
  /\ sealed' = IF /\ AtRest(a) /\ state[a] # "generating"
                  /\ turn[a].step \notin {"create", "generating"}
               THEN sealed \cup {a} ELSE sealed
  /\ Touch
  /\ UNCHANGED <<queueVars, request, job, cancel, state, turn, poll, command, raced, revived, marked>>

Unlock(a) ==
  /\ locked' = locked \ {a}
  /\ sealed' = sealed \ {a}
  /\ Touch
  /\ UNCHANGED <<queueVars, request, job, cancel, state, turn, poll, command, raced, revived, marked>>

\* Another version is selected of the artifact that all of these depend on:
\* _propagate_stale, whatever their status, locked or not.
SelectSource ==
  /\ state' = [a \in Artifacts |-> "stale"]
  /\ marked' = marked \cup {a \in Artifacts : AtRest(a) /\ OpenEvents(a) = {}}
  /\ Touch
  /\ UNCHANGED <<queueVars, request, job, cancel, locked, turn, poll, command, raced, revived, sealed>>
-----------------------------------------------------------------------------
(* The supervisor's side *)

HasTurn(e) == \E a \in Artifacts : turn[a].event = e

Deliver(e) ==
  /\ task = NoTask /\ unsent \cup sent = {}
  /\ Art(e) \in Artifacts
  /\ \E S \in SUBSET {d \in InProcess : ~HasTurn(d)} : HandOut(S, e)
  /\ turn' = [turn EXCEPT ![Art(e)] = [event |-> e, step |-> FirstStep[request[e].kind]]]
  /\ UNCHANGED <<request, job, cancel, state, locked, touches, poll, command, history>>

\* The request is refused, the worker dies or is killed: the event comes back
\* with its lease, or is failed after the last attempt.
Ended(a) == [turn EXCEPT ![a] = NoTurn]
Stop(a) ==
  /\ turn[a] # NoTurn
  /\ turn' = Ended(a)
  /\ UNCHANGED <<tables, touches, poll, command, history>>

Over(a, outcome) == /\ Settle(turn[a].event, outcome)
                    /\ turn' = Ended(a)
                    /\ UNCHANGED <<request, job, cancel, state, locked, touches, poll, command, history>>
GivenUp == "failed"
GiveUp(a) == turn[a] # NoTurn /\ Over(a, GivenUp)
Answer(a) == AtStep(a, "done") /\ Over(a, "acked")
-----------------------------------------------------------------------------
(* The worker: _create_generation_job, _handle_reopen, _handle_cancel *)

\* _sum_job_costs, _check_budget and validate_budget_limit.
Counted == Unfinished \cup {"succeeded"}
CostsOf(S) == SumFunctionOnSet([e \in EventIds |-> request[e].cost], S)
InStage(s) == {j \in EventIds : Art(j) \in Artifacts /\ StageOf[Art(j)] = s}
Spent(S) == CostsOf({j \in S : job[j] \in Counted})
WithinBudget(e) ==
  /\ Spent(EventIds) + request[e].cost <= ProjectLimit
  /\ Spent(InStage(StageOf[Art(e)])) + request[e].cost <= StageLimit

\* What is read before the INSERT: the lock, a job made for the event before,
\* the costs.
Free(a) == a \notin locked
CheckRequest(a) ==
  /\ AtStep(a, "check") /\ Free(a)
  /\ \/ job[turn[a].event] # "none" /\ Goes(a, "check", "done")
     \/ /\ job[turn[a].event] = "none" /\ WithinBudget(turn[a].event)
        /\ Goes(a, "check", "create")
  /\ UNCHANGED <<tables, touches, poll, command, history>>

CreateJob(a) ==
  /\ Goes(a, "create", "generating")
  /\ job' = [job EXCEPT ![turn[a].event] = "queued"]
  /\ raced' = raced \cup {turn[b].event : b \in {c \in Artifacts \ {a} : AtStep(c, "create")}}
  /\ UNCHANGED <<queueVars, request, cancel, state, locked, touches, poll, command, revived, sealed, marked>>

SetGenerating(a) ==
  /\ Goes(a, "generating", "done")
  /\ state' = [state EXCEPT ![a] = "generating"]
  /\ UNCHANGED <<queueVars, request, job, cancel, locked, touches, poll, command, history>>

SetDraft(a) ==
  /\ Goes(a, "draft", "done")
  /\ state' = [state EXCEPT ![a] = "draft"]
  /\ UNCHANGED <<queueVars, request, job, cancel, locked, touches, poll, command, history>>

\* The first unfinished job that is found, queued ones before running ones.
Found(a) == LET queued == {j \in JobsOf(a) : job[j] = "queued"}
            IN IF queued # {} THEN queued ELSE JobsOf(a)
RequestCancel(a) ==
  /\ Goes(a, "cancel", "done")
  /\ \E j \in Found(a) : cancel' = cancel \cup {j}
  /\ UNCHANGED <<queueVars, request, job, state, locked, touches, poll, command, history>>
-----------------------------------------------------------------------------
(* The poller, between the turns: nothing is cancelled while a poll lasts *)

Listed(st) == {j \in EventIds : job[j] = st}

\* A poll first lists the queued jobs, which have no provider's id, then the running
\* ones.  A poll that would find nothing is left out.
ListQueued ==
  /\ task = NoTask /\ unsent \cup sent = {} /\ \A a \in Artifacts : turn[a] = NoTurn
  /\ Listed("queued") \cup Listed("running") # {}
  /\ unsent' = Listed("queued") /\ task' = Listing
  /\ UNCHANGED <<tables, turn, touches, sent, command, history>>

ListRunning ==
  /\ task = Listing
  /\ sent' = Listed("running") /\ task' = NoTask
  /\ UNCHANGED <<tables, turn, touches, unsent, command, history>>

\* The loop body for a job on the list, whatever has become of the job since.
Look(j) == /\ task = NoTask /\ j \in unsent \cup sent
           /\ unsent' = unsent \ {j} /\ sent' = sent \ {j}
JobBecomes(j, s) == /\ job' = [job EXCEPT ![j] = s]
                    /\ revived' = IF s \in Counted /\ job[j] \notin Counted
                                  THEN revived \cup {j} ELSE revived
                    /\ UNCHANGED <<queueVars, request, cancel, state, locked, turn, touches,
                                   raced, sealed, marked>>
Takes(j, step) == task' = [job |-> j, step |-> step]

SubmitJob(j) ==
  /\ j \in unsent \ cancel /\ Look(j)
  /\ JobBecomes(j, "running")
  /\ UNCHANGED <<task, command>>

\* The provider is still at it.
Pass(j) ==
  /\ j \in sent \ cancel /\ Look(j)
  /\ UNCHANGED <<tables, turn, touches, task, command, history>>

\* The provider has succeeded, and the job is not found cancelled: the version is
\* made and selected, the artifact and then the job are updated.
Collect(j) ==
  /\ j \in sent \ cancel /\ Look(j)
  /\ job[j] # "cancelled"
  /\ Takes(j, "review")
  /\ UNCHANGED <<tables, turn, touches, command, history>>

SetStatus(step, s) ==
  /\ task.step = step
  /\ state' = [state EXCEPT ![Art(task.job)] = s]
  /\ UNCHANGED <<queueVars, request, job, cancel, locked, turn, touches, unsent, sent, command, history>>
SetReview == SetStatus("review", "review") /\ Takes(task.job, "succeed")
SetFailed == SetStatus("failed", "failed") /\ task' = NoTask
SetCancelled == SetStatus("cancelled", "cancelled") /\ task' = NoTask

Succeed ==
  /\ task.step = "succeed"
  /\ JobBecomes(task.job, "succeeded")
  /\ task' = NoTask
  /\ UNCHANGED <<unsent, sent, command>>

\* The provider has failed or withdrawn the job, or it could not be submitted.
FailJob(j) ==
  /\ j \notin cancel /\ Look(j)
  /\ JobBecomes(j, "failed") /\ Takes(j, "failed")
  /\ UNCHANGED command
WithdrawJob(j) ==
  /\ j \in sent \ cancel /\ Look(j)
  /\ JobBecomes(j, "cancelled")
  /\ UNCHANGED <<task, command>>
CancelJob(j) ==
  /\ j \in cancel /\ Look(j)
  /\ JobBecomes(j, "cancelled") /\ Takes(j, "cancelled")
  /\ UNCHANGED command

\* An exception on the success path.
Raise ==
  /\ task.step \in {"review", "succeed"}
  /\ JobBecomes(task.job, "failed") /\ Takes(task.job, "failed")
  /\ UNCHANGED <<unsent, sent, command>>

\* "surface serve" dies during a poll.
Crash ==
  /\ poll # <<{}, {}, NoTask>>
  /\ unsent' = {} /\ sent' = {} /\ task' = NoTask
  /\ UNCHANGED <<tables, turn, touches, command, history>>
-----------------------------------------------------------------------------
(* Commands: "surface store job-finish" and "surface recover --force-reclaim" read *)
(* the job, then update it.  One of them runs at a time.                           *)

LookToFinish(j) ==
  /\ command = NoTask
  /\ job[j] \notin {"none", "cancelled"} /\ j \notin cancel
  /\ command' = [job |-> j, step |-> "finish"]
  /\ Touch
  /\ UNCHANGED <<tables, turn, poll, history>>

LookForStuck(j) ==
  /\ command = NoTask
  /\ job[j] \in Unfinished
  /\ command' = [job |-> j, step |-> "reclaim"]
  /\ Touch
  /\ UNCHANGED <<tables, turn, poll, history>>

Executes(step, s) ==
  /\ command.step = step
  /\ JobBecomes(command.job, s)
  /\ command' = NoTask
  /\ UNCHANGED poll
FinishJob == Executes("finish", "succeeded")
ForceReclaim == Executes("reclaim", "failed")

Users == \/ \E e \in EventIds, a \in Artifacts, kind \in Kinds, cost \in Costs \cup {0} : Submit(e, a, kind, cost)
         \/ \E a \in Artifacts : Approve(a) \/ Lock(a) \/ Unlock(a)
         \/ SelectSource
Turns == \/ \E e \in EventIds : Deliver(e)
         \/ \E a \in Artifacts : \/ Stop(a) \/ GiveUp(a) \/ Answer(a)
                                 \/ CheckRequest(a) \/ CreateJob(a) \/ SetGenerating(a)
                                 \/ SetDraft(a) \/ RequestCancel(a)
Commands == (\E j \in EventIds : LookToFinish(j) \/ LookForStuck(j)) \/ FinishJob \/ ForceReclaim
Polls == \/ ListQueued \/ ListRunning
         \/ \E j \in EventIds : \/ SubmitJob(j) \/ Collect(j) \/ FailJob(j) \/ WithdrawJob(j)
                                \/ CancelJob(j) \/ Pass(j)
         \/ SetReview \/ SetFailed \/ SetCancelled \/ Succeed \/ Raise \/ Crash

GenerationNext == Users \/ Turns \/ Polls \/ Commands
GenerationSpec == GenerationInit /\ [][GenerationNext]_generationVars
-----------------------------------------------------------------------------
\* Jobs belong to requests for generation; turns work on events in processing
\* and the poller on jobs that exist.
ArtifactStates == {"draft", "generating", "review", "approved", "stale", "failed", "cancelled"}
GenerationTypeOK ==
  /\ status \in [EventIds -> Statuses]
  /\ artifact \in [EventIds -> Artifacts \cup {NoArtifact}]
  /\ request \in [EventIds -> [kind : Kinds, cost : Costs \cup {0}] \cup {NoRequest}]
  /\ job \in [EventIds -> {"none", "queued", "running", "succeeded", "failed", "cancelled"}]
  /\ \A e \in EventIds : job[e] # "none" => request[e].kind = "generate"
  /\ cancel \cup raced \cup revived \subseteq EventIds
  /\ state \in [Artifacts -> ArtifactStates]
  /\ sealed \subseteq locked /\ locked \subseteq Artifacts /\ marked \subseteq Artifacts
  /\ \A a \in Artifacts : turn[a] = NoTurn \/ /\ artifact[turn[a].event] = a
                                              /\ status[turn[a].event] = "processing"
  /\ touches \in 0..MaxTouches
  /\ \A j \in unsent \cup sent \cup {task.job, command.job} : j = 0 \/ job[j] # "none"

\* Jobs together cost no more than the limits of the project and of their stage,
\* however many requests are handled, retried and cancelled at once; beyond them
\* go only jobs that another worker's job overtook between the check and the
\* INSERT (none in a pool of one worker), and jobs that were written off and
\* submitted or finished after all.
BudgetKept ==
  LET charged == {j \in EventIds \ (raced \cup revived) :
                    job[j] \in {"queued", "running", "succeeded"}} IN
  /\ CostsOf(charged) <= ProjectLimit
  /\ \A s \in Stages : CostsOf(charged \cap InStage(s)) <= StageLimit

\* An artifact that is locked while nothing is under way is left alone until it
\* is unlocked: no request that waits, comes or is delivered again starts a
\* generation.
LockedIsLeft == \A a \in sealed : JobsOf(a) = {} /\ state[a] # "generating"

\* A stale mark that is set while no request is open, no job unfinished and none
\* left on the list of a poll stands until somebody approves the artifact or asks
\* for something new: no retry, no cancellation and no later poll takes it away,
\* whatever commands do to the jobs.  One that is set while a job is on a poll's
\* list may go with the completion of that job.
MarkStands == \A a \in marked : state[a] = "stale"

\* A cancel event cancels no generation that was requested after it, however
\* late and however often it is delivered.
Later(j, e) == j < e /\ Art(j) = Art(e)
CancelsOlderOnly ==
  \A j \in cancel : \E e \in EventIds : Later(j, e) /\ request[e].kind = "cancel"

\* A request that was acked has its job, a cancel its cancelled job: a refused
\* one is never taken for done.
AckedHasEffect ==
  \A e \in EventIds : status[e] = "acked" =>
     /\ request[e].kind = "generate" => job[e] # "none"
     /\ request[e].kind = "cancel" => \E j \in cancel : Later(j, e)
=============================================================================
