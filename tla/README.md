# A TLA+ model of agent_surface

agent_surface lets a person steer agents through a *board*: artifacts move through stages, user
actions become events in an SQLite inbox, a supervisor hands the events to worker processes, and
long generations run as jobs that a poller or a webhook completes.  Nothing is kept in memory that
must survive: SQLite is the only shared state, several processes open it at once, and any of them
may die at any point.  The rules that make this work (one turn per artifact, oldest event first,
leases, idempotent retries, staleness, budgets, cancellation) are spread over several short
transactions, and the rules of the processes themselves (who is stopped, who is interrupted, who
answers whom) over a few small files.
This directory models those rules from the code, checks them with TLC on small instances, and
proves every safety property that TLC checks with TLAPS, for every value of the constants.

File names below are relative to `src/surface/`; `docs/SPEC.md` is the repository's own
specification.  `PROJECT.json` maps every definition to the lines it stands for.

Contents: [inventory](#inventory) · [modules](#modules-and-how-they-correspond-to-the-code) ·
[runs and bounds](#runs-bounds-and-what-they-show) · [fairness](#fairness) ·
[what the code does otherwise](#where-the-code-and-its-documents-disagree) ·
[proofs](#proofs) · [not modelled](#abstractions-and-what-is-not-modelled) · [plan](#plan)

## Inventory

| Component | State | Operations | Interacts with |
|---|---|---|---|
| Event inbox (`store.py`) | `events`, `artifact_locks` | enqueue with dedupe, claim, reclaim, ack, fail | supervisor, board, CLI, poller, graph (stale events) |
| Artifacts, versions, dependencies (`store.py`) | `artifacts`, `artifact_versions`, `artifact_dependencies` | create, put_version, select_version, add_dependency, set_status, set_lock | worker, board, poller, CLI |
| Job store (`store.py`) | `jobs` | create_job, update_job_status, cancel_job, finish_job | worker, poller, webhook, CLI |
| Poller (`poller.py`) | the list of one poll | submit, poll, complete, fail, cancel | job store, graph, inbox, providers |
| Webhook (`webhook.py`) | none | complete a job at once | the poller's completion code |
| Providers (`providers/`) | external jobs | submit, status, collect, cancel | poller |
| Supervisor (`supervisor.py`) | sessions, marked sessions, config | claim and dispatch, batches of a pool, bounded retry, recycle, interrupt | inbox, transports |
| Transports (`transports/`): native stream, resume, ACP | sessions; a process and its pipes, a process per turn, an agent behind a client | start, send_event, interrupt, is_alive, close, resume | supervisor, worker |
| Worker (`worker.py`) | none | a handler per event type | all of the store |
| Stage configuration, budgets (`stages/config.py`) | none | validate, order, limits | worker, CLI |
| Serve loop, recovery (`cli.py`) | runtime files | serve, stop, interrupt, recover | supervisor, poller, board |
| Store and inbox commands (`cli.py`) | none | one Store call each | store |
| render, wait, answer (`cli.py`) | interaction files | create, poll, answer | each other, through the file |
| Board actions (`board.py`) | none | classify, apply or enqueue | store |
| Board server, terminal board, client (`board_web.py`, `tui.py`, `static/`) | tokens, rendering | HTTP, keys | board actions |
| Notifications, diff (`notify.py`, `diff.py`) | the previous summary | compare | store |

**What is hard.**  A `Store` guards its methods with an RLock, which excludes the threads of one
instance.  Other instances (the worker process, the board's thread, every CLI command) interleave
between a method's SELECT and its transaction.  Leases are compared with a clock reading that is as
old as the method.  A worker's answer carries no event id.  A completion of a job is five
transactions.  Interrupts come from other threads and, as a flag file, from other processes.  A
transport may give up on a turn that its worker goes on with.  Files are emptied before they are
written, and trusted after their writer died.  Every process may die between two statements, and
every event may be delivered again.  `PROJECT.json` lists these under `hazards`, each at its
line, with the properties that cover it or the reason that none does.

**What makes each component correct.**

- *Inbox*: a settled event is never handed out again; events of one artifact are handled one at a
  time, oldest first; a lock exists exactly as long as the claim that took it; one unsettled event
  per dedupe key; a crash loses nothing.
- *Graph*: no cycle; versions are immutable, one per source event; the selection is a version;
  staleness reaches every descendant and sticks until a review; no stale event is lost to the check
  for duplicates; a selection made on an old view does not replace a newer one.
- *Jobs*: a redelivered request starts no second generation; a cancellation in time is final; what
  is reported as done is there; "generating" means that a job is alive; every job ends.
- *Supervisor, transport, worker*: only done events are acked; a worker never works without its
  lease; deliveries are bounded; an interrupted turn is no success; every event is settled in the end.
- *Board and worker*: versions come in the order of the changes, one for each; the last edit shows
  when everything is done; an approval stands until somebody asks to reopen.
- *Generation*: jobs stay within the limits of project and stage; a locked artifact is not
  regenerated; a stale mark is not taken away by what comes late; a cancel hits no later request; a
  refused request is not taken for done.
- *Stage configuration*: validation accepts exactly the acyclic configurations, and ends.
- *Transports*: whichever is in use, a turn ends once and well only when its effects are durable,
  nobody goes on in the background, and a dead session is replaced.
- *Serve, stop, interrupt*: stop stops what runs, a clean end leaves nothing behind, one interrupt
  costs one turn.
- *render, wait, answer*: an acknowledged answer is not lost on a later wait, a wait ends within its bound.

## Modules and how they correspond to the code

```
ArtifactQueue  <--implements--  Inbox  <--extends--  Supervisor  --implements-->  WorkerTransport
   ^      ^                       ^                      ^
   |      |                       +--- SupervisorProofs -+
   |      +--implements, except for named races--  InboxConnections  <--  ConnectionsProofs
   +--extends--  Editing     <--  EditingProofs
   +--extends--  Generation  <--  GenerationProofs

ArtifactGraph  <--extends; implements, except for named races--  GraphConnections  <--  GraphProofs

JobPoller  <--  JobProofs

WorkerTransport  <--implements--  Transports  <--extends--  ServeLoop  <--  ServeProofs

StageConfig  <--extends--  Rendering  <--  RenderingProofs
```

Each `MC...` module extends one of these and adds the symmetry sets or constant definitions of
its `.cfg` files.

**ArtifactQueue** is the abstract specification of the inbox: events are accepted, handed out,
given back and settled.  Events have the order of their `created_at`; `Accept` asks that a new event of
an artifact is later than all there are, and leaves open which numbers other artifacts use.  It has no
leases, locks or clock.  `HandOut` may give back expired events and hand out another in one step, as a
claim does.

**Inbox** has the two tables as variables, one per column that a guard reads (`status`,
`artifact`, `key`, `lease`, `attempts`, `lock`), and one action per method of `Store`: `Enqueue`,
`ReclaimExpired`, `Claim`, `Ack`, `Fail`, plus `Tick` for the clock.  `Claim` includes the reclaim
that claim_next_event starts with, the scan (`FirstClaimable`), the claim and the lock.  A lease
counts ticks down to 0 (expired), which keeps the state space finite without a bound on time.
`Ack` and `Fail` take any event that exists, by id alone, as the code does: callers are arbitrary.

**InboxConnections** takes the same methods apart for several `Store` instances.  The unit is what
sqlite3 runs as one: a SELECT, or the statements from the first write to the commit.  `pc` and
`local` are a connection's place in its method and its Python locals: the clock reading of the method,
what each SELECT returned (overdue rows, pending rows, the lock row of each query) and the date of the
event it is about to insert.  `EnqueueCheck`, `EnqueueDate` and `EnqueueInsert` are enqueue_event, which
takes created_at before its transaction, so that an event may come in dated before another.  `Workers`
claim and answer, `Boards` enqueue and refresh, `Crash` ends a method between two statements.  Leases
are absolute times here.

What two connections can do to each other is named by five comparisons of what a connection *read* with
what the tables hold when it writes, none of which looks at what the abstract queue would allow:
`OverdueChanged` (other rows are overdue than those it will reset), `LockChanged` (the lock row it found
is no longer there), `OlderCame` (an older event is pending that was not when it scanned), `ClaimedOverdue` (one was
claimed with a lease over already, by a slower clock) and `Overtaken` (a later dated event came in before its
INSERT).  A step of a connection to which none of them applies is a step of `ArtifactQueue`, with one
exception: an early reclaim or claim may leave a turn without its lock (`robbed` remembers which), and
later claims, also with fresh readings, cannot see that turn.  A lock query that is left out, or a scan in
another order, is none of these, and the mutants of the run `conn` are those two.

**ArtifactGraph** has the artifact tables and one action per method.  Reachability (`Reaches`) is
stated by closed sets, which needs no recursion and can be proved about.  `SelectOver` is the
transaction of select_version with the propagation in it.  Of the inbox it keeps the stale events
of each artifact (`notice`), which wait, are handled, or have come back; `Inbox` justifies that at
most one of an artifact is handled at a time.  Two history variables say what a reader expects:
`behind` (an ancestor changed since the last status was set) and `unnoticed` (marked stale since
a stale event was last handed out).

**GraphConnections** extends it with `pc` and `local` for several connections: put_version's lookup,
`SELECT MAX(n)`, INSERT under the UNIQUE constraint, and the selection after it; select_version's
read and write; add_dependency's checks and INSERT; and the death of a process in between.
`ActsOnOldReading` compares what was read with the tables at the write: the versions that the lookup of the
source event found, the selection, the edges that the cycle check walked.  A write whose readings still
hold implements `ArtifactGraph`.

**JobPoller** composes the job table, the worker's regenerate handler, the poller, webhook
deliveries and the commands from outside.  Every completion is a chain of steps of a *completer*
(the poller or a webhook): `check`, `put`, `review`, `succeed`, `announce`; `fail`, `failed`;
`cancel`, `cancelled`; `withdraw`; `submit`, `store`.  `task[c]` is the next step of completer `c`, so that
another process, a crash or an error comes between any two.  The handler's search for an existing job is
five questions (`AskForJob`), one for each status, before the INSERT (`CreateJob`); `turn.saw` remembers in which
statuses the search could have seen each job, and `wavered` the requests of which it saw one in two.
finish_job and recover are two steps each, the look (`LookToFinish`, `LookForStuck`) and the UPDATE
(`finish_job`, `ForceReclaim`); `commands` are those in between.  `batch` and `seen` are the list a poll
works through and what it read of `cancel_requested` then; `ListQueued` and `ListRunning` are its two
SELECTs.  `serve` alternates a turn and a poll, which is why `BeginTurn` and `ListQueued` exclude each other.

**Supervisor** extends `Inbox` with run_pool_once, its transport and its workers: `BeginBatch`
(possibly recycling), `ClaimSlot`/`SkipSlot`/`DropTurn` for each slot in turn, `Send`, `Receive`,
`Closed`, `Timeout` on each slot's pipe, `BeginSettle`, `SettleTurn` in the order of the slots,
`EndBatch`.  A worker has a queue of lines to handle and a queue of answers; `Apply` makes an
event's effects durable and `Reply` prints an answer that names no event.  An interrupt is two
steps, `RequestInterrupt` (mark) and `Signal`.  A pool of one slot is claim_and_dispatch_event.

**Editing** composes the board, the inbox and the worker for text artifacts.  The inbox is
`ArtifactQueue`, extended; `Submit` is enqueue_edit, enqueue_revise or enqueue_reopen with its dedupe
key, `SelectByHand` and `Approve` are the board's direct actions, `Deliver`, `Reclaim`, `Stop`, `GiveUp`
and `Answer` are the supervisor's side, and `turn[a]` is the next transaction of the handler that works
on artifact `a`: `read` (the basis of a revision), `put` (the version, or the one made before),
`select`, `draft`.  A turn may end before each.  That only events without a turn go back to the inbox is
`WorksUnderLease` of `Supervisor`.  Two history variables, `before` and `standing`, say since when
somebody expects something.

**Generation** composes the board, the inbox, a pool of workers, the job table and the poller for
images and videos, with what `JobPoller` leaves out: stages with costs and limits, locks, stale marks
and requests of several kinds.  The inbox is `ArtifactQueue`, extended; a job has the number of its
event, of which `OneJobPerRequest` says that there is one only.  `turn[a]` is the next transaction of
the handler that works on artifact `a`: `check` (lock, existing job, budget), `create`, `generating`;
`draft`; `cancel`.  `CheckRequest` and `CreateJob` are two steps, so that two workers may check before
either creates.  A request that is refused is a turn that stops, as for the supervisor a worker that
answers with an error and one that dies are the same.  A poll lists the jobs (`ListQueued`, `ListRunning`)
and works the list off (`Look`), whatever has become of a job since: `unsent` and `sent` are the rows left,
`task` the poller's next transaction on a job.  Turns and polls exclude each other, as `serve` alternates
them.  job-finish and recover come in between: `LookToFinish` or `LookForStuck`, then `FinishJob` or
`ForceReclaim`.  `Touch`ing actions are these commands and what users do without an event (`Approve`,
`Lock`, `Unlock`, `SelectSource`).  Four histories delimit the
properties: `raced` and `revived` (jobs the budget did not see coming), `sealed` and `marked`
(locked, or stale, since nothing was under way).

**WorkerTransport** is the abstract specification of what a supervisor relies on: it gives one event
at a time, the turn ends with one result, and well only when the event's effects are durable.
`Supervisor` implements it slot by slot, `Transports` process by process: the one with the lines of the
native stream, the other with all three transports as their caller sees them.

**Transports** has the three transports side by side, chosen by `kind` in the initial state: sessions
(`StartWorker`, `Close`, `Resumed`, `IsAlive`), a turn (`Send`, `Receive`, `Timeout`), `Interrupt` and
when it takes effect, and the worker's side (`Commit`, `Reply`, `WorkerDies`).  `work[p]` is what the
worker of supervisor `p` is at, which after a timeout need not be what `p` waits for.  Where
`Supervisor` has the lines in the pipes of the native stream, this module has what a transport's
caller sees.  `ImplementsTransport` is its refinement of `WorkerTransport`.

**ServeLoop** extends it with `surface serve`, from the runtime files it writes to those it removes,
statement by statement: `pc[p]` is the main thread of process `p`, `file` who wrote each group of
files, `flag` the file of `surface interrupt`.  `Sigint` sets the stop event; `Dies` is SIGTERM, which
nobody handles, a second Ctrl-C or a crash.  `surface stop` is `BeginStop`, `ReadPids`, a `Terminate`
for each pid and `StopClears`; it interleaves with all of this.

**StageConfig** is the validation of a stage configuration.  The recursion of dfs is its call stack:
`path` and, for each active call, `todo`.  Its initial states are all configurations over `Names`, and
lists are walked in any order.

**Rendering** extends it with `surface render`, which validates and leaves an interaction file, and
the commands that meet there: `BeginWait` and `Look` are a wait and its rounds, `BeginAnswer`,
`OpenFile`, `WriteAnswer` an answer.  write_text opens the file, which empties it, and then writes:
two steps, with a reader, another answer or a kill in between.

**SupervisorProofs** (with the inbox), **ConnectionsProofs**, **GraphProofs**, **JobProofs**,
**EditingProofs**, **GenerationProofs**, **ServeProofs** and **RenderingProofs** hold the theorems.

Some definitions in each module are *broken variants* (a dropped guard, a reset that is missing, a
swapped order): `PROJECT.json` substitutes each for the definition it mimics, and the property it
names must then fail.  They are no part of the model.

## Runs, bounds and what they show

| Run | Configuration | Instance | Shows |
|---|---|---|---|
| `inbox` | `MCInbox.cfg` | 2 artifacts, 3 events, 1 key, 2 claims per event | `LocksMatchClaims`, `OneTurnPerArtifact`, `SettledForGood`, `ImplementsQueue` |
| `conn` | `MCConn.cfg` | 2 connections that do everything, 3 events of 1 artifact, leases that expire | `LockHeldForLease`, `ImplementsQueue` statement by statement, but for readings that changed |
| `conn_turns` | `MCConnTurns.cfg` | 2 workers and the board, 3 events, no expiry | `OneTurnPerArtifact` is violated |
| `graph` | `MCArtifactGraph.cfg` | 3 artifacts, 3 versions, 1 source | `Acyclic`, `OneVersionPerSource`, `StaleUntilReviewed`, `NoLostNotice` |
| `graph_conn` | `MCGraphConnections.cfg` | 2 connections, 2 artifacts, 2 versions | `ImplementsGraph` but for readings that changed, deaths between statements included |
| `jobs` | `MCJobPoller.cfg` | 2 requests for 1 artifact, one without a provider, poller and a webhook, 1 fault of 4 kinds, 1 job-finish | `OneJobPerRequest`, `CancelInTimeHonoured`, `ReportedIsMade`, `GeneratingIsAlive`, `GenerationEnds` |
| `sup` | `MCSupervisor.cfg` | pool of 2, 2 events, 2 attempts, 1 fault, 1 interrupt | `AckedIsDone`, `WorksUnderLease`, `BoundedDelivery`, `InterruptedNotOk`, `ImplementsTransport`, `EventsSettle` |
| `editing` | `MCEditing.cfg` | 1 artifact, 3 submissions, 2 contents and the empty one | `VersionsInOrder`, `LastEditShows`, `ApprovalStands` |
| `generation` | `MCGeneration.cfg` | 2 artifacts of 2 stages, 2 requests of 3 kinds, limits of one job, 2 direct actions or commands | `BudgetKept`, `LockedIsLeft`, `MarkStands`, `CancelsOlderOnly`, `AckedHasEffect` |
| `serve` | `MCServe.cfg` | 2 processes, 3 transports, 1 event, a stop and 2 interrupts | `StopStops`, `CleanEnd`, `InterruptFiresOnce`, `WorkIsWaitedFor`, `ImplementsTransport` |
| `dead_session` | `MCDeadSession.cfg` | 1 process, 3 transports, 1 event | `DeadIsReplaced` is violated |
| `stages` | `MCRendering.cfg` | all configurations over 3 names; 1 wait, 2 answers, 2 values | `AcceptedIsOrderable`, `CycleIsReal`, `AnswerIsSeen`, `UnreadableIsWritten`, `CommandsEnd` |

A property that the theorems below establish and whose failure another property of the run would show
(the type invariants, `OldestFirst`, `OneActivePerKey`, `SelectedExists`, `VersionsKept`) is proved and not run
again; each of them was model-checked before it was proved.

Why the bounds are enough:

- *Inbox.*  Locks and order relate events of one artifact in pairs; the third event is what a scan
  skips over, and the second artifact is what a claim must not disturb.  Two claims are a delivery
  and a redelivery.  `LeaseTicks = 1` distinguishes running from expired, the only two things code
  asks of a lease.  The theorems hold for all values.
- *Connections.*  Two connections give every pair of methods on different connections, and behaviours of
  one alone; a worker's also enqueues, so that a board of its own adds nothing (`conn_turns` has one).
  Three events are one in a turn, one that is claimed and one dated late.  Two ticks of the clock let a
  lease of one run out during a method and after it.  Keys are left to `inbox`.  Whoever moves a check
  into its transaction can drop its comparison and see whether the rest still holds.
- *Graph.*  Three artifacts are the smallest graph with an indirect dependency, a diamond's half and
  a cycle of more than two.  The histories make the long sequences short to state.  Two artifacts and
  two versions let connections race for a number, a selection and a cycle.
- *Jobs.*  Two requests for one artifact give two jobs that fight over its status; one of them has
  an unknown provider, so that its job fails without a provider.  One webhook beside the poller gives
  every pair of completers, and one fault falls between any two steps.  One job-finish (`MaxByHand`) is
  enough to move a job under a search or a completion; recover counts as a fault.  `MaxJobs = 2` leaves room for
  the duplicate job that must not be made.  The safety properties are also proved for all constants,
  any number of faults included.
- *Supervisor.*  Two slots are a batch with an order of settlement; two events of one artifact and
  artifact-less ones give both blocked and parallel slots; two attempts and one crash reach the
  bound of `BoundedDelivery`.  One interrupt is the bound for a reason, see `Signal` below.
- *Generation.*  Two requests are one that meets the other's job, costs, lock or cancellation; two
  artifacts in stages of their own give both limits and a pool of two.  A cost of 1 and limits of 1 make
  the second job the one too many.  With equal limits the stage's part of `BudgetKept` says no more than
  the project's; different ones take TLC too long, and `BudgetHolds` proves both parts for any costs and
  limits.  Two touches are a lock, a change of the source, an approval or a command, and what follows it;
  one command at a time is between its look and its UPDATE.  The properties are also proved for all constants.
- *Serve.*  Two processes, of which one at a time is in service (`MaxServing = 1`) while the other starts
  later or is still shutting down, are a crash and a restart, with the files of the one before the other.
  One event is handed out, given up and handed out again, and two interrupts are one too many.  With two
  processes in service at once stop may miss one, see below; the theorems hold of any number at once, as
`StopStops` speaks of processes that ran alone.  `dead_session` needs one process only.
- *Stages and interactions.*  Two answers race for the file, and a shorter value may be written over a
  longer one; the wait sleeps once, so that a round may find something else than the one before.
  Three names give every graph with a cycle of up to three, a stage met twice, one met from
  two roots, and unknown references.
- *Editing.*  Artifacts do not interact here, so one is enough.  Three submissions are an edit, what
  comes after it and what comes in between; each kind and content is tried for each.  Deliveries are
  not bounded.

Symmetry is declared only in runs that check no liveness.  Deadlock checking stays on wherever a step
of the clock, of a board or a repeated ack is always possible; it is off in `stages`, `serve`,
`dead_session` and `generation`, where commands end, processes stop, and requests and direct actions
are used up.

Named bounds: `MaxEvents`, `MaxClaims`, `MaxTime`, `MaxVersions`, `MaxTotal`, `MaxJobs`, `MaxFaults`,
`MaxInterrupts`, `MaxTouches`, `MaxByHand`, `MaxServing`; they appear in guards only.  `MaxPolls` is no bound of the
model but the `--max` of a wait.

## Fairness

- **JobPoller.**  `WF(Turn)` and `WF(Poll)`: every iteration of `serve` waits for its turn to end and
  then polls.  `WF(Complete(c))`: a completion that was started is a sequence of Python statements
  and runs on unless something dies.  `WF(ProviderEnds)` of each job: a provider finishes or fails
  what it accepted; if it never does, neither the program nor its documents promise an end.  Nothing
  is assumed of users, webhooks, commands or faults.
- **Supervisor.**  `WF(Supervise)`: the loop of `surface serve` goes on.  `SF(PassTime)`: time passes.
  It is strong because a batch's time limit switches the action off, again and again.  Workers have
  no fairness: they may hang for ever, which the transport's timeout must deal with.

- **Rendering.**  `WF(Validate)` and `WF(Look(w))`: a function that was called runs on, and so does the
  loop of a wait.  Nobody needs to answer.
- **ServeLoop.**  `WF(Serve(p))`: a process goes on until it is stopped or killed.  No property run
  there is a liveness property; the fairness makes the counterexample of `dead_session` one that a
  program that runs on also has.

`GenerationEnds`, `EventsSettle` and `CommandsEnd` rest on these; the safety properties on none.

## Where the code and its documents disagree

Two runs state a sentence of the repository and TLC finds it violated.

1. `conn_turns`: claim_next_event reads the candidates, then each lock, then claims, in separate
   statements.  Two connections can claim two events of one artifact (`docs/SPEC.md:308`
   "same-artifact events MUST serialize").  It takes two processes on one database, which `surface
   serve` with any inbox command beside it is.
2. `dead_session`: when `is_alive` says that an ACP session is dead, start_worker resumes it by its id,
   and `ACPTransport.resume` returns the same session, because only `close` clears `is_active`.  All
   later turns fail (`supervisor.py:381` says that a session that is not alive is replaced).

Known deviations, found by TLC while modelling and left to a comment, a named race or a history
variable, because they repeat a cause or no document decides them:

- *Between connections.*  reclaim_expired_leases resets by id the rows it selected, so that an event
  acked in between comes back (`store.py:582`, `docs/SPEC.md:166`).  created_at is taken before the INSERT
  (`store.py:463`), so that an older event may come in when a later one was handed out.  select_version compares the expected
  selection with a row read before its transaction (`store.py:282`, `docs/SPEC.md:412`).  `Acyclic`,
  `OneVersionPerSource` and `StaleUntilReviewed` fail for the same reason: checks are made outside of the
  transaction.  A lease shorter than a claim takes leaves the artifact without a lock.  All of these
  are steps on a reading that changed.
- *Completions.*  A cancellation after the one check of a completion does not keep the version from
  being selected (`poller.py:222`, `docs/SPEC.md:170`); `CancelInTimeHonoured` says what holds.
  The same is true of job-finish, which looks for a cancellation in one statement and completes the job in
  another (`store.py:851`).
- *Requests.*  The search for the job of a redelivered event asks for one status after the other
  (`worker.py:247`).  A failed job that job-finish turns into a succeeded one between the question for
  "succeeded" and the one for "failed" is missed, and a second one is made (`wavered`).
- *Recovery.*  recover fails every job it listed as stuck, also one that has been completed since
  (`cli.py:1104`).
- *Late acks.*  With `LateAnswers = TRUE` `NoLostNotice` fails: a late ack settles a stale event that
  waits again.
- *Edits.*  Edits A, B and A again, with the first A unsettled, end with B: the dedupe key of an edit is
  its content.
- *Interrupts.*  A second interrupt of a turn whose process is gone takes the mark of the first one
  back (`Signal`), so that an answer in the pipe is acked.  `serve` looks at the flag between turns
  only (`cli.py:855`): what it interrupts is a worker that waits, not what the worker "is currently
  doing" (`cli.py:992`), and the signal may cost the turn after.  A flag written between the test
  and the unlink is lost.
- *Stopping.*  `serve` does not handle SIGTERM: `surface stop` ends it like a crash, without the clean
  shutdown that `stop` waits for (`cli.py:970`).  Two processes in service overwrite and remove each
  other's files, and nothing keeps the second from starting.
- *Transports.*  A resume turn may take 300 s on a lease of 60 s.  An ACP prompt that times out is not
  cancelled, and an ACP answer without "ok" counts as one.  Resume sends `"type": "event"` for every
  event (`resume.py:88`), where the native stream sends the event's type.
- *Generation.*  Two workers may both pass the budget check (`raced`).  The board sends no
  cost_estimate, so that only requests of other programs cost anything, and confirm_above_usd is not
  consulted.  A failed job that `job-finish` completes was not counted (`revived`).  A completion under
  way when a source changes replaces the stale mark by "review" (`poller.py:255`), and one under way when
  the artifact is locked replaces its version.  Under way is also a job on the list of a poll that a command
  has ended since: the poll completes it from its old row, or submits it (`poller.py:96`).  A cancel delivered again after its job is gone
  cancels another older one (`worker.py:484`).  A worker that dies between create_job and set_status
  leaves a job whose artifact never shows "generating" (`worker.py:330`).
- *Interactions.*  A wait that reads while an answer writes gives up with an error, and an answer
  killed there, or two that overlap, leave a file nobody can read (`cli.py:1268`).

## Proofs

Everything in a `...Proofs` module is checked by tlapm from named leaves; nothing is assumed but the
named assumptions about constants, which TLC evaluates on every run.

| Assumption | Says | Why the code justifies it |
|---|---|---|
| `InboxAssumption` | NULLs are no values; the lease is positive; bounds are numbers | column types; lease_seconds is 60 |
| `ConnectionsAssumption` | the same, workers are not boards | column types, roles |
| `GraphAssumption` | as above; `LateAnswers` is a Boolean | the choice is named, not hidden |
| `JobAssumption` | requests have artifacts, the poller is no webhook | types |
| `SupervisorAssumption` | `StartTicks + TurnTicks < LeaseTicks`; `MaxAttempts + MaxFaults <= MaxClaims` | the native transport's timeout is 30 s and a lease 60 s, so sessions have 30 s to start; the second only says that the bound on claims is not what bounds deliveries |
| `EditingAssumption` | the bound is a number; NULL and the empty content are no values of theirs | types |
| `GenerationAssumption` | every artifact has a stage; costs and limits are numbers | config and columns; costs in cents |
| `RenderingAssumption`, `ServeAssumption` | values and bounds are numbers; NULLs are no values | types |

The first part of `SupervisorAssumption` is where the argument could break: slow starts in later
slots use up the leases of earlier ones, and the resume transport's timeout (300 s) exceeds the
lease.  A hazard names both, and `ServeLoop` lets a lease run out during a resume turn.

**SupervisorProofs, the inbox** (`InvariantHolds`).  `InboxInv` is the type invariant, `LocksMatchClaims`,
`OldestFirst`, `OneActivePerKey` and `NumberedInOrder`.  `OneTurnPerArtifact` follows rather than
being a part: two processing events of an artifact would both be the one event of its lock.
`OldestFirst` needs the locks (an older event being handled holds the lock that blocks the claim)
and `NumberedInOrder` (a new event is the newest).  Theorems: `TypesHold`, `LocksAlwaysMatch`,
`SameArtifactSerialized`, `ArtifactOrderKept`, `DedupeHolds`, `SettledStaysSettled`, and
`InboxImplementsQueue`: a `Claim` maps to `HandOut` with the expired events as the returned ones,
`Tick` to a stutter.

**ConnectionsProofs**.  `ConnInv` is what other connections do not break: the types, `LocksOfClaims`
(a lock belongs to an event in processing and ends with that event's lease), `ClaimsHaveLocks` (an event in
processing has its lock unless it was robbed of it), `KnownRows`, `DatesGivenOnce`, and `ReadWell`: of the
pending events that a scan has passed over it found the lock running, and of the one it is about to take it
found none.  The last is why a claim is a `HandOut`: if the lock row is still the one that was found, no
turn holds the artifact (`ClaimsHaveLocks`); an older pending event that was there at the scan was passed
over, for a lock of the same artifact, which the claim's own query would have found too.  The proof uses
the lock query and the order of the scan, and so does not go through without them.
Theorems: `ConnectionTypes`, `LocksLast`, and `ConnectionsImplementQueue`: every statement of any number of
workers and boards maps to a step of `ArtifactQueue` or a stutter, but for a step on a reading that has
changed and for claims that meet a robbed turn.

**GraphProofs** (`GraphInvHolds`).  The lemmas show that reachability by closed sets is reflexive and
transitive, what a new edge adds to it, and that the walk from the direct dependents finds
everything below.  The invariant joins the types, acyclicity, one version per source, existing
selections and the two histories.  Theorems: `GraphTypes`, `GraphStaysAcyclic`,
`VersionsAreIdempotent`, `SelectionsExist`, `StalenessKept`, `NoticesNotLost` (when nobody acks
without the lease) and `VersionsImmutable`.

*Several connections* (`ConnInvHolds`, in the same module).  Acyclicity, staleness and notices do not
survive them, and the invariant does not speak of them.  What does is that rows and versions only grow
(`Grows`), and so what a connection has looked up stays true (`Sound`): its artifact exists, its version
exists, and a number it is about to INSERT is there or is the next one.  The last is why UNIQUE is
enough for `VersionsImmutableForAll`: a number that is not taken is the one at the end
(`InsertAppends`), so that the INSERT leaves no gap and touches no other row.  `ConnectionsImplementGraph`
maps each write to `put_version`, `select_version` or `add_dependency` unless a reading of its connection
has changed, every read and death to a stutter; with `SelectionsExistForAll` it says what is left of
`ArtifactGraph`'s promises when several processes share the file.

**JobProofs** (`JobInvHolds`).  `JobInv` strengthens the four safety properties with what the chains of
steps need: `Serial` (the poller rests during a turn), `SearchMissed` (a search that goes on saw every job of
its request, each time in another status than the one it asked for; as there are five statuses it must have seen it in
two), `CancelSeen` (who is past the check, or past the look of job-finish, works on a
job not cancelled in time), `VersionFirst` (who is past put_version has a version), `LivingJob` (the
job that keeps an artifact generating is not one somebody is about to mark succeeded, as that one
has set the artifact's status before) and `FreshJob` (between a job's INSERT and "generating" nobody
can have completed it).  Theorems: `JobTypes`, `NoSecondJob`, `CancellationFinal`, `ReportsAreTrue`,
`GenerationAlive`, for every number of requests, webhooks and faults.

**SupervisorProofs, the supervisor** (`SupervisorInvHolds`).  `UsesInbox` shows that the supervisor's
specification implements `InboxSpec`, so that every theorem on the inbox holds under a supervisor.  `SupervisorInv` adds `Phases` (which turns a batch has in which phase), `Streams` (a pipe
holds nothing but the turn in flight or its answer: a timed-out session is never used again), `Held`
(turns hold their claims, and `lease + elapsed >= LeaseTicks`, which with the time limit keeps every
lease above zero), `AttemptLeft` (an event nobody holds and nobody settled has an attempt left) and
`HitsMarked` (a turn that was hit is marked until it ends).  Theorems: `SupervisorTypes`,
`AckOnlyWhenDone`, `WorkUnderLease`, `DeliveryBounded`, `StandingInterruptNotOk` (a turn whose last interrupt stands is not ok; a second
interrupt may take the mark back, see above), and
`PoolImplementsTransport`: a slot that claims an event gives it, an answer, a closed pipe or a timeout
finishes it (`Streams` has it that ok is said of durable effects), a crash leaves all turns at once.

**EditingProofs** (`EditingInvAlways`).  `EditingInv` joins the four properties that are checked with what
connects them: a turn holds a processing event of its artifact and is at a step of that event's
handler (`TurnMatches`); what is handed out has nothing older before it (`OldestFirst`), so that a
version was never made for an event newer than one still in the inbox (`VersionsMade`); what is
selected was made for an event at least as new as any acked change since the last selection by hand
(`AckedShown`, and `DoneShown` between the last transaction and the ack); and a revision with an edit
before it, and acked revisions only in between, has the edit's text (`KeptText`, and `BasisKept` while
it is in the worker's hands).  `LastEditShows` is no part of it but follows (`ShowsLastEdit`): what is
selected is the edit's version or a later revision's.  The five actions of the inbox and the
supervisor are shown to be `QueueStep`s and treated once, so are the handlers' (`HandlerStep`).
Theorems: `EditingTypes`, `OrderedVersions`, `LastEditIsShown`, `ApprovalIsKept`, for any number of
artifacts, contents, events and deliveries.

**GenerationProofs** (`GenerationInvHolds`).  The invariant joins the types with `Shapes` (what turns and the
task are) and `Blank` (what unused rows look like), `TurnMatches` (a turn is at a step of its event's handler), `OldestFirst` (what is
handled or has a job has nothing older that is unsettled), `CancelsOlderOnly`, `AckedHasEffect`,
`SealedRests` (no turn or job of a locked artifact can still change it) and `MarkedRests` (a marked
artifact is at rest and stale, and only cancel events of it are open; at rest includes that no poll has a
job of it on its list).  The steps are grouped
(`PollStep`, `BoardStep`, `QueueStep`, `Submit`, `HandlerStep`), each group with its lemma.  Theorems:
`GenerationTypes`, `LocksStand`, `StaleMarksStand`, `CancelsHitOlderJobs`, `AckedWorkIsDone`.

*The budget* (`BudgetHolds`, same module).  `BudgetKept` alone is not inductive: a worker between its
check and its INSERT must still have room.  `RoomFor` says so of each that was not overtaken; it
survives the INSERT of another because that INSERT counts all who are past the check among the `raced`,
and every other step because it charges no job that was not charged before (`QuietStep`: a job that
ended without cost and succeeds after all is `revived`).
Sums are folds, and the library's induction theorems cannot be instantiated; the section "Sums" gets the
facts it needs from smallest counterexamples instead: there is a function that sums up whichever term is
taken off first (`SumExists`), the fold computes it (`SumIsFold`), and larger sets and terms make no
smaller sum (`SumMonotonic`).

**RenderingProofs** (`StageInvAlways`, `FileInvAlways`).  `StageInv` says what the colours mean: `Done`, the
stages the search has left, is closed under dependencies and orderable (`DoneIsClosed`,
`Orderable(Done)`); the path holds the stages being visited, each of which depends on the next
(`PathIsCalls`, `PathIsChain`), and what they have followed is left or next (`Followed`).  A stage that is left adds one to an orderable closed set, which stays orderable
(`OrderableGrows`): this is why skipping left stages hides no cycle.  Orderability is stated by sets
(every non-empty part has a stage to begin with), so that no induction over dfs is needed.
Theorems: `StageTypes`, `AcceptedHasNoCycle`, `ReportedCycleExists`, and `AcceptedCompletes` (with all stages
approved an accepted project is complete).

*The interaction file* (`FileInvAlways`, same module).  `AnswerStays` (what was acknowledged is never
missing or pending again, and only a wait that began since is due an answer) and `WritesAlone` (unless
answers clashed, who writes does so alone and over the emptied file) make `AnswersAreSeen` (a wait
that begins after an acknowledged answer does not end pending; it may end in an error) and `OnlyClashesSpoil` inductive, for any number of waits and answers and any bound of rounds.

**ServeProofs** (`ServeInvHolds`).  For any number of processes, also at once, and for each transport.
`ServeInv` adds to the types and the checked properties: `NoSessionOutside` (a process out of its loop has
no session, signal or worker but a given up ACP agent), which is what a clean end rests on;
`AnswersTheTurn` (an answer is to the turn that is waited for, and ok is said of durable effects only),
which `WorkIsWaitedFor` and the transports' refinement need; `FilesNotItsOwn` (files not yet written, or
removed, do not name the process), needed for `CleanEnd`, as another process may write them at any time;
`FlagWasAsked` and `SignalWasMade` (a flag that a session will see, and a signal on its way, are
interrupts that were made and have cost nothing), without which the counters of `InterruptFiresOnce` could
go below zero; `AloneRuns` and `StopFinds` (before stop reads the pids they name the process that runs
alone, afterwards stop has found it), the chain behind `StopStops`.  Theorems: `ServeTypes`, `StopEndsTheLoop`,
`EndIsClean`, `InterruptsFireOnce`, `NobodyWorksOn`, and `TransportImplemented`: each step of the native
stream, resume and ACP transports maps to a step of `WorkerTransport` or a stutter.

**Model-checked only.**  The liveness properties `EventsSettle`, `GenerationEnds` and `CommandsEnd`
(TLAPS 1.4.5 has no support for ENABLED).  Every safety property of the passing runs is a theorem.  The two
runs that expect a violation show counterexamples, which are no matter for a proof.

## Abstractions and what is not modelled

- Columns no guard reads: titles, params, hashes, paths, replies, costs, progress, claimed_by,
  timestamps other than leases, errors.  created_at is the event's number: two events created
  within the same microsecond are out of scope.
- `Inbox`, `ArtifactGraph`: methods are atomic, as for the threads of one `Store`.
- `JobPoller`: put_version is one step; job_done and job_failed
  events are `announced` or left out, as no handler changes state for them; locks and the budget check
  are part of the refusal in `CreateJob`, and are in `Generation`.  What a poll reads of a job besides its
  cancellation is read at its turn: nobody else stores a provider's id.
- `Supervisor`: a worker's effects are one step (their statements are in `JobPoller` and
  `GraphConnections`); a recycling counter is a choice between batches; a worker process that
  outlives its supervisor is left out (a hazard says what it could do); an interrupt of an idle
  session is a process that dies; store calls that fail while an event is acked are left out; the
  transport is the native stream.
- `Editing`: texts, which depend on no other artifact; no locks and stages that refuse actions, which
  only turn requests away; a selection by hand without the version the user saw (`graph_seen` has it);
  select_version and approve events, which the board does not send.
- `StageConfig`: the order in which lists are walked and errors are found is left open; fields that
  are checked on their own are one flag per stage.
- `Generation`: what a handler reads before the INSERT (lock, existing job, costs) is one step, the five
  questions of the search included, which `JobPoller` has one by one.  Webhooks, which no command calls yet,
  and job-cancel are in `JobPoller`.  One changing source stands above all artifacts
  (`ArtifactGraph` has graphs).  Versions are left out, and so are stages that refuse actions.
- `Transports`: what a worker answers is true; the three transports are not mixed; a worker that
  outlives its supervisor is left out, it would only make more effects durable.
- `ServeLoop`: a pool of one; the poll of each iteration is in `JobPoller`; each group of files is
  written and removed at once; recycled pids, `--keep-runtime-files` and a process that does not die
  of SIGTERM are left out.
- `Rendering`: values are their lengths; elapsed time is a number of sleeps.
- Not modelled: the mock providers (environment); the board's server and its tokens, the terminal and
  browser rendering, notifications and the diff (they read the store or the board's model, format it,
  and change no state that this development is about); examples.

## Plan

1. *Done*: the modules above, their runs, and a theorem for every safety property they check.
2. What of `Editing` and `Generation` survives the races that `InboxConnections` and
   `GraphConnections` name.
3. `Generation` with webhooks and job-cancel, and the handler's reads one by one.
4. Liveness of `ServeLoop`: a process that is told to stop ends, under the fairness of the worker's
   timeout.

Related runs on one module are merged into one configuration wherever their bounds agree, so that
each run remains one question.
