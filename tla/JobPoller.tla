------------------------------ MODULE JobPoller ------------------------------
(***************************************************************************)
(* Generation jobs: the job table of surface/store.py, the worker's        *)
(* regenerate handler that fills it (worker.py), the poller of "surface    *)
(* serve" (poller.py, cli.py) and the provider webhooks (webhook.py) that  *)
(* complete jobs, and the commands that change a job from outside.         *)
(*                                                                         *)
(* One step is one statement on the database or one call of a provider: a  *)
(* search or a completion is a chain of them with nothing around it, so    *)
(* that commands, webhooks and crashes come in between.  put_version is    *)
(* one step and a version is identified with the job it was made for:      *)
(* ArtifactGraph shows that there is at most one.                          *)
(*                                                                         *)
(* "surface serve" alternates: it dispatches an event, waits for the       *)
(* worker's turn to end, and polls.                                        *)
(***************************************************************************)
EXTENDS Integers, Sequences, FiniteSets

CONSTANTS Artifacts,
          Requests,      \* regenerate events in the inbox
          ArtifactOf,    \* the artifact of each
          Unknown,       \* requests whose provider is not configured
          Poller, Hooks, \* the poll loop, webhook deliveries in progress
          NoJob, NoRequest,
          MaxJobs,       \* bound: jobs made for one request
          Faults,        \* the kinds of fault that may happen, see FaultKinds
          MaxFaults,     \* bound: faults that happen
          MaxByHand      \* bound: jobs finished with "surface store job-finish"

FaultKinds == {"crash", "error", "withdrawn", "recover"}
Jobs == Requests \X (1..MaxJobs)
Completers == {Poller} \cup Hooks

ASSUME JobAssumption == /\ ArtifactOf \in [Requests -> Artifacts]
                        /\ Poller \notin Hooks
                        /\ NoJob \notin Jobs /\ NoRequest \notin Requests
                        /\ MaxJobs \in Nat /\ MaxFaults \in Nat /\ MaxByHand \in Nat
                        /\ Faults \subseteq FaultKinds /\ Unknown \subseteq Requests

VARIABLES status,     \* jobs.status, "none" before the INSERT
          cancel,     \* jobs with cancel_requested
          provider,   \* what the provider would answer, "none" without provider_job_id
          made,       \* jobs with a version, selected when it was made
          announced,  \* jobs with a job_done event
          state,      \* artifacts.status
          task,       \* task[c]: the next step of completer c and its job
          batch,      \* the jobs of this poll still to be looked at
          seen,       \* those of them listed with cancel_requested
          turn,       \* the request the worker is handling and its next step
          commands,   \* commands that have read a job and not written it yet
          settled,    \* requests acked or failed for good
          faults,     \* faults so far
          inTime,     \* history: jobs cancelled before anybody looked to complete them
          byHand,     \* history: jobs finished with "surface store job-finish"
          orphaned,   \* history: artifacts a fault left without their status update
          wavered     \* history: requests whose search saw a job in two statuses

jobVars == <<status, cancel, provider, made, announced>>
pollVars == <<task, batch, seen>>
history == <<inTime, byHand, orphaned, wavered>>
vars == <<jobVars, state, pollVars, turn, commands, settled, faults, history>>

Working  == {"queued", "running"}
Terminal == {"succeeded", "failed", "cancelled"}
ArtifactStates == {"draft", "generating", "review", "approved", "failed", "cancelled"}
Art(j) == ArtifactOf[j[1]]

Idle    == [step |-> "idle", job |-> NoJob]
Listing == [step |-> "list", job |-> NoJob]

\* asked: the statuses the search has asked for; saw: bookkeeping, the jobs of the
\* request with the statuses they had when it asked.
NoTurn == [step |-> "idle", request |-> NoRequest, asked |-> 0, saw |-> {}]

Init ==
  /\ status = [j \in Jobs |-> "none"]
  /\ cancel = {} /\ made = {} /\ announced = {}
  /\ provider = [j \in Jobs |-> "none"]
  /\ state = [a \in Artifacts |-> "draft"]
  /\ task = [c \in Completers |-> Idle]
  /\ batch = {} /\ seen = {}
  /\ turn = NoTurn /\ commands = {} /\ settled = {}
  /\ faults = 0
  /\ inTime = {} /\ byHand = {} /\ orphaned = {} /\ wavered = {}

Active(j) == status[j] \in Working
At(c, step) == task[c].step = step
On(c) == task[c].job

\* Completer c is next at a step of job j; it goes from one step of its job to
\* another.
StartTask(c, step, j) ==
  task' = [task EXCEPT ![c] = IF step = "idle" THEN Idle ELSE [step |-> step, job |-> j]]
Goes(c, from, to) ==
  /\ At(c, from)
  /\ StartTask(c, to, On(c))
  /\ UNCHANGED <<batch, seen>>

Fault(kind) == /\ kind \in Faults /\ faults < MaxFaults
               /\ faults' = faults + 1
-----------------------------------------------------------------------------
\* Broken variants of the definitions below, for the mutation checks: a
\* completion that looks for a cancelled status only, a search among unfinished
\* jobs only, a job marked succeeded before its version is made, a failure that
\* leaves the artifact alone.
StatusCancelled(j) == status[j] = "cancelled"
UnfinishedOnly == <<"queued", "running">>
SucceededFirst == [check |-> "succeed", succeed |-> "put", put |-> "review", review |-> "announce"]
LeftAlone(a, s) == IF s = "failed" THEN state ELSE [state EXCEPT ![a] = s]

(* The worker's turn on a regenerate event. *)

\* _find_job_for_event asks for the jobs of one status after the other.
JobStatuses == <<"queued", "running", "succeeded", "failed", "cancelled">>
JobsOf(r) == {j \in Jobs : j[1] = r /\ status[j] # "none"}

\* The supervisor hands the event to the worker; nothing is polled meanwhile.
AtRest == task[Poller] = Idle /\ batch = {}
BeginTurn(r) ==
  /\ turn = NoTurn /\ AtRest /\ r \notin settled
  /\ turn' = [step |-> "search", request |-> r, asked |-> 0, saw |-> {}]
  /\ UNCHANGED <<jobVars, state, pollVars, commands, settled, faults, history>>

TurnGoes(step) == turn' = [NoTurn EXCEPT !.step = step, !.request = turn.request]

\* One of its SELECTs: a redelivered event finds the job made before.
AskForJob ==
  /\ turn.step = "search"
  /\ IF \E j \in JobsOf(turn.request) : status[j] = JobStatuses[turn.asked + 1]
       THEN TurnGoes("settle")
       ELSE turn' = [turn EXCEPT
              !.step = IF turn.asked + 1 < Len(JobStatuses) THEN "search" ELSE "create",
              !.asked = turn.asked + 1,
              !.saw = turn.saw \cup {<<j, status[j]>> : j \in JobsOf(turn.request)}]
  /\ UNCHANGED <<jobVars, state, pollVars, commands, settled, faults, history>>

\* The search saw a job in two statuses.
Wavered == \E p, q \in turn.saw : p[1] = q[1] /\ p[2] # q[2]

\* The INSERT of the job, unless the artifact is locked or the budget exhausted.
CreateJob ==
  /\ turn.step = "create"
  /\ \/ /\ \E n \in 1..MaxJobs :
             /\ status[<<turn.request, n>>] = "none"
             /\ \A k \in 1..(n - 1) : status[<<turn.request, k>>] # "none"
             /\ status' = [status EXCEPT ![<<turn.request, n>>] = "queued"]
        /\ wavered' = IF Wavered THEN wavered \cup {turn.request} ELSE wavered
        /\ TurnGoes("generating")
     \/ /\ TurnGoes("settle")
        /\ UNCHANGED <<status, wavered>>
  /\ UNCHANGED <<cancel, provider, made, announced, state, pollVars, commands, settled, faults,
                 inTime, byHand, orphaned>>

SetGenerating ==
  /\ turn.step = "generating"
  /\ state' = [state EXCEPT ![ArtifactOf[turn.request]] = "generating"]
  /\ TurnGoes("settle")
  /\ UNCHANGED <<jobVars, pollVars, commands, settled, faults, history>>

\* The supervisor acks the event, or fails it after its last attempt.
Settle ==
  /\ turn.step = "settle"
  /\ settled' = settled \cup {turn.request}
  /\ turn' = NoTurn
  /\ UNCHANGED <<jobVars, state, pollVars, commands, faults, history>>

\* The turn times out or the worker dies: the event will be delivered again.
WorkerDies ==
  /\ turn # NoTurn
  /\ Fault("crash")
  /\ turn' = NoTurn
  /\ UNCHANGED <<jobVars, state, pollVars, commands, settled, history>>
-----------------------------------------------------------------------------
(* poll_once *)

\* A poll first lists the queued jobs, then the running ones, and keeps the rows.
Listed(st) == {j \in Jobs : status[j] = st}

\* A poll that would find nothing is left out.
ListQueued ==
  /\ turn = NoTurn /\ AtRest
  /\ \E j \in Jobs : Active(j)
  /\ batch' = Listed("queued") /\ seen' = Listed("queued") \cap cancel
  /\ task' = [task EXCEPT ![Poller] = Listing]
  /\ UNCHANGED <<jobVars, state, turn, commands, settled, faults, history>>

ListRunning ==
  /\ task[Poller] = Listing
  /\ batch' = batch \cup Listed("running")
  /\ seen' = seen \cup (Listed("running") \cap cancel)
  /\ task' = [task EXCEPT ![Poller] = Idle]
  /\ UNCHANGED <<jobVars, state, turn, commands, settled, faults, history>>

\* What a status a provider reported leads to.
Reported(j) == CASE provider[j] = "succeeded" -> "check"
                 [] provider[j] = "failed"    -> "fail"
                 [] provider[j] = "cancelled" -> "withdraw"
                 [] OTHER                     -> "idle"

\* The loop body for job j: what it decides on is the row as it was listed.
\* A provider that is told to cancel may be done already.
Decision(j) == CASE j[1] \in Unknown      -> "fail"
                 [] j \in seen            -> "cancel"
                 [] provider[j] = "none"  -> "submit"
                 [] OTHER                 -> Reported(j)

PollJob(j) ==
  /\ j \in batch /\ task[Poller] = Idle
  /\ batch' = batch \ {j}
  /\ \/ /\ StartTask(Poller, Decision(j), j)
        /\ provider' = IF Decision(j) = "cancel" /\ provider[j] = "working"
                         THEN [provider EXCEPT ![j] = "cancelled"] ELSE provider
        /\ UNCHANGED faults
     \/ /\ Decision(j) \notin {"cancel", "submit", "fail"}
        /\ Fault("error")   \* provider.status raises
        /\ StartTask(Poller, "fail", j)
        /\ UNCHANGED provider
  /\ UNCHANGED <<status, cancel, made, announced, state, seen, turn, commands, settled, history>>

\* The provider is called.  Nobody can ask for the job it starts until its id is
\* stored, so that is where provider begins to speak of it; after a crash in between
\* the job is submitted again.
Submit(c) ==
  /\ Goes(c, "submit", "store")
  /\ UNCHANGED <<jobVars, state, turn, commands, settled, faults, history>>

\* The id it returned is stored.
StoreId(c) ==
  /\ Goes(c, "store", "idle")
  /\ status' = [status EXCEPT ![On(c)] = "running"]
  /\ provider' = [provider EXCEPT ![On(c)] = "working"]
  /\ UNCHANGED <<cancel, made, announced, state, turn, commands, settled, faults, history>>

(* handle_webhook_payload: a job still in flight, not cancelled when looked up. *)
Deliver(h) ==
  /\ task[h] = Idle
  /\ \E j \in Jobs \ cancel :
       /\ Active(j)
       /\ provider[j] \in Terminal
       /\ StartTask(h, Reported(j), j)
  /\ UNCHANGED <<jobVars, state, batch, seen, turn, commands, settled, faults, history>>
-----------------------------------------------------------------------------
(* apply_status, one statement after another *)

\* The order of _handle_job_success.
AfterStep == [check |-> "put", put |-> "review", review |-> "succeed", succeed |-> "announce"]

\* Was the job cancelled?
CancelFound(j) == j \in cancel \/ status[j] = "cancelled"

\* artifacts after set_status.
WithStatus(a, s) == [state EXCEPT ![a] = s]

Check(c) ==
  /\ Goes(c, "check", IF CancelFound(On(c)) THEN "idle" ELSE AfterStep.check)
  /\ UNCHANGED <<jobVars, state, turn, commands, settled, faults, history>>

\* collect, and put_version with the job as source event.
PutVersion(c) ==
  /\ Goes(c, "put", AfterStep.put)
  /\ made' = made \cup {On(c)}
  /\ UNCHANGED <<status, cancel, provider, announced, state, turn, commands, settled, faults, history>>

SetReview(c) ==
  /\ Goes(c, "review", AfterStep.review)
  /\ state' = WithStatus(Art(On(c)), "review")
  /\ UNCHANGED <<jobVars, turn, commands, settled, faults, history>>

Succeed(c) ==
  /\ Goes(c, "succeed", AfterStep.succeed)
  /\ status' = [status EXCEPT ![On(c)] = "succeeded"]
  /\ UNCHANGED <<cancel, provider, made, announced, state, turn, commands, settled, faults, history>>

Announce(c) ==
  /\ Goes(c, "announce", "idle")
  /\ announced' = announced \cup {On(c)}
  /\ UNCHANGED <<status, cancel, provider, made, state, turn, commands, settled, faults, history>>

\* _handle_job_failure; its job_failed event is left out.
FailJob(c) ==
  /\ Goes(c, "fail", "failed")
  /\ status' = [status EXCEPT ![On(c)] = "failed"]
  /\ UNCHANGED <<cancel, provider, made, announced, state, turn, commands, settled, faults, history>>

SetFailed(c) ==
  /\ Goes(c, "failed", "idle")
  /\ state' = WithStatus(Art(On(c)), "failed")
  /\ UNCHANGED <<jobVars, turn, commands, settled, faults, history>>

\* A cancellation the poller saw.
CancelJob(c) ==
  /\ Goes(c, "cancel", "cancelled")
  /\ status' = [status EXCEPT ![On(c)] = "cancelled"]
  /\ UNCHANGED <<cancel, provider, made, announced, state, turn, commands, settled, faults, history>>

SetCancelled(c) ==
  /\ Goes(c, "cancelled", "idle")
  /\ state' = WithStatus(Art(On(c)), "cancelled")
  /\ UNCHANGED <<jobVars, turn, commands, settled, faults, history>>

\* A cancellation the provider reports: the job only.
Withdraw(c) ==
  /\ Goes(c, "withdraw", "idle")
  /\ status' = [status EXCEPT ![On(c)] = "cancelled"]
  /\ orphaned' = orphaned \cup {Art(On(c))}
  /\ UNCHANGED <<cancel, provider, made, announced, state, turn, commands, settled, faults, inTime, byHand, wavered>>
-----------------------------------------------------------------------------
(* Faults and the other actors *)

\* Completers between the terminal status of their job and its artifact's.
StatusPending(c) == task[c].step \in {"failed", "cancelled"}
Unfinished == {Art(On(c)) : c \in {d \in Completers : StatusPending(d)}}

\* A call of the provider or the database raises.  The success path goes on to
\* the failure path, the failure path gives up.
ErrorStep == [submit |-> "fail", store |-> "fail", put |-> "fail", review |-> "fail", succeed |-> "fail",
              announce |-> "fail", check |-> "fail", withdraw |-> "fail", fail |-> "idle", failed |-> "idle"]
Raise(c) ==
  /\ task[c].step \in DOMAIN ErrorStep
  /\ Fault("error")
  /\ Goes(c, task[c].step, ErrorStep[task[c].step])
  /\ orphaned' = IF At(c, "failed") THEN orphaned \cup {Art(On(c))} ELSE orphaned
  /\ UNCHANGED <<jobVars, state, turn, commands, settled, inTime, byHand, wavered>>

\* "surface serve" dies, with its worker and its webhook handlers; also what
\* an exception outside the two paths comes to.
Crash ==
  /\ Fault("crash")
  /\ task' = [c \in Completers |-> Idle]
  /\ batch' = {} /\ seen' = {}
  /\ turn' = NoTurn
  /\ orphaned' = orphaned \cup Unfinished
  /\ UNCHANGED <<jobVars, state, commands, settled, inTime, byHand, wavered>>

\* The provider ends a job.
ProviderEnds(j, outcome) ==
  /\ provider[j] = "working"
  /\ \/ outcome \in {"succeeded", "failed"} /\ UNCHANGED faults
     \/ outcome = "cancelled" /\ Fault("withdrawn")
  /\ provider' = [provider EXCEPT ![j] = outcome]
  /\ UNCHANGED <<status, cancel, made, announced, state, pollVars, turn, commands, settled, history>>

\* Completers that have looked for a cancellation of j and go on.
Completing(j) == \E c \in Completers :
                   On(c) = j /\ task[c].step \in {"put", "review", "succeed", "announce"}

\* cancel_job: a cancel event, or "surface store job-cancel".
Looked(j) == Completing(j) \/ <<"finish", j>> \in commands \/ j \in made \cup byHand
cancel_job(j) ==
  /\ status[j] # "none" /\ j \notin cancel
  /\ cancel' = cancel \cup {j}
  /\ inTime' = IF Looked(j) THEN inTime ELSE inTime \cup {j}
  /\ UNCHANGED <<status, provider, made, announced, state, pollVars, turn, commands, settled, faults,
                 byHand, orphaned, wavered>>

\* finish_job, "surface store job-finish": the SELECT and its check, then the UPDATE.
FinishedWith(j) == byHand \cup {i \in Jobs : <<"finish", i>> \in commands} \cup {j}
LookToFinish(j) ==
  /\ Cardinality(FinishedWith(j)) <= MaxByHand
  /\ status[j] \notin {"none", "cancelled"} /\ j \notin cancel
  /\ commands' = commands \cup {<<"finish", j>>}
  /\ UNCHANGED <<jobVars, state, pollVars, turn, settled, faults, history>>

finish_job(j) ==
  /\ <<"finish", j>> \in commands
  /\ commands' = commands \ {<<"finish", j>>}
  /\ status' = [status EXCEPT ![j] = "succeeded"]
  /\ byHand' = byHand \cup {j}
  /\ orphaned' = orphaned \cup {Art(j)}
  /\ UNCHANGED <<cancel, provider, made, announced, state, pollVars, turn, settled, faults, inTime, wavered>>

\* "surface recover --force-reclaim" takes a job for stuck, and fails it.
LookForStuck(j) ==
  /\ Active(j)
  /\ Fault("recover")
  /\ commands' = commands \cup {<<"reclaim", j>>}
  /\ UNCHANGED <<jobVars, state, pollVars, turn, settled, history>>

ForceReclaim(j) ==
  /\ <<"reclaim", j>> \in commands
  /\ commands' = commands \ {<<"reclaim", j>>}
  /\ status' = [status EXCEPT ![j] = "failed"]
  /\ orphaned' = orphaned \cup {Art(j)}
  /\ UNCHANGED <<cancel, provider, made, announced, state, pollVars, turn, settled, faults, inTime, byHand, wavered>>

\* A user approves or reopens the artifact on the board.
UserSetsStatus(a, s) ==
  /\ \/ s = "approved" /\ state[a] \notin {"approved", "failed", "cancelled"}
     \/ s = "draft"
  /\ state' = WithStatus(a, s)
  /\ UNCHANGED <<jobVars, pollVars, turn, commands, settled, faults, history>>

Turn == (\E r \in Requests : BeginTurn(r)) \/ AskForJob \/ CreateJob \/ SetGenerating \/ Settle
Poll == ListQueued \/ ListRunning \/ \E j \in Jobs : PollJob(j)
Complete(c) ==
  \/ Submit(c) \/ StoreId(c) \/ Check(c) \/ PutVersion(c) \/ SetReview(c) \/ Succeed(c) \/ Announce(c)
  \/ FailJob(c) \/ SetFailed(c) \/ CancelJob(c) \/ SetCancelled(c) \/ Withdraw(c)
Outside ==
  \/ \E h \in Hooks : Deliver(h)
  \/ \E j \in Jobs, outcome \in Terminal : ProviderEnds(j, outcome)
  \/ \E j \in Jobs : cancel_job(j)
  \/ \E j \in Jobs : LookToFinish(j)
  \/ \E j \in Jobs : finish_job(j)
  \/ \E a \in Artifacts, s \in {"approved", "draft"} : UserSetsStatus(a, s)
Failures == WorkerDies \/ Crash \/ (\E c \in Completers : Raise(c)) \/ \E j \in Jobs : LookForStuck(j) \/ ForceReclaim(j)

Next == Turn \/ Poll \/ (\E c \in Completers : Complete(c)) \/ Outside \/ Failures

\* Each iteration of serve ends its turn and polls; a webhook handler that was
\* started runs on; a provider ends its jobs.
Fairness == /\ WF_vars(Turn) /\ WF_vars(Poll)
            /\ \A c \in Completers : WF_vars(Complete(c))
            /\ \A j \in Jobs : WF_vars(\E outcome \in Terminal : ProviderEnds(j, outcome))

Spec == Init /\ [][Next]_vars /\ Fairness
-----------------------------------------------------------------------------
\* Jobs, artifacts, completers and turns are in one of their states, and only
\* jobs that exist are worked on.
StepNames == {"idle", "submit", "store", "check", "put", "review", "succeed", "announce",
              "fail", "failed", "cancel", "cancelled", "withdraw"}
JobTypeOK ==
  /\ status \in [Jobs -> {"none"} \cup Working \cup Terminal]
  /\ provider \in [Jobs -> {"none", "working"} \cup Terminal]
  /\ \A j \in Jobs : status[j] = "none" => provider[j] = "none"
  /\ cancel \cup made \cup announced \cup batch \cup seen \cup inTime \cup byHand
       \subseteq {j \in Jobs : status[j] # "none"}
  /\ state \in [Artifacts -> ArtifactStates]
  /\ task \in [Completers -> [step : StepNames \ {"idle"}, job : Jobs] \cup {Idle, Listing}]
  /\ \A c \in Completers : task[c] \notin {Idle, Listing} => status[On(c)] # "none"
  /\ turn \in [step : {"search", "create", "generating", "settle"}, request : Requests,
               asked : 0..Len(JobStatuses), saw : SUBSET (Jobs \X (Working \cup Terminal))] \cup {NoTurn}
  /\ turn.step = "search" => turn.asked < Len(JobStatuses)
  /\ commands \subseteq {"finish", "reclaim"} \X {j \in Jobs : status[j] # "none"}
  /\ wavered \subseteq Requests
  /\ settled \subseteq Requests /\ orphaned \subseteq Artifacts
  /\ faults \in 0..MaxFaults

\* A redelivered regenerate event starts no second (paid) generation, also when
\* the first one has ended, failed or was cancelled before the redelivery.  The
\* one exception: while the search asked for one status after the other, the job
\* went back to one it had asked for, as a failed job finished by hand does.
OneJobPerRequest ==
  \A r \in Requests \ wavered : \A i, j \in JobsOf(r) : i = j

\* Once a cancellation is requested before any completion and any job-finish
\* command has looked for one, no poll, webhook, command, retry or restart makes a
\* version of the job or ends it as succeeded, whatever it had listed and whatever
\* the provider answers.  One that comes between a look and what follows it is not
\* honoured.
CancelInTimeHonoured ==
  \A j \in inTime : j \notin made /\ status[j] # "succeeded"

\* What is reported as succeeded or announced with a job_done event is there:
\* its version was made before, also when the completion was cut short and
\* repeated, or overtaken by another one.
ReportedIsMade ==
  /\ announced \subseteq made
  /\ \A j \in Jobs \ byHand : status[j] = "succeeded" => j \in made

\* An artifact shows "generating" without an unfinished job only while the
\* completer of its job is about to set its status, or after a fault or a
\* command that ended the job and not the artifact.
GeneratingIsAlive ==
  \A a \in Artifacts \ (orphaned \cup Unfinished) :
     state[a] = "generating" => \E j \in Jobs : Art(j) = a /\ Active(j)

\* An artifact does not show "generating" for ever, with cancellations, webhooks,
\* failures, crashes and restarts in between (unless one of the faults above
\* left it so).
GenerationEnds ==
  \A a \in Artifacts : state[a] = "generating" ~> (state[a] # "generating" \/ a \in orphaned)
=============================================================================
