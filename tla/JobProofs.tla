------------------------------ MODULE JobProofs ------------------------------
(***************************************************************************)
(* Proofs about JobPoller, for every number of requests, artifacts and     *)
(* webhooks and every choice of faults: no duplicate job unless the job    *)
(* moved during the search, a cancellation in time is final, reports are   *)
(* true, and "generating" means that a job is alive or that a named fault  *)
(* left the artifact behind.                                               *)
(***************************************************************************)
EXTENDS JobPoller, TLAPS

Tasks == [step : StepNames \ {"idle"}, job : Jobs] \cup {Idle, Listing}
Turns == [step : {"search", "create", "generating", "settle"}, request : Requests,
          asked : 0..Len(JobStatuses), saw : SUBSET (Jobs \X (Working \cup Terminal))] \cup {NoTurn}

\* A search that did not find a job of its request saw it in another status at each
\* of its questions.
SearchMissed ==
  /\ turn.step = "create" => turn.asked = 5
  /\ turn.step \in {"search", "create"} =>
       \A j \in JobsOf(turn.request), i \in 1..turn.asked :
         \E s \in Working \cup Terminal : <<j, s>> \in turn.saw /\ s # JobStatuses[i]

\* The poller rests during a turn.
Serial == turn # NoTurn => AtRest

\* Who has looked for a cancellation works on a job not cancelled before.
CancelSeen ==
  /\ inTime \subseteq cancel
  /\ \A j \in inTime : <<"finish", j>> \notin commands
  /\ \A c \in Completers : task[c].step \in {"put", "review", "succeed", "announce"}
                             => On(c) \notin inTime
  /\ CancelInTimeHonoured

\* Who is past put_version works on a job with a version.
VersionFirst ==
  /\ \A c \in Completers : task[c].step \in {"review", "succeed", "announce"} => On(c) \in made
  /\ ReportedIsMade

\* A generating artifact has an active job that nobody is about to mark
\* succeeded: who is has set the artifact's status already.
Untouched(j) == \A c \in Completers : ~(On(c) = j /\ At(c, "succeed"))
LivingJob ==
  \A a \in Artifacts \ (orphaned \cup Unfinished) :
     state[a] = "generating" => \E j \in Jobs : Art(j) = a /\ Active(j) /\ Untouched(j)

\* Between the INSERT of a job and its artifact's "generating" nobody can have
\* completed it: the poller rests and the provider does not know it.
Fresh(j) == /\ Active(j) /\ provider[j] = "none"
            /\ \A c \in Completers : On(c) # j
FreshJob ==
  turn.step = "generating" =>
    \/ ArtifactOf[turn.request] \in orphaned
    \/ \E j \in Jobs : j[1] = turn.request /\ Fresh(j)

JobInv == /\ JobTypeOK /\ OneJobPerRequest /\ SearchMissed /\ Serial /\ CancelSeen
          /\ VersionFirst /\ LivingJob /\ FreshJob
-----------------------------------------------------------------------------
(* What the steps of a completer do to the tasks. *)

\* A completer that goes on was at work on a job, and only it moves.
LEMMA GoesFacts ==
  ASSUME JobTypeOK, NEW c \in Completers,
         NEW from \in StepNames \ {"idle"}, NEW to \in StepNames, Goes(c, from, to)
  PROVE  /\ On(c) \in Jobs /\ status[On(c)] # "none" /\ Art(On(c)) \in Artifacts
         /\ task[c] = [step |-> from, job |-> On(c)]
         /\ task' \in [Completers -> Tasks]
         /\ task'[c] = IF to = "idle" THEN Idle ELSE [step |-> to, job |-> On(c)]
         /\ \A d \in Completers \ {c} : task'[d] = task[d]
         /\ batch' = batch /\ seen' = seen
  <1>1. task \in [Completers -> Tasks]
    BY DEF JobTypeOK, Tasks
  <1>2. task[c] \in Tasks /\ task[c] # Idle /\ task[c].step = from
    BY <1>1 DEF Goes, At, Idle, Listing, StepNames
  <1>0. task[c] \notin {Idle, Listing}
    BY <1>2 DEF Idle, Listing, StepNames
  <1>3. task[c] = [step |-> from, job |-> On(c)] /\ On(c) \in Jobs
    BY <1>0, <1>2 DEF Tasks, On
  <1>4. status[On(c)] # "none"
    BY <1>0, <1>2 DEF JobTypeOK
  <1>5. Art(On(c)) \in Artifacts
    BY <1>3, JobAssumption DEF Art, Jobs
  <1>6. task' = [task EXCEPT ![c] = IF to = "idle" THEN Idle ELSE [step |-> to, job |-> On(c)]]
    BY DEF Goes, StartTask
  <1>7. (IF to = "idle" THEN Idle ELSE [step |-> to, job |-> On(c)]) \in Tasks
    BY <1>3 DEF Tasks
  <1> QED BY <1>1, <1>3, <1>4, <1>5, <1>6, <1>7 DEF Goes

\* Every action of Complete and Raise is such a move.
LEMMA CompleteMoves ==
  ASSUME JobTypeOK, NEW c \in Completers, Complete(c) \/ Raise(c)
  PROVE  \E from \in StepNames \ {"idle"}, to \in StepNames : Goes(c, from, to)
  <1>1. CASE Complete(c)
    BY <1>1 DEF Complete, Submit, StoreId, Check, PutVersion, SetReview, Succeed, Announce,
       FailJob, SetFailed, CancelJob, SetCancelled, Withdraw, AfterStep, StepNames
  <1>2. CASE Raise(c)
    BY <1>2 DEF Raise, ErrorStep, StepNames
  <1> QED BY <1>1, <1>2

\* So one task moves, and stays with its job until it is done.
LEMMA MoveFacts ==
  ASSUME JobTypeOK, NEW c \in Completers, Complete(c) \/ Raise(c)
  PROVE  /\ On(c) \in Jobs /\ status[On(c)] # "none" /\ Art(On(c)) \in Artifacts
         /\ task' \in [Completers -> Tasks]
         /\ task'[c] = Idle \/ task'[c].job = On(c)
         /\ \A d \in Completers \ {c} : task'[d] = task[d]
         /\ batch' = batch /\ seen' = seen
  <1>1. PICK from \in StepNames \ {"idle"}, to \in StepNames : Goes(c, from, to)
    BY CompleteMoves
  <1>2. task'[c] = IF to = "idle" THEN Idle ELSE [step |-> to, job |-> On(c)]
    BY <1>1, GoesFacts
  <1>3. task'[c] = Idle \/ task'[c].job = On(c)
    BY <1>2
  <1> QED BY <1>1, <1>3, GoesFacts

-----------------------------------------------------------------------------
(* Type correctness *)

\* There are five statuses, and the search asks for each.
LEMMA StatusesListed ==
  /\ Len(JobStatuses) = 5
  /\ \A s \in Working \cup Terminal : \E i \in 1..5 : s = JobStatuses[i]
  <1>1. Len(JobStatuses) = 5
    BY DEF JobStatuses
  <1>2. /\ JobStatuses[1] = "queued" /\ JobStatuses[2] = "running" /\ JobStatuses[3] = "succeeded"
        /\ JobStatuses[4] = "failed" /\ JobStatuses[5] = "cancelled"
    BY DEF JobStatuses
  <1>3. 1 \in 1..5 /\ 2 \in 1..5 /\ 3 \in 1..5 /\ 4 \in 1..5 /\ 5 \in 1..5
    OBVIOUS
  <1> QED BY <1>1, <1>2, <1>3, Zenon DEF Working, Terminal

\* A turn that goes on stays with its request and forgets the search.
LEMMA TurnFacts ==
  ASSUME JobTypeOK, turn.step # "idle", NEW step \in {"generating", "settle"}, TurnGoes(step)
  PROVE  /\ turn' \in Turns /\ turn'.step = step /\ turn' # NoTurn
         /\ turn'.request = turn.request /\ turn.request \in Requests /\ turn # NoTurn
  <1>1. turn.request \in Requests /\ turn # NoTurn
    BY DEF JobTypeOK, NoTurn
  <1>2. turn' = [step |-> step, request |-> turn.request, asked |-> 0, saw |-> {}]
    BY DEF TurnGoes, NoTurn
  <1>3. 0 \in 0..Len(JobStatuses)
    BY StatusesListed
  <1> QED BY <1>1, <1>2, <1>3 DEF Turns, NoTurn

\* Every step keeps the types.
LEMMA TypesKept == ASSUME JobTypeOK, Next PROVE JobTypeOK'
  <1> USE JobAssumption
  <1>1. ASSUME NEW c \in Completers, Complete(c) \/ Raise(c) PROVE JobTypeOK'
    <2>2. /\ On(c) \in Jobs /\ status[On(c)] # "none" /\ Art(On(c)) \in Artifacts
          /\ task' \in [Completers -> Tasks]
          /\ task'[c] = Idle \/ task'[c].job = On(c)
          /\ \A d \in Completers \ {c} : task'[d] = task[d]
          /\ batch' = batch /\ seen' = seen
      BY <1>1, MoveFacts
    <2>3. /\ status' \in [Jobs -> {"none"} \cup Working \cup Terminal]
          /\ \A j \in Jobs : status[j] # "none" => status'[j] # "none"
      BY <1>1, <2>2 DEF JobTypeOK, Working, Terminal, Complete, Raise, jobVars, Submit, StoreId, Check,
         PutVersion, SetReview, Succeed, Announce, FailJob, SetFailed, CancelJob, SetCancelled, Withdraw
    <2>4. /\ provider' \in [Jobs -> {"none", "working"} \cup Terminal]
          /\ state' \in [Artifacts -> ArtifactStates]
          /\ turn' = turn /\ settled' = settled /\ orphaned' \subseteq Artifacts
          /\ commands' = commands /\ wavered' = wavered
          /\ faults' \in 0..MaxFaults
      BY <1>1, <2>2 DEF JobTypeOK, ArtifactStates, WithStatus, Fault, Complete, Raise, jobVars, history,
         Submit, StoreId, Check, PutVersion, SetReview, Succeed, Announce, FailJob, SetFailed, CancelJob,
         SetCancelled, Withdraw
    <2>5. /\ cancel' = cancel /\ inTime' = inTime /\ byHand' = byHand
          /\ made' \in {made, made \cup {On(c)}} /\ announced' \in {announced, announced \cup {On(c)}}
      BY <1>1, <2>2 DEF Complete, Raise, jobVars, history, Submit, StoreId, Check, PutVersion, SetReview,
         Succeed, Announce, FailJob, SetFailed, CancelJob, SetCancelled, Withdraw
    <2>6. (cancel \cup made \cup announced \cup batch \cup seen \cup inTime \cup byHand)'
             \subseteq {j \in Jobs : status'[j] # "none"}
      BY <2>2, <2>3, <2>5 DEF JobTypeOK
    <2>7. \A d \in Completers : task'[d] \notin {Idle, Listing} => status'[task'[d].job] # "none"
      BY <2>2, <2>3 DEF JobTypeOK, On, Tasks, Idle, Listing
    <2>8. \A j \in Jobs : status'[j] = "none" => provider'[j] = "none"
      <3>1. \A j \in Jobs : provider'[j] = provider[j] \/ j = On(c)
        BY <1>1, <2>2 DEF JobTypeOK, Complete, Raise, jobVars, Submit, StoreId, Check, PutVersion, SetReview,
           Succeed, Announce, FailJob, SetFailed, CancelJob, SetCancelled, Withdraw
      <3> QED BY <2>2, <2>3, <3>1 DEF JobTypeOK
    <2> QED BY <2>2, <2>3, <2>4, <2>6, <2>7, <2>8 DEF JobTypeOK, On, Tasks
  <1>2. CASE Turn
    <2>1. \A r \in Requests : BeginTurn(r) => JobTypeOK'
      <3> SUFFICES ASSUME NEW r \in Requests, BeginTurn(r) PROVE JobTypeOK'
        OBVIOUS
      <3>1. turn' \in Turns /\ turn'.asked < Len(JobStatuses)
        BY StatusesListed DEF BeginTurn, Turns
      <3> QED BY <3>1 DEF BeginTurn, JobTypeOK, jobVars, pollVars, history, On, Turns
    <2>5. AskForJob => JobTypeOK'
      <3> SUFFICES ASSUME AskForJob PROVE JobTypeOK'
        OBVIOUS
      <3>1. /\ turn \in Turns \ {NoTurn} /\ turn.asked \in 0..4 /\ turn.request \in Requests
            /\ turn.saw \in SUBSET (Jobs \X (Working \cup Terminal))
        BY StatusesListed DEF AskForJob, JobTypeOK, Turns, NoTurn
      <3>2. {<<j, status[j]>> : j \in JobsOf(turn.request)} \subseteq Jobs \X (Working \cup Terminal)
        BY DEF JobsOf, JobTypeOK
      <3>3. turn' \in Turns /\ (turn'.step = "search" => turn'.asked < Len(JobStatuses))
        <4>1. CASE TurnGoes("settle")
          BY <4>1, TurnFacts DEF AskForJob
        <4>2. CASE ~TurnGoes("settle")
          <5> DEFINE all == turn.saw \cup {<<j, status[j]>> : j \in JobsOf(turn.request)}
                     next == IF turn.asked + 1 < Len(JobStatuses) THEN "search" ELSE "create"
          <5>1. turn' = [turn EXCEPT !.step = next, !.asked = turn.asked + 1, !.saw = all]
            BY <4>2 DEF AskForJob
          <5>2. all \in SUBSET (Jobs \X (Working \cup Terminal)) /\ turn.asked + 1 \in 0..Len(JobStatuses)
            BY <3>1, <3>2, StatusesListed
          <5>3. /\ next \in {"search", "create"}
                /\ next = "search" => turn.asked + 1 < Len(JobStatuses)
            OBVIOUS
          <5> HIDE DEF all, next
          <5>4. turn' = [step |-> next, request |-> turn.request, asked |-> turn.asked + 1, saw |-> all]
            BY <3>1, <5>1 DEF Turns
          <5> QED BY <3>1, <5>2, <5>3, <5>4 DEF Turns
        <4> QED BY <4>1, <4>2
      <3> QED BY <3>3 DEF AskForJob, JobTypeOK, jobVars, pollVars, history, On, Turns
    <2>2. CreateJob => JobTypeOK'
      <3> SUFFICES ASSUME CreateJob PROVE JobTypeOK'
        OBVIOUS
      <3>1. turn' \in Turns /\ turn.request \in Requests /\ turn'.step # "search"
        BY TurnFacts DEF CreateJob
      <3>2. /\ status' \in [Jobs -> {"none"} \cup Working \cup Terminal]
            /\ \A j \in Jobs : status[j] # "none" => status'[j] # "none"
        BY <3>1 DEF CreateJob, JobTypeOK, Jobs, Working, Terminal
      <3>3. wavered' \subseteq Requests
        BY <3>1 DEF CreateJob, JobTypeOK
      <3>4. \A d \in Completers : task'[d] \notin {Idle, Listing} => status'[task'[d].job] # "none"
        <4> SUFFICES ASSUME NEW d \in Completers, task[d] \notin {Idle, Listing}
                     PROVE  status'[task[d].job] # "none"
          BY DEF CreateJob, pollVars
        <4>1. status[task[d].job] # "none" /\ task[d].job \in Jobs
          BY DEF JobTypeOK, On
        <4> QED BY <3>2, <4>1
      <3>5. (cancel \cup made \cup announced \cup batch \cup seen \cup inTime \cup byHand)'
               \subseteq {j \in Jobs : status'[j] # "none"}
        BY <3>2 DEF CreateJob, JobTypeOK, pollVars
      <3>6. commands' \subseteq {"finish", "reclaim"} \X {j \in Jobs : status'[j] # "none"}
        BY <3>2 DEF CreateJob, JobTypeOK
      <3> QED BY <3>1, <3>2, <3>3, <3>4, <3>5, <3>6 DEF CreateJob, JobTypeOK, pollVars, On, Turns, Tasks
    <2>3. SetGenerating => JobTypeOK'
      <3> SUFFICES ASSUME SetGenerating PROVE JobTypeOK'
        OBVIOUS
      <3>1. turn' \in Turns /\ turn'.step # "search" /\ turn.request \in Requests
        BY TurnFacts DEF SetGenerating
      <3>2. state' \in [Artifacts -> ArtifactStates]
        BY DEF SetGenerating, JobTypeOK, ArtifactStates
      <3> QED BY <3>1, <3>2 DEF SetGenerating, JobTypeOK, jobVars, pollVars, history, On, Turns
    <2>4. Settle => JobTypeOK'
      BY DEF Settle, JobTypeOK, jobVars, pollVars, history, On, NoTurn
    <2> QED BY <1>2, <2>1, <2>2, <2>3, <2>4, <2>5 DEF Turn
  <1>3. CASE Poll
    <2>1. ListQueued \/ ListRunning => JobTypeOK'
      <3> SUFFICES ASSUME ListQueued \/ ListRunning PROVE JobTypeOK'
        OBVIOUS
      <3>1. /\ task' \in [Completers -> Tasks]
            /\ \A d \in Completers : task'[d] \notin {Idle, Listing} => task'[d] = task[d]
        BY DEF ListQueued, ListRunning, JobTypeOK, Tasks
      <3>2. (batch \cup seen)' \subseteq {j \in Jobs : status[j] # "none"}
        BY DEF ListQueued, ListRunning, Listed, JobTypeOK
      <3> QED BY <3>1, <3>2 DEF ListQueued, ListRunning, JobTypeOK, jobVars, history, On, Tasks
    <2>2. \A j \in Jobs : PollJob(j) => JobTypeOK'
      <3> SUFFICES ASSUME NEW j \in Jobs, PollJob(j) PROVE JobTypeOK'
        OBVIOUS
      <3>1. Decision(j) \in StepNames /\ Poller \in Completers /\ status[j] # "none"
        BY DEF Decision, Reported, StepNames, Completers, PollJob, JobTypeOK
      <3>2. \E step \in StepNames : StartTask(Poller, step, j)
        BY <3>1 DEF PollJob, StepNames
      <3>3. /\ task' \in [Completers -> Tasks]
            /\ \A d \in Completers : task'[d] \notin {Idle, Listing} => status[task'[d].job] # "none"
        BY <3>1, <3>2 DEF StartTask, JobTypeOK, Tasks, On, Idle
      <3>4. provider' \in [Jobs -> {"none", "working"} \cup Terminal] /\ faults' \in 0..MaxFaults
        BY DEF PollJob, JobTypeOK, Terminal, Fault
      <3> QED BY <3>3, <3>4 DEF PollJob, JobTypeOK, history, On, Tasks
    <2> QED BY <1>3, <2>1, <2>2 DEF Poll
  <1>4. CASE Outside
    <2>1. \A h \in Hooks : Deliver(h) => JobTypeOK'
      <3> SUFFICES ASSUME NEW h \in Hooks, Deliver(h) PROVE JobTypeOK'
        OBVIOUS
      <3>1. PICK j \in Jobs : Active(j) /\ StartTask(h, Reported(j), j)
        BY DEF Deliver
      <3>2. Reported(j) \in StepNames /\ h \in Completers /\ status[j] # "none"
        BY <3>1 DEF Reported, StepNames, Completers, Active, Working
      <3>3. /\ task' \in [Completers -> Tasks]
            /\ \A d \in Completers : task'[d] \notin {Idle, Listing} => status[task'[d].job] # "none"
        BY <3>1, <3>2 DEF StartTask, JobTypeOK, Tasks, On, Idle
      <3> QED BY <3>3 DEF Deliver, JobTypeOK, jobVars, history, On, Tasks
    <2>2. \A j \in Jobs, outcome \in Terminal : ProviderEnds(j, outcome) => JobTypeOK'
      BY DEF ProviderEnds, Fault, JobTypeOK, pollVars, history, On
    <2>3. \A j \in Jobs : cancel_job(j) => JobTypeOK'
      BY DEF cancel_job, JobTypeOK, pollVars, On
    <2>4. \A j \in Jobs : finish_job(j) => JobTypeOK'
      BY DEF finish_job, JobTypeOK, pollVars, On, Terminal, Art, Jobs
    <2>5. \A a \in Artifacts, s \in {"approved", "draft"} : UserSetsStatus(a, s) => JobTypeOK'
      BY DEF UserSetsStatus, WithStatus, ArtifactStates, JobTypeOK, jobVars, pollVars, history, On
    <2>6. \A j \in Jobs : LookToFinish(j) => JobTypeOK'
      BY DEF LookToFinish, JobTypeOK, jobVars, pollVars, history, On
    <2> QED BY <1>4, <2>1, <2>2, <2>3, <2>4, <2>5, <2>6 DEF Outside
  <1>5. WorkerDies => JobTypeOK'
    BY DEF NoTurn, WorkerDies, Fault, JobTypeOK, jobVars, pollVars, history, On
  <1>6. Crash => JobTypeOK'
    <2> SUFFICES ASSUME Crash PROVE JobTypeOK'
      OBVIOUS
    <2>1. Unfinished \subseteq Artifacts
      BY DEF Unfinished, StatusPending, JobTypeOK, On, Idle, Listing, Art, Jobs
    <2>2. (cancel \cup made \cup announced \cup batch \cup seen \cup inTime \cup byHand)'
             \subseteq {j \in Jobs : status'[j] # "none"}
      BY DEF Crash, JobTypeOK, jobVars
    <2>3. NoTurn.step # "search"
      BY DEF NoTurn
    <2> QED BY <2>1, <2>2, <2>3 DEF Crash, Fault, JobTypeOK, jobVars, On
  <1>7. \A j \in Jobs : ForceReclaim(j) => JobTypeOK'
    BY DEF ForceReclaim, Fault, JobTypeOK, pollVars, On, Terminal, Art, Jobs
  <1>8. \A j \in Jobs : LookForStuck(j) => JobTypeOK'
    BY DEF LookForStuck, Active, Working, Fault, JobTypeOK, jobVars, pollVars, history, On
  <1> QED BY <1>1, <1>2, <1>3, <1>4, <1>5, <1>6, <1>7, <1>8 DEF Next, Failures

-----------------------------------------------------------------------------
(* No duplicate job, no poll during a turn *)

\* Rows appear only in CreateJob.
LEMMA RowsKept ==
  ASSUME JobTypeOK, Next, ~CreateJob, NEW j \in Jobs, status[j] = "none"
  PROVE  status'[j] = "none"
  <1>1. ASSUME NEW c \in Completers, Complete(c) \/ Raise(c) PROVE status'[j] = "none"
    BY <1>1, MoveFacts DEF JobTypeOK, Complete, Raise, jobVars, Submit, StoreId, Check,
       PutVersion, SetReview, Succeed, Announce, FailJob, SetFailed, CancelJob, SetCancelled, Withdraw
  <1>2. CASE Turn \/ Poll
    BY <1>2 DEF Turn, Poll, BeginTurn, AskForJob, SetGenerating, Settle, ListQueued, ListRunning, PollJob, jobVars
  <1>3. CASE Outside
    BY <1>3 DEF Outside, Deliver, ProviderEnds, cancel_job, LookToFinish, finish_job, UserSetsStatus, jobVars, JobTypeOK
  <1>4. CASE WorkerDies \/ Crash \/ \E i \in Jobs : LookForStuck(i) \/ ForceReclaim(i)
    BY <1>4 DEF WorkerDies, Crash, LookForStuck, ForceReclaim, Active, Working, jobVars, JobTypeOK
  <1> QED BY <1>1, <1>2, <1>3, <1>4 DEF Next, Failures

LEMMA RowsOf ==
  ASSUME JobTypeOK, Next, ~CreateJob, NEW r \in Requests
  PROVE  JobsOf(r)' \subseteq JobsOf(r)
  BY RowsKept DEF JobsOf

\* One question leaves the answers to the earlier ones as they were.
LEMMA SearchMissedKept ==
  ASSUME JobTypeOK, SearchMissed, Next
  PROVE  SearchMissed'
  <1>1. CASE AskForJob
    <2>1. turn.request \in Requests /\ turn.asked \in 0..4
      BY <1>1, StatusesListed DEF AskForJob, JobTypeOK, NoTurn
    <2>2. CASE \E j \in JobsOf(turn.request) : status[j] = JobStatuses[turn.asked + 1]
      BY <1>1, <2>2 DEF AskForJob, TurnGoes, SearchMissed, NoTurn
    <2>3. CASE ~\E j \in JobsOf(turn.request) : status[j] = JobStatuses[turn.asked + 1]
      <3> DEFINE now == {<<j, status[j]>> : j \in JobsOf(turn.request)}
      <3>1. /\ turn' = [turn EXCEPT
                         !.step = IF turn.asked + 1 < Len(JobStatuses) THEN "search" ELSE "create",
                         !.asked = turn.asked + 1, !.saw = turn.saw \cup now]
            /\ status' = status
        BY <1>1, <2>3 DEF AskForJob, jobVars
      <3>2. /\ turn'.step = (IF turn.asked + 1 < Len(JobStatuses) THEN "search" ELSE "create")
            /\ turn'.request = turn.request /\ turn'.asked = turn.asked + 1
            /\ turn'.saw = turn.saw \cup now
        BY <1>1, <3>1 DEF AskForJob, JobTypeOK, NoTurn
      <3>3. turn'.step = "create" => turn'.asked = 5
        BY <2>1, <3>2, StatusesListed
      <3>4. ASSUME NEW j \in JobsOf(turn.request), NEW i \in 1..(turn.asked + 1)
            PROVE  \E s \in Working \cup Terminal : <<j, s>> \in turn'.saw /\ s # JobStatuses[i]
        <4>1. CASE i = turn.asked + 1
          <5>1. status[j] \in Working \cup Terminal /\ <<j, status[j]>> \in now
            BY DEF JobsOf, JobTypeOK
          <5> QED BY <2>3, <3>2, <4>1, <5>1
        <4>2. CASE i # turn.asked + 1
          <5>1. i \in 1..turn.asked
            BY <2>1, <4>2
          <5>2. turn.step = "search"
            BY <1>1 DEF AskForJob
          <5> QED BY <3>2, <5>1, <5>2 DEF SearchMissed
        <4> QED BY <4>1, <4>2
      <3>5. \A j \in JobsOf(turn.request)' : j \in JobsOf(turn.request)
        BY <3>1, <3>2 DEF JobsOf
      <3> HIDE DEF now
      <3> QED BY <3>2, <3>3, <3>4, <3>5 DEF SearchMissed
    <2> QED BY <2>2, <2>3
  <1>2. CASE \E r \in Requests : BeginTurn(r)
    BY <1>2 DEF BeginTurn, SearchMissed
  <1>3. CASE turn'.step \notin {"search", "create"}
    BY <1>3 DEF SearchMissed
  <1>4. CASE turn' = turn /\ ~CreateJob /\ turn # NoTurn
    <2>1. turn.request \in Requests
      BY <1>4 DEF JobTypeOK
    <2>2. JobsOf(turn.request)' \subseteq JobsOf(turn.request)
      BY <1>4, <2>1, RowsOf
    <2> QED BY <1>4, <2>2 DEF SearchMissed
  <1>5. turn' = turn \/ turn'.step \notin {"search", "create"} \/ AskForJob \/ \E r \in Requests : BeginTurn(r)
    <2>1. ASSUME NEW c \in Completers, Complete(c) \/ Raise(c) PROVE turn' = turn
      BY <2>1 DEF Complete, Raise, Submit, StoreId, Check, PutVersion, SetReview,
         Succeed, Announce, FailJob, SetFailed, CancelJob, SetCancelled, Withdraw
    <2>2. Poll \/ Outside => turn' = turn
      BY DEF Poll, ListQueued, ListRunning, PollJob, Outside, Deliver, ProviderEnds, cancel_job,
         LookToFinish, finish_job, UserSetsStatus
    <2>3. WorkerDies \/ Crash => turn' = NoTurn
      BY DEF WorkerDies, Crash
    <2>4. \A j \in Jobs : LookForStuck(j) \/ ForceReclaim(j) => turn' = turn
      BY DEF LookForStuck, ForceReclaim
    <2>5. CreateJob \/ SetGenerating \/ Settle => turn'.step \notin {"search", "create"}
      BY TurnFacts DEF CreateJob, SetGenerating, Settle, NoTurn
    <2> QED BY <2>1, <2>2, <2>3, <2>4, <2>5 DEF Next, Turn, Failures, NoTurn
  <1>6. turn = NoTurn => turn.step \notin {"search", "create"}
    BY DEF NoTurn
  <1>7. CreateJob => turn'.step \notin {"search", "create"}
    BY TurnFacts DEF CreateJob
  <1> QED BY <1>1, <1>2, <1>3, <1>4, <1>5, <1>6, <1>7

\* A search that saw no job waver and asked for all statuses has missed none.
LEMMA NothingMissed ==
  ASSUME JobTypeOK, SearchMissed, turn.step = "create", ~Wavered
  PROVE  JobsOf(turn.request) = {}
  <1> SUFFICES ASSUME NEW j \in JobsOf(turn.request) PROVE FALSE
    OBVIOUS
  <1>1. \A i \in 1..5 : \E s \in Working \cup Terminal : <<j, s>> \in turn.saw /\ s # JobStatuses[i]
    BY DEF SearchMissed
  <1>2. PICK s \in Working \cup Terminal : <<j, s>> \in turn.saw
    BY <1>1
  <1>3. PICK i \in 1..5 : s = JobStatuses[i]
    BY StatusesListed
  <1>4. PICK t \in Working \cup Terminal : <<j, t>> \in turn.saw /\ t # s
    BY <1>1, <1>3
  <1> QED BY <1>2, <1>4 DEF Wavered

LEMMA OneJobKept == ASSUME JobTypeOK, SearchMissed, OneJobPerRequest, Next PROVE OneJobPerRequest'
  <1> SUFFICES ASSUME NEW r \in Requests, r \notin wavered', NEW i \in JobsOf(r)', NEW j \in JobsOf(r)'
               PROVE  i = j
    BY DEF OneJobPerRequest
  <1>1. wavered \subseteq wavered'
    <2>1. ASSUME NEW c \in Completers, Complete(c) \/ Raise(c) PROVE wavered' = wavered
      BY <2>1 DEF Complete, Raise, Submit, StoreId, Check, PutVersion, SetReview, history,
         Succeed, Announce, FailJob, SetFailed, CancelJob, SetCancelled, Withdraw
    <2>2. Poll \/ Outside => wavered' = wavered
      BY DEF Poll, ListQueued, ListRunning, PollJob, Outside, Deliver, ProviderEnds, cancel_job,
         LookToFinish, finish_job, UserSetsStatus, history
    <2>3. Failures => wavered' = wavered \/ \E c \in Completers : Raise(c)
      BY DEF Failures, WorkerDies, Crash, LookForStuck, ForceReclaim, history
    <2>4. Turn => wavered \subseteq wavered'
      BY DEF Turn, BeginTurn, AskForJob, CreateJob, SetGenerating, Settle, history
    <2> QED BY <2>1, <2>2, <2>3, <2>4 DEF Next
  <1>2. CASE JobsOf(r)' \subseteq JobsOf(r)
    BY <1>1, <1>2 DEF OneJobPerRequest
  <1>3. CASE CreateJob
    <2>1. CASE status' = status
      BY <1>2, <2>1 DEF JobsOf
    <2>2. CASE status' # status
      <3>1. PICK n \in 1..MaxJobs : status' = [status EXCEPT ![<<turn.request, n>>] = "queued"]
        BY <1>3, <2>2 DEF CreateJob
      <3>2. CASE r # turn.request
        <4>1. \A k \in Jobs : k[1] = r => status'[k] = status[k]
          BY <3>1, <3>2 DEF JobTypeOK, Jobs
        <4> QED BY <1>2, <4>1 DEF JobsOf
      <3>3. CASE r = turn.request
        <4>1. ~Wavered /\ turn.step = "create"
          BY <1>3, <2>2, <3>3 DEF CreateJob
        <4>2. JobsOf(r) = {}
          BY <3>3, <4>1, NothingMissed
        <4>3. \A k \in Jobs : k # <<turn.request, n>> => status'[k] = status[k]
          BY <3>1 DEF JobTypeOK
        <4> QED BY <4>2, <4>3 DEF JobsOf
      <3> QED BY <3>2, <3>3
    <2> QED BY <2>1, <2>2
  <1> QED BY <1>2, <1>3, RowsOf

LEMMA SerialKept == ASSUME JobTypeOK, Serial, Next PROVE Serial'
  <1> USE DEF Serial, AtRest
  <1>1. ASSUME NEW c \in Completers, Complete(c) \/ Raise(c) PROVE Serial'
    <2>1. turn' = turn /\ batch' = batch
      BY <1>1, MoveFacts DEF Complete, Raise, Submit, StoreId, Check, PutVersion, SetReview, Succeed,
         Announce, FailJob, SetFailed, CancelJob, SetCancelled, Withdraw
    <2>2. CASE c = Poller
      <3>1. task[Poller] # Idle
        BY <1>1, <2>2, MoveFacts, JobAssumption DEF On, Idle
      <3> QED BY <2>1, <3>1
    <2>3. CASE c # Poller
      <3>1. task'[Poller] = task[Poller]
        BY <1>1, <2>3, MoveFacts DEF Completers
      <3> QED BY <2>1, <3>1
    <2> QED BY <2>2, <2>3
  <1>2. CASE Turn
    <2>1. task' = task /\ batch' = batch
      BY <1>2 DEF Turn, BeginTurn, AskForJob, CreateJob, SetGenerating, Settle, pollVars
    <2>2. AtRest \/ turn # NoTurn
      BY <1>2 DEF Turn, BeginTurn, AskForJob, CreateJob, SetGenerating, Settle, NoTurn
    <2> QED BY <2>1, <2>2
  <1>3. CASE Poll
    BY <1>3 DEF Poll, ListQueued, ListRunning, PollJob, Idle, Listing
  <1>4. CASE Outside
    <2>1. ASSUME NEW h \in Hooks, Deliver(h) PROVE Serial'
      <3>1. task'[Poller] = task[Poller]
        BY <2>1, JobAssumption DEF Deliver, StartTask, JobTypeOK, Completers
      <3> QED BY <2>1, <3>1 DEF Deliver
    <2> QED BY <1>4, <2>1 DEF Outside, ProviderEnds, cancel_job, LookToFinish, finish_job, UserSetsStatus, pollVars
  <1>5. CASE WorkerDies \/ Crash \/ \E j \in Jobs : LookForStuck(j) \/ ForceReclaim(j)
    BY <1>5 DEF WorkerDies, Crash, LookForStuck, ForceReclaim, pollVars, Completers
  <1> QED BY <1>1, <1>2, <1>3, <1>4, <1>5 DEF Next, Failures

-----------------------------------------------------------------------------
(* Cancellations and reports *)

\* No action of Turn or WorkerDies concerns a completer or a history.
LEMMA TurnSteps ==
  ASSUME Turn \/ WorkerDies
  PROVE  /\ task' = task /\ cancel' = cancel /\ provider' = provider /\ made' = made
         /\ announced' = announced /\ batch' = batch /\ seen' = seen
         /\ inTime' = inTime /\ byHand' = byHand /\ orphaned' = orphaned /\ commands' = commands
  BY DEF Turn, BeginTurn, AskForJob, CreateJob, TurnGoes, SetGenerating, Settle, WorkerDies, jobVars, pollVars, history

\* Listing jobs leaves the completers without one; picking up a job makes one check, fail, cancel, submit or withdraw.
LEMMA PickUp ==
  ASSUME JobTypeOK, Poll \/ \E h \in Hooks : Deliver(h)
  PROVE  \/ task' = task
         \/ \E c \in Completers, j \in Jobs, step \in StepNames :
              /\ step \notin {"put", "review", "succeed", "announce", "failed", "cancelled"}
              /\ task[c] = Idle
              /\ status[j] \in Working \/ j \in batch
              /\ c # Poller => provider[j] \in Terminal
              /\ StartTask(c, step, j)
         \/ \E next \in {Idle, Listing} : /\ task[Poller] \in {Idle, Listing}
                                          /\ task' = [task EXCEPT ![Poller] = next]
  <1>1. ASSUME NEW j \in Jobs, PollJob(j)
        PROVE  \E step \in StepNames : /\ step \notin {"put", "review", "succeed", "announce", "failed", "cancelled"}
                                       /\ StartTask(Poller, step, j)
    <2>1. Decision(j) \in StepNames \ {"put", "review", "succeed", "announce", "failed", "cancelled"}
      BY DEF Decision, Reported, StepNames
    <2> QED BY <1>1, <2>1 DEF PollJob, StepNames
  <1>2. ASSUME NEW h \in Hooks, NEW j \in Jobs, StartTask(h, Reported(j), j)
        PROVE  \E step \in StepNames : /\ step \notin {"put", "review", "succeed", "announce", "failed", "cancelled"}
                                       /\ StartTask(h, step, j)
    <2>1. Reported(j) \in StepNames \ {"put", "review", "succeed", "announce", "failed", "cancelled"}
      BY DEF Reported, StepNames
    <2> QED BY <1>2, <2>1
  <1>3. CASE Poll
    <2>1. CASE ListQueued \/ ListRunning
      BY <2>1 DEF ListQueued, ListRunning, AtRest
    <2>2. CASE \E j \in Jobs : PollJob(j)
      BY <1>1, <2>2 DEF PollJob, Completers
    <2> QED BY <1>3, <2>1, <2>2 DEF Poll
  <1>4. CASE \E h \in Hooks : Deliver(h)
    BY <1>2, <1>4 DEF Deliver, Active, Completers
  <1> QED BY <1>3, <1>4

\* The same, as a change of the tasks.
LEMMA PickUpTasks ==
  ASSUME JobTypeOK, Poll \/ \E h \in Hooks : Deliver(h), NEW d \in Completers
  PROVE  task'[d] = task[d] \/ task'[d].step \notin {"put", "review", "succeed", "announce", "failed", "cancelled"}
  BY PickUp DEF StartTask, JobTypeOK, Idle, Listing

LEMMA CancelSeenKept ==
  ASSUME JobTypeOK, CancelSeen, ReportedIsMade, Next
  PROVE  CancelSeen'
  <1> DEFINE Past == {"put", "review", "succeed", "announce"}
  <1>1. ASSUME NEW c \in Completers, Complete(c) \/ Raise(c) PROVE CancelSeen'
    <2>1. cancel' = cancel /\ inTime' = inTime /\ commands' = commands
      BY <1>1 DEF Complete, Raise, jobVars, history, Submit, StoreId, Check, PutVersion, SetReview,
         Succeed, Announce, FailJob, SetFailed, CancelJob, SetCancelled, Withdraw
    <2>2. task'[c].step \in Past => On(c) \notin inTime
      BY <1>1, MoveFacts DEF Complete, Raise, Goes, StartTask, At, ErrorStep, AfterStep, CancelFound, Idle,
         CancelSeen, Submit, StoreId, Check, PutVersion, SetReview, Succeed, Announce, FailJob, SetFailed,
         CancelJob, SetCancelled, Withdraw, JobTypeOK
    <2>3. \A d \in Completers : task'[d].step \in Past => task'[d].job \notin inTime
      BY <1>1, <2>2, MoveFacts DEF CancelSeen, On, Idle
    <2>4. CancelInTimeHonoured'
      <3>1. made' = made \/ (At(c, "put") /\ made' = made \cup {On(c)})
        BY <1>1 DEF Complete, Raise, jobVars, Goes, Submit, StoreId, Check, PutVersion, SetReview,
           Succeed, Announce, FailJob, SetFailed, CancelJob, SetCancelled, Withdraw
      <3>2. \A j \in Jobs : \/ status'[j] = status[j] \/ status'[j] # "succeeded"
                            \/ At(c, "succeed") /\ j = On(c)
        BY <1>1, MoveFacts DEF JobTypeOK, Complete, Raise, jobVars, Goes, Submit, StoreId, Check, PutVersion,
           SetReview, Succeed, Announce, FailJob, SetFailed, CancelJob, SetCancelled, Withdraw
      <3>3. inTime \subseteq Jobs
        BY DEF JobTypeOK
      <3> QED BY <2>1, <3>1, <3>2, <3>3 DEF CancelSeen, CancelInTimeHonoured, At
    <2> QED BY <2>1, <2>3, <2>4 DEF CancelSeen, On
  <1>2. CASE Turn \/ WorkerDies
    <2>1. \A j \in Jobs : status'[j] = "succeeded" => status[j] = "succeeded"
      BY <1>2 DEF Turn, WorkerDies, BeginTurn, AskForJob, CreateJob, TurnGoes, SetGenerating, Settle, jobVars, JobTypeOK
    <2>2. inTime \subseteq Jobs
      BY DEF JobTypeOK
    <2> QED BY <1>2, <2>1, <2>2, TurnSteps DEF CancelSeen, CancelInTimeHonoured, On
  <1>3. CASE Poll \/ \E h \in Hooks : Deliver(h)
    <2>1. cancel' = cancel /\ inTime' = inTime /\ made' = made /\ status' = status /\ commands' = commands
      BY <1>3 DEF Poll, ListQueued, ListRunning, PollJob, Deliver, jobVars, history
    <2> QED BY <1>3, <2>1, PickUpTasks DEF CancelSeen, CancelInTimeHonoured, On
  <1>4. ASSUME NEW j \in Jobs, cancel_job(j) PROVE CancelSeen'
    <2>0. /\ task' = task /\ commands' = commands /\ status' = status /\ made' = made
          /\ inTime' \subseteq cancel'
      BY <1>4 DEF cancel_job, pollVars, CancelSeen
    <2>1. CASE Looked(j)
      BY <1>4, <2>0, <2>1 DEF cancel_job, CancelSeen, CancelInTimeHonoured, On
    <2>2. CASE ~Looked(j)
      <3>1. inTime' = inTime \cup {j}
        BY <1>4, <2>2 DEF cancel_job
      <3>2. <<"finish", j>> \notin commands /\ j \notin made /\ status[j] # "succeeded"
        BY <2>2 DEF Looked, ReportedIsMade
      <3>3. \A c \in Completers : task[c].step \in {"put", "review", "succeed", "announce"} => On(c) # j
        BY <2>2 DEF Looked, Completing
      <3> QED BY <2>0, <3>1, <3>2, <3>3 DEF CancelSeen, CancelInTimeHonoured, On
    <2> QED BY <2>1, <2>2
  <1>5. ASSUME NEW j \in Jobs, finish_job(j) PROVE CancelSeen'
    BY <1>5 DEF finish_job, pollVars, CancelSeen, CancelInTimeHonoured, On, JobTypeOK
  <1>6. CASE (\E j \in Jobs, outcome \in Terminal : ProviderEnds(j, outcome))
             \/ \E a \in Artifacts, s \in {"approved", "draft"} : UserSetsStatus(a, s)
    BY <1>6 DEF ProviderEnds, UserSetsStatus, jobVars, pollVars, history, CancelSeen, CancelInTimeHonoured, On
  <1>7. CASE Crash
    BY <1>7 DEF Crash, jobVars, CancelSeen, CancelInTimeHonoured, On, Idle
  <1>8. ASSUME NEW j \in Jobs, ForceReclaim(j) PROVE CancelSeen'
    BY <1>8 DEF ForceReclaim, pollVars, CancelSeen, CancelInTimeHonoured, On, JobTypeOK
  <1>9. ASSUME NEW j \in Jobs, LookForStuck(j) PROVE CancelSeen'
    BY <1>9 DEF LookForStuck, jobVars, pollVars, history, CancelSeen, CancelInTimeHonoured, On
  <1>10. ASSUME NEW j \in Jobs, LookToFinish(j) PROVE CancelSeen'
    <2>1. j \notin inTime
      BY <1>10 DEF LookToFinish, CancelSeen
    <2> QED BY <1>10, <2>1 DEF LookToFinish, jobVars, pollVars, history, CancelSeen, CancelInTimeHonoured, On
  <1> QED BY <1>1, <1>2, <1>3, <1>4, <1>5, <1>6, <1>7, <1>8, <1>9, <1>10 DEF Next, Outside, Failures

LEMMA VersionFirstKept == ASSUME JobTypeOK, VersionFirst, Next PROVE VersionFirst'
  <1> DEFINE After == {"review", "succeed", "announce"}
  <1>1. ASSUME NEW c \in Completers, Complete(c) \/ Raise(c) PROVE VersionFirst'
    <2>1. byHand' = byHand /\ made \subseteq made'
      BY <1>1 DEF Complete, Raise, jobVars, history, Submit, StoreId, Check, PutVersion, SetReview,
         Succeed, Announce, FailJob, SetFailed, CancelJob, SetCancelled, Withdraw
    <2>2. task'[c].step \in After => On(c) \in made'
      BY <1>1, MoveFacts DEF Complete, Raise, jobVars, Goes, StartTask, At, ErrorStep, AfterStep, Idle,
         VersionFirst, Submit, StoreId, Check, PutVersion, SetReview, Succeed, Announce, FailJob, SetFailed,
         CancelJob, SetCancelled, Withdraw, JobTypeOK
    <2>3. \A d \in Completers : task'[d].step \in After => task'[d].job \in made'
      BY <1>1, <2>1, <2>2, MoveFacts DEF VersionFirst, On, Idle
    <2>4. ReportedIsMade'
      <3>1. announced' = announced \/ (At(c, "announce") /\ announced' = announced \cup {On(c)})
        BY <1>1 DEF Complete, Raise, jobVars, Goes, Submit, StoreId, Check, PutVersion, SetReview,
           Succeed, Announce, FailJob, SetFailed, CancelJob, SetCancelled, Withdraw
      <3>2. \A j \in Jobs : \/ status'[j] = status[j] \/ status'[j] # "succeeded"
                            \/ At(c, "succeed") /\ j = On(c)
        BY <1>1, MoveFacts DEF JobTypeOK, Complete, Raise, jobVars, Goes, Submit, StoreId, Check, PutVersion,
           SetReview, Succeed, Announce, FailJob, SetFailed, CancelJob, SetCancelled, Withdraw
      <3> QED BY <2>1, <3>1, <3>2 DEF VersionFirst, ReportedIsMade, At
    <2> QED BY <2>3, <2>4 DEF VersionFirst, On
  <1>2. CASE Turn \/ WorkerDies
    <2>1. \A j \in Jobs : status'[j] = "succeeded" => status[j] = "succeeded"
      BY <1>2 DEF Turn, WorkerDies, BeginTurn, AskForJob, CreateJob, TurnGoes, SetGenerating, Settle, jobVars, JobTypeOK
    <2> QED BY <1>2, <2>1, TurnSteps DEF VersionFirst, ReportedIsMade, On
  <1>3. CASE Poll \/ \E h \in Hooks : Deliver(h)
    <2>1. announced' = announced /\ byHand' = byHand /\ made' = made /\ status' = status
      BY <1>3 DEF Poll, ListQueued, ListRunning, PollJob, Deliver, jobVars, history
    <2> QED BY <1>3, <2>1, PickUpTasks DEF VersionFirst, ReportedIsMade, On
  <1>4. CASE \/ \E j \in Jobs, outcome \in Terminal : ProviderEnds(j, outcome)
             \/ \E j \in Jobs : cancel_job(j)
             \/ \E a \in Artifacts, s \in {"approved", "draft"} : UserSetsStatus(a, s)
    BY <1>4 DEF ProviderEnds, cancel_job, UserSetsStatus, jobVars, pollVars, history, VersionFirst,
       ReportedIsMade, On
  <1>5. ASSUME NEW j \in Jobs, finish_job(j) \/ ForceReclaim(j) PROVE VersionFirst'
    BY <1>5 DEF finish_job, ForceReclaim, pollVars, VersionFirst, ReportedIsMade, On, JobTypeOK
  <1>6. CASE Crash
    BY <1>6 DEF Crash, jobVars, VersionFirst, ReportedIsMade, On, Idle
  <1>7. ASSUME NEW j \in Jobs, LookToFinish(j) \/ LookForStuck(j) PROVE VersionFirst'
    BY <1>7 DEF LookToFinish, LookForStuck, jobVars, pollVars, history, VersionFirst, ReportedIsMade, On
  <1> QED BY <1>1, <1>2, <1>3, <1>4, <1>5, <1>6, <1>7 DEF Next, Outside, Failures

-----------------------------------------------------------------------------
(* Generating artifacts *)

LEMMA FreshJobKept == ASSUME JobTypeOK, Serial, FreshJob, Next PROVE FreshJob'
  <1>1. ASSUME NEW c \in Completers, Complete(c) \/ Raise(c) PROVE FreshJob'
    <2>1. turn' = turn /\ orphaned \subseteq orphaned'
      BY <1>1 DEF Complete, Raise, history, Submit, StoreId, Check, PutVersion, SetReview, Succeed,
         Announce, FailJob, SetFailed, CancelJob, SetCancelled, Withdraw
    <2>2. ASSUME NEW j \in Jobs, Fresh(j) PROVE Fresh(j)'
      <3>1. On(c) # j
        BY <2>2 DEF Fresh
      <3>2. status'[j] = status[j] /\ provider'[j] = provider[j]
        BY <1>1, <3>1, MoveFacts DEF JobTypeOK, Complete, Raise, jobVars, Submit, StoreId, Check, PutVersion,
           SetReview, Succeed, Announce, FailJob, SetFailed, CancelJob, SetCancelled, Withdraw
      <3>3. NoJob # j
        BY JobAssumption
      <3>4. \A d \in Completers : task'[d].job # j
        BY <1>1, <2>2, <3>1, <3>3, MoveFacts DEF Fresh, On, Idle
      <3> QED BY <2>2, <3>2, <3>4 DEF Fresh, Active, On
    <2> QED BY <2>1, <2>2 DEF FreshJob
  <1>2. CASE CreateJob
    <2>1. CASE turn'.step = "generating"
      <3>1. turn.request \in Requests /\ turn'.request = turn.request /\ turn # NoTurn
        BY <1>2, TurnFacts DEF CreateJob
      <3>2. PICK n \in 1..MaxJobs : /\ status[<<turn.request, n>>] = "none"
                                    /\ status' = [status EXCEPT ![<<turn.request, n>>] = "queued"]
        <4>1. ~TurnGoes("settle")
          BY <1>2, <2>1, TurnFacts DEF CreateJob
        <4> QED BY <1>2, <4>1 DEF CreateJob
      <3>3. PICK j \in Jobs : j = <<turn.request, n>>
        BY <3>1 DEF Jobs
      <3>4. Active(j)'
        <4>1. status'[j] = "queued"
          BY <3>2, <3>3 DEF JobTypeOK
        <4> QED BY <4>1 DEF Active, Working
      <3>5. \A c \in Completers : task'[c].job # j
        <4> SUFFICES ASSUME NEW c \in Completers, task[c].job = j PROVE FALSE
          BY <1>2 DEF CreateJob, pollVars
        <4>1. task[c] \notin {Idle, Listing}
          BY JobAssumption DEF Idle, Listing
        <4>2. status[j] # "none"
          BY <4>1 DEF JobTypeOK, On
        <4> QED BY <3>2, <3>3, <4>2
      <3>6. provider'[j] = "none"
        BY <1>2, <3>2, <3>3 DEF CreateJob, TurnGoes, JobTypeOK
      <3> QED BY <3>1, <3>3, <3>4, <3>5, <3>6 DEF FreshJob, Fresh, On
    <2> QED BY <2>1 DEF FreshJob
  <1>3. CASE turn'.step # "generating"
    BY <1>3 DEF FreshJob
  <1>4. CASE Turn \/ WorkerDies
    <2>1. CreateJob \/ turn'.step # "generating"
      <3>1. AskForJob => turn'.step # "generating"
        <4> SUFFICES ASSUME AskForJob PROVE turn'.step # "generating"
          OBVIOUS
        <4>1. CASE TurnGoes("settle")
          BY <4>1, TurnFacts DEF AskForJob
        <4>2. CASE ~TurnGoes("settle")
          BY <4>2 DEF AskForJob, JobTypeOK, NoTurn
        <4> QED BY <4>1, <4>2
      <3>2. SetGenerating => turn'.step # "generating"
        BY TurnFacts DEF SetGenerating
      <3>3. WorkerDies \/ Settle \/ (\E r \in Requests : BeginTurn(r)) => turn'.step # "generating"
        BY DEF WorkerDies, Settle, BeginTurn, NoTurn
      <3> QED BY <1>4, <3>1, <3>2, <3>3 DEF Turn
    <2> QED BY <1>2, <1>3, <2>1
  <1>5. ASSUME turn'.step = "generating", Poll \/ \E h \in Hooks : Deliver(h) PROVE FreshJob'
    <2>1. /\ turn' = turn /\ turn # NoTurn /\ status' = status /\ orphaned' = orphaned
      BY <1>5 DEF Poll, ListQueued, ListRunning, PollJob, Deliver, NoTurn, jobVars, history
    <2>2. ~Poll
      BY <2>1 DEF Serial, AtRest, Poll, ListQueued, ListRunning, PollJob, Idle, Listing
    <2>3. PICK h \in Hooks, i \in Jobs : /\ provider[i] \in Terminal /\ StartTask(h, Reported(i), i)
                                         /\ provider' = provider
      BY <1>5, <2>2 DEF Deliver, jobVars
    <2>4. ASSUME NEW j \in Jobs, Fresh(j) PROVE Fresh(j)'
      <3>1. i # j /\ NoJob # j
        BY <2>3, <2>4, JobAssumption DEF Fresh, Terminal
      <3>2. \A d \in Completers : task'[d].job # j
        BY <2>3, <2>4, <3>1 DEF Fresh, On, StartTask, JobTypeOK, Idle
      <3> QED BY <2>1, <2>3, <2>4, <3>2 DEF Fresh, Active, On
    <2> QED BY <2>1, <2>4 DEF FreshJob
  <1>6. ASSUME NEW i \in Jobs, NEW outcome \in Terminal, ProviderEnds(i, outcome) PROVE FreshJob'
    BY <1>6 DEF ProviderEnds, FreshJob, Fresh, Active, On, pollVars, history, JobTypeOK
  <1>7. ASSUME NEW i \in Jobs, cancel_job(i) PROVE FreshJob'
    BY <1>7 DEF cancel_job, FreshJob, Fresh, Active, On, pollVars
  <1>8. ASSUME NEW i \in Jobs, finish_job(i) \/ ForceReclaim(i) PROVE FreshJob'
    <2>1. ASSUME NEW j \in Jobs, Fresh(j), j # i PROVE Fresh(j)'
      BY <1>8, <2>1 DEF finish_job, ForceReclaim, Fresh, Active, On, pollVars, JobTypeOK
    <2>2. turn' = turn /\ orphaned' = orphaned \cup {Art(i)}
      BY <1>8 DEF finish_job, ForceReclaim
    <2> QED BY <2>1, <2>2 DEF FreshJob, Art
  <1>9. ASSUME NEW a \in Artifacts, NEW s \in {"approved", "draft"}, UserSetsStatus(a, s) PROVE FreshJob'
    BY <1>9 DEF UserSetsStatus, FreshJob, Fresh, Active, On, pollVars, history, jobVars
  <1>10. CASE Crash
    BY <1>10 DEF Crash, FreshJob, NoTurn
  <1>11. ASSUME NEW i \in Jobs, LookToFinish(i) \/ LookForStuck(i) PROVE FreshJob'
    BY <1>11 DEF LookToFinish, LookForStuck, FreshJob, Fresh, Active, On, jobVars, pollVars, history
  <1> QED BY <1>1, <1>4, <1>3, <1>5, <1>6, <1>7, <1>8, <1>9, <1>10, <1>11 DEF Next, Outside, Failures

\* A job that stays active and gets no completer about to succeed stays a witness.
LEMMA WitnessKept ==
  ASSUME JobTypeOK, NEW j \in Jobs, Active(j), Untouched(j),
         status'[j] \in Working,
         \A d \in Completers : \/ task'[d] = task[d]
                               \/ task'[d].job # j
                               \/ task'[d].step # "succeed"
  PROVE  Active(j)' /\ Untouched(j)'
  BY DEF Active, Untouched, On, At

\* A step that changes no artifact status, ends no job, and neither starts nor
\* ends a pending status keeps living jobs.
LEMMA QuietStep ==
  ASSUME JobTypeOK, LivingJob,
         \A j \in Jobs : Active(j) => status'[j] \in Working,
         state' = state, orphaned \subseteq orphaned',
         \A d \in Completers :
            \/ task'[d] = task[d]
            \/ /\ task'[d].step # "succeed"
               /\ StatusPending(d) => Art(On(d)) \in orphaned'
  PROVE  LivingJob'
  <1> SUFFICES ASSUME NEW a \in Artifacts, a \notin orphaned', a \notin Unfinished', state'[a] = "generating"
               PROVE  \E j \in Jobs : Art(j) = a /\ Active(j)' /\ Untouched(j)'
    BY DEF LivingJob, Art
  <1>1. a \notin Unfinished
    <2> SUFFICES ASSUME a \in Unfinished PROVE FALSE
      OBVIOUS
    <2>1. PICK d \in Completers : StatusPending(d) /\ Art(On(d)) = a
      BY DEF Unfinished
    <2>2. task'[d] = task[d]
      BY <2>1
    <2> QED BY <2>1, <2>2 DEF Unfinished, StatusPending, On, Art
  <1>2. PICK j \in Jobs : Art(j) = a /\ Active(j) /\ Untouched(j)
    BY <1>1 DEF LivingJob
  <1> QED BY <1>2, WitnessKept

\* A step of completer c keeps the living jobs of all artifacts but its own.
LEMMA OthersKept ==
  ASSUME JobTypeOK, LivingJob, NEW c \in Completers, Complete(c) \/ Raise(c),
         NEW a \in Artifacts, a \notin orphaned', a \notin Unfinished', state'[a] = "generating",
         Art(On(c)) # a
  PROVE  \E j \in Jobs : Art(j) = a /\ Active(j)' /\ Untouched(j)'
  <1>1. /\ On(c) \in Jobs /\ status[On(c)] # "none" /\ Art(On(c)) \in Artifacts
        /\ task'[c] = Idle \/ task'[c].job = On(c)
        /\ \A d \in Completers \ {c} : task'[d] = task[d]
    BY MoveFacts
  <1>2. \A j \in Jobs : j # On(c) => status'[j] = status[j]
    BY <1>1 DEF JobTypeOK, Complete, Raise, jobVars, Submit, StoreId, Check, PutVersion, SetReview, Succeed,
       Announce, FailJob, SetFailed, CancelJob, SetCancelled, Withdraw
  <1>3. a \notin orphaned
    BY DEF Complete, Raise, history, Submit, StoreId, Check, PutVersion, SetReview, Succeed,
       Announce, FailJob, SetFailed, CancelJob, SetCancelled, Withdraw
  <1>4. a \notin Unfinished
    <2> SUFFICES ASSUME NEW d \in Completers, StatusPending(d), Art(On(d)) = a PROVE FALSE
      BY DEF Unfinished
    <2>1. d # c /\ task'[d] = task[d]
      BY <1>1
    <2> QED BY <2>1 DEF Unfinished, StatusPending, On, Art
  <1>5. state[a] = "generating"
    BY <1>1 DEF JobTypeOK, WithStatus, Complete, Raise, jobVars, Submit, StoreId, Check, PutVersion,
       SetReview, Succeed, Announce, FailJob, SetFailed, CancelJob, SetCancelled, Withdraw
  <1>6. PICK j \in Jobs : Art(j) = a /\ Active(j) /\ Untouched(j)
    BY <1>3, <1>4, <1>5 DEF LivingJob
  <1>7. j # On(c) /\ NoJob # j
    BY <1>6, JobAssumption
  <1>8. status'[j] \in Working
    BY <1>2, <1>6, <1>7 DEF Active
  <1>9. \A d \in Completers : task'[d] = task[d] \/ task'[d].job # j
    BY <1>1, <1>7 DEF Idle
  <1> QED BY <1>6, <1>8, <1>9, WitnessKept

LEMMA LivingJobKept == ASSUME JobTypeOK, LivingJob, FreshJob, Next PROVE LivingJob'
  <1>1. ASSUME NEW c \in Completers, Complete(c) \/ Raise(c) PROVE LivingJob'
    <2>1. /\ On(c) \in Jobs /\ status[On(c)] # "none" /\ Art(On(c)) \in Artifacts
          /\ task' \in [Completers -> Tasks]
          /\ task'[c] = Idle \/ task'[c].job = On(c)
          /\ \A d \in Completers \ {c} : task'[d] = task[d]
      BY <1>1, MoveFacts
    <2>2. CASE Submit(c) \/ StoreId(c) \/ Check(c) \/ PutVersion(c) \/ Announce(c) \/ Raise(c)
      <3>1. /\ \A j \in Jobs : Active(j) => status'[j] \in Working
            /\ state' = state /\ orphaned \subseteq orphaned'
        BY <2>1, <2>2 DEF Submit, StoreId, Check, PutVersion, Announce, Raise, jobVars, history, JobTypeOK,
           Active, Working
      <3>2. /\ task'[c].step # "succeed"
            /\ StatusPending(c) => Art(On(c)) \in orphaned'
        BY <2>1, <2>2 DEF Submit, StoreId, Check, PutVersion, Announce, Raise, Goes, StartTask, At, AfterStep,
           ErrorStep, StatusPending, Idle, JobTypeOK
      <3> QED BY <2>1, <3>1, <3>2, QuietStep
    <2>3. CASE Succeed(c)
      <3> SUFFICES ASSUME NEW a \in Artifacts, a \notin orphaned', a \notin Unfinished', state'[a] = "generating"
                   PROVE  \E j \in Jobs : Art(j) = a /\ Active(j)' /\ Untouched(j)'
        BY DEF LivingJob, Art
      <3>1. CASE Art(On(c)) # a
        BY <1>1, <3>1, OthersKept
      <3>2. CASE Art(On(c)) = a
        <4>1. At(c, "succeed") /\ task'[c].step = "announce" /\ state' = state /\ orphaned' = orphaned
          BY <2>1, <2>3 DEF Succeed, Goes, StartTask, AfterStep, history, JobTypeOK
        <4>2. a \notin Unfinished
          BY <2>1, <4>1 DEF Unfinished, StatusPending, At, On, Art
        <4>3. PICK j \in Jobs : Art(j) = a /\ Active(j) /\ Untouched(j)
          BY <4>1, <4>2 DEF LivingJob
        <4>4. j # On(c)
          BY <4>1, <4>3 DEF Untouched
        <4>5. status'[j] \in Working
          BY <2>3, <4>3, <4>4 DEF Succeed, Active, JobTypeOK
        <4> QED BY <2>1, <4>1, <4>3, <4>5, WitnessKept
      <3> QED BY <3>1, <3>2
    <2>4. CASE SetReview(c) \/ FailJob(c) \/ SetFailed(c) \/ CancelJob(c) \/ SetCancelled(c) \/ Withdraw(c)
      <3> SUFFICES ASSUME NEW a \in Artifacts, a \notin orphaned', a \notin Unfinished', state'[a] = "generating"
                   PROVE  Art(On(c)) # a
        BY <1>1, OthersKept DEF LivingJob, Art
      <3> SUFFICES ASSUME Art(On(c)) = a PROVE FALSE
        OBVIOUS
      <3>1. CASE SetReview(c) \/ SetFailed(c) \/ SetCancelled(c)
        BY <3>1 DEF SetReview, SetFailed, SetCancelled, WithStatus, JobTypeOK
      <3>2. CASE FailJob(c) \/ CancelJob(c)
        <4>1. StatusPending(c)' /\ Art(On(c))' = a
          BY <2>1, <3>2 DEF FailJob, CancelJob, Goes, StartTask, StatusPending, On, Art, JobTypeOK
        <4> QED BY <4>1 DEF Unfinished
      <3>3. CASE Withdraw(c)
        BY <3>3 DEF Withdraw
      <3> QED BY <2>4, <3>1, <3>2, <3>3
    <2> QED BY <1>1, <2>2, <2>3, <2>4 DEF Complete
  <1>2. CASE SetGenerating
    <2> SUFFICES ASSUME NEW a \in Artifacts, a \notin orphaned', a \notin Unfinished', state'[a] = "generating"
                 PROVE  \E j \in Jobs : Art(j) = a /\ Active(j)' /\ Untouched(j)'
      BY DEF LivingJob, Art
    <2>1. /\ task' = task /\ status' = status /\ orphaned' = orphaned
          /\ turn.step = "generating"
      BY <1>2 DEF SetGenerating, jobVars, pollVars, history
    <2>2. a \notin Unfinished
      BY <2>1 DEF Unfinished, StatusPending, On, Art
    <2>3. CASE ArtifactOf[turn.request] = a
      <3>1. PICK j \in Jobs : j[1] = turn.request /\ Fresh(j)
        BY <2>1, <2>3 DEF FreshJob
      <3>2. Art(j) = a /\ Active(j) /\ Untouched(j)
        BY <2>3, <3>1 DEF Art, Fresh, Untouched
      <3> QED BY <2>1, <3>2 DEF Active, Untouched, On, At
    <2>4. CASE ArtifactOf[turn.request] # a
      <3>1. state[a] = "generating"
        BY <1>2, <2>4 DEF SetGenerating, JobTypeOK
      <3>2. PICK j \in Jobs : Art(j) = a /\ Active(j) /\ Untouched(j)
        BY <2>1, <2>2, <3>1 DEF LivingJob
      <3> QED BY <2>1, <3>2 DEF Active, Untouched, On, At
    <2> QED BY <2>3, <2>4
  <1>3. CASE (\E r \in Requests : BeginTurn(r)) \/ AskForJob \/ CreateJob \/ Settle \/ WorkerDies
    <2>1. \A j \in Jobs : Active(j) => status'[j] \in Working
      BY <1>3 DEF BeginTurn, AskForJob, CreateJob, Settle, WorkerDies, jobVars, JobTypeOK, Active, Working
    <2>2. state' = state /\ task' = task /\ orphaned' = orphaned
      BY <1>3 DEF BeginTurn, AskForJob, CreateJob, Settle, WorkerDies, pollVars, history
    <2> QED BY <2>1, <2>2, QuietStep
  <1>4. CASE Poll \/ \E h \in Hooks : Deliver(h)
    <2>1. state' = state /\ status' = status /\ orphaned' = orphaned
      BY <1>4 DEF Poll, ListQueued, ListRunning, PollJob, Deliver, jobVars, history
    <2>2. \A d \in Completers : \/ task'[d] = task[d]
                                \/ task'[d].step # "succeed" /\ ~StatusPending(d)
      BY <1>4, PickUp DEF StartTask, JobTypeOK, Idle, Listing, StatusPending
    <2> QED BY <2>1, <2>2, QuietStep DEF Active
  <1>5. CASE (\E j \in Jobs, outcome \in Terminal : ProviderEnds(j, outcome)) \/ \E j \in Jobs : cancel_job(j)
    <2>1. state' = state /\ status' = status /\ orphaned' = orphaned /\ task' = task
      BY <1>5 DEF ProviderEnds, cancel_job, pollVars, history
    <2> QED BY <2>1, QuietStep DEF Active
  <1>6. ASSUME NEW i \in Jobs, finish_job(i) \/ ForceReclaim(i) PROVE LivingJob'
    <2> SUFFICES ASSUME NEW a \in Artifacts, a \notin orphaned', a \notin Unfinished', state'[a] = "generating"
                 PROVE  \E j \in Jobs : Art(j) = a /\ Active(j)' /\ Untouched(j)'
      BY DEF LivingJob, Art
    <2>1. /\ state' = state /\ task' = task /\ orphaned' = orphaned \cup {Art(i)}
          /\ \A j \in Jobs : j # i => status'[j] = status[j]
      BY <1>6 DEF finish_job, ForceReclaim, pollVars, JobTypeOK
    <2>2. a \notin Unfinished
      BY <2>1 DEF Unfinished, StatusPending, On, Art
    <2>3. PICK j \in Jobs : Art(j) = a /\ Active(j) /\ Untouched(j)
      BY <2>1, <2>2 DEF LivingJob
    <2> QED BY <2>1, <2>3 DEF Active, Untouched, On, At
  <1>7. ASSUME NEW b \in Artifacts, NEW s \in {"approved", "draft"}, UserSetsStatus(b, s) PROVE LivingJob'
    <2> SUFFICES ASSUME NEW a \in Artifacts, a \notin orphaned', a \notin Unfinished', state'[a] = "generating"
                 PROVE  \E j \in Jobs : Art(j) = a /\ Active(j)' /\ Untouched(j)'
      BY DEF LivingJob, Art
    <2>1. task' = task /\ orphaned' = orphaned /\ status' = status /\ state[a] = "generating"
      BY <1>7 DEF UserSetsStatus, WithStatus, jobVars, pollVars, history, JobTypeOK
    <2>2. a \notin Unfinished
      BY <2>1 DEF Unfinished, StatusPending, On, Art
    <2>3. PICK j \in Jobs : Art(j) = a /\ Active(j) /\ Untouched(j)
      BY <2>1, <2>2 DEF LivingJob
    <2> QED BY <2>1, <2>3 DEF Active, Untouched, On, At
  <1>8. CASE Crash
    <2>1. /\ state' = state /\ status' = status /\ orphaned \subseteq orphaned'
          /\ Unfinished \subseteq orphaned' /\ \A d \in Completers : task'[d] = Idle
      BY <1>8 DEF Crash, jobVars
    <2> QED BY <2>1, QuietStep DEF Unfinished, Idle, Active
  <1>9. ASSUME NEW i \in Jobs, LookToFinish(i) \/ LookForStuck(i) PROVE LivingJob'
    <2>1. state' = state /\ status' = status /\ orphaned' = orphaned /\ task' = task
      BY <1>9 DEF LookToFinish, LookForStuck, jobVars, pollVars, history
    <2> QED BY <2>1, QuietStep DEF Active
  <1> QED BY <1>1, <1>2, <1>3, <1>4, <1>5, <1>6, <1>7, <1>8, <1>9 DEF Next, Turn, Outside, Failures

-----------------------------------------------------------------------------
(* The theorems *)

\* A generating artifact with a living job is a generating artifact with a job.
LEMMA LivingIsAlive == LivingJob => GeneratingIsAlive
  BY DEF LivingJob, GeneratingIsAlive

LEMMA JobInvInit == Init => JobInv
  <1> SUFFICES ASSUME Init PROVE JobInv
    OBVIOUS
  <1>1. JobTypeOK
    BY JobAssumption DEF Init, JobTypeOK, ArtifactStates, On, NoTurn
  <1>2. OneJobPerRequest /\ SearchMissed /\ Serial /\ CancelSeen /\ VersionFirst /\ LivingJob /\ FreshJob
    BY DEF Init, OneJobPerRequest, JobsOf, SearchMissed, Serial, CancelSeen, CancelInTimeHonoured, VersionFirst, ReportedIsMade,
       LivingJob, FreshJob, NoTurn, Idle
  <1> QED BY <1>1, <1>2 DEF JobInv

\* JobInv is inductive: it holds of every reachable state, whatever faults
\* happen.
THEOREM JobInvHolds == Spec => []JobInv
  <1>1. ASSUME JobInv, [Next]_vars PROVE JobInv'
    <2>1. CASE Next
      BY <1>1, <2>1, TypesKept, OneJobKept, SearchMissedKept, SerialKept, CancelSeenKept, VersionFirstKept,
         LivingJobKept, FreshJobKept DEF JobInv, VersionFirst
    <2>2. CASE UNCHANGED vars
      <3>1. /\ UNCHANGED <<status, cancel, provider, made, announced, state, task, batch, seen>>
            /\ UNCHANGED <<turn, commands, settled, faults, inTime, byHand, orphaned, wavered>>
        BY <2>2 DEF vars, jobVars, pollVars, history
      <3>2. JobTypeOK' /\ OneJobPerRequest' /\ SearchMissed' /\ Serial'
        BY <1>1, <3>1 DEF JobInv, JobTypeOK, On, OneJobPerRequest, JobsOf, SearchMissed, Serial, AtRest
      <3>3. CancelSeen' /\ VersionFirst'
        BY <1>1, <3>1 DEF JobInv, CancelSeen, CancelInTimeHonoured, VersionFirst, ReportedIsMade, On
      <3>4. LivingJob'
        BY <1>1, <3>1, QuietStep DEF JobInv, Active
      <3>5. FreshJob'
        BY <1>1, <3>1 DEF JobInv, FreshJob, Fresh, Active, On
      <3> QED BY <3>2, <3>3, <3>4, <3>5 DEF JobInv
    <2> QED BY <1>1, <2>1, <2>2
  <1> QED BY <1>1, JobInvInit, PTL DEF Spec

\* The tables, completers and turns keep their types.
THEOREM JobTypes == Spec => []JobTypeOK
  <1>1. JobInv => JobTypeOK
    BY DEF JobInv
  <1> QED BY <1>1, JobInvHolds, PTL

\* A regenerate event has at most one job, however often it is delivered, unless its
\* job changed status while the search for it went from one status to the next.
THEOREM NoSecondJob == Spec => []OneJobPerRequest
  <1>1. JobInv => OneJobPerRequest
    BY DEF JobInv
  <1> QED BY <1>1, JobInvHolds, PTL

\* A cancellation requested before any completion and any job-finish command looked
\* for one is final.
THEOREM CancellationFinal == Spec => []CancelInTimeHonoured
  <1>1. JobInv => CancelInTimeHonoured
    BY DEF JobInv, CancelSeen
  <1> QED BY <1>1, JobInvHolds, PTL

\* What a job_done event or a succeeded status reports has been made.
THEOREM ReportsAreTrue == Spec => []ReportedIsMade
  <1>1. JobInv => ReportedIsMade
    BY DEF JobInv, VersionFirst
  <1> QED BY <1>1, JobInvHolds, PTL

\* A generating artifact has an unfinished job, a completer about to set its
\* status, or was left behind by a named fault.
THEOREM GenerationAlive == Spec => []GeneratingIsAlive
  <1>1. JobInv => GeneratingIsAlive
    BY LivingIsAlive DEF JobInv
  <1> QED BY <1>1, JobInvHolds, PTL
=============================================================================
