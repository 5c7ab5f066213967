-------------------------- MODULE GenerationProofs --------------------------
(***************************************************************************)
(* Budgets are kept, and locks, stale marks, cancellations and             *)
(* acknowledgements keep their meaning, for every set of artifacts, every  *)
(* budget and any number of requests, deliveries, polls and failures.      *)
(*                                                                         *)
(* The argument: an event is handed out, and has a job, only when all      *)
(* older ones of its artifact are settled, so that a cancel that is still  *)
(* in the inbox is newer than every job it meets; and what is locked or    *)
(* marked at rest stays at rest, because the handlers that could end that  *)
(* belong to events that are refused or to requests made since.  For the   *)
(* budget, a turn that is past the check and was not overtaken has room    *)
(* for its job, which nothing but another INSERT could take.               *)
(***************************************************************************)
EXTENDS Generation, FiniteSetTheorems, WellFoundedInduction, TLAPS

Steps == {"check", "create", "generating", "draft", "cancel", "done"}
TaskSteps == {"review", "succeed", "failed", "cancelled"}
Shapes == /\ turn \in [Artifacts -> [event : EventIds, step : Steps] \cup {NoTurn}]
          /\ task \in [job : EventIds, step : TaskSteps] \cup {NoTask, Listing}
          /\ command \in [job : EventIds, step : {"finish", "reclaim"}] \cup {NoTask}
          /\ unsent \subseteq EventIds /\ sent \subseteq EventIds

\* An event that is not there yet is blank.
Blank ==
  \A e \in EventIds :
     IF status[e] = "none" THEN request[e].kind = "none" /\ artifact[e] = NoArtifact
                           ELSE request[e].kind \in Kinds /\ artifact[e] \in Artifacts

\* A turn is at a step of the handler of its event, with the effects of the
\* steps before.
MatchesAt(a) ==
  turn[a] # NoTurn =>
     LET e == turn[a].event IN
     /\ turn[a].step \in {"check", "create", "generating"} => request[e].kind = "generate"
     /\ turn[a].step = "draft" => request[e].kind = "reopen"
     /\ turn[a].step = "cancel" => request[e].kind = "cancel"
     /\ turn[a].step = "generating" => job[e] # "none"
     /\ turn[a].step = "done" =>
          /\ request[e].kind = "generate" => job[e] # "none"
          /\ request[e].kind = "cancel" => \E j \in cancel : Later(j, e)
TurnMatches == \A a \in Artifacts : MatchesAt(a)

\* What is handled, and what has a job, has nothing older before it.
OldestFirst ==
  \A d, e \in EventIds :
     Before(d, e) /\ (status[e] = "processing" \/ job[e] # "none") => status[d] \in Settled

SealedAt(a) == a \in sealed => /\ AtRest(a) /\ state[a] # "generating"
                               /\ turn[a].step \notin {"create", "generating"}
SealedRests == \A a \in Artifacts : SealedAt(a)

MarkedAt(a) == a \in marked => /\ AtRest(a) /\ state[a] = "stale"
                               /\ \A e \in OpenEvents(a) : request[e].kind = "cancel"
MarkedRests == \A a \in Artifacts : MarkedAt(a)

GenerationInv == /\ GenerationTypeOK /\ Shapes /\ Blank
                 /\ TurnMatches /\ OldestFirst
                 /\ CancelsOlderOnly /\ AckedHasEffect
                 /\ SealedRests /\ MarkedRests

LEMMA EventFacts == /\ EventIds \subseteq Int /\ 0 \notin EventIds
                    /\ \A d, e \in EventIds : d < e \/ d = e \/ e < d
BY GenerationAssumption DEF EventIds

LEMMA TurnFacts ==
  ASSUME GenerationInv, NEW a \in Artifacts, turn[a] # NoTurn
  PROVE  /\ turn[a].event \in EventIds /\ turn[a].step \in Steps
         /\ artifact[turn[a].event] = a /\ status[turn[a].event] = "processing"
         /\ turn[a] = [event |-> turn[a].event, step |-> turn[a].step]
         /\ turn[a].event \in OpenEvents(a)
<1>1. turn[a] \in [event : EventIds, step : Steps]
  BY DEF GenerationInv, Shapes
<1>2. artifact[turn[a].event] = a /\ status[turn[a].event] = "processing"
  BY DEF GenerationInv, GenerationTypeOK
<1> QED
  BY <1>1, <1>2 DEF OpenEvents, Art

LEMMA AtStepFacts ==
  ASSUME NEW a \in Artifacts, NEW s \in Steps, AtStep(a, s)
  PROVE  turn[a] # NoTurn
BY DEF AtStep, NoTurn, Steps

\* What a step of a turn leaves of the other turns.
LEMMA GoesFacts ==
  ASSUME GenerationInv, NEW a \in Artifacts, NEW s \in Steps, NEW t \in Steps, Goes(a, s, t)
  PROVE  /\ turn[a] # NoTurn
         /\ turn' = [turn EXCEPT ![a] = [event |-> turn[a].event, step |-> t]]
         /\ turn' \in [Artifacts -> [event : EventIds, step : Steps] \cup {NoTurn}]
         /\ turn'[a].event = turn[a].event /\ turn'[a].step = t /\ turn'[a] # NoTurn
         /\ \A b \in Artifacts : b # a => turn'[b] = turn[b]
<1>1. turn[a] # NoTurn /\ turn' = [turn EXCEPT ![a].step = t]
  BY AtStepFacts DEF Goes
<1>2. turn[a].event \in EventIds /\ turn[a] = [event |-> turn[a].event, step |-> turn[a].step]
  BY <1>1, TurnFacts
<1>3. turn \in [Artifacts -> [event : EventIds, step : Steps] \cup {NoTurn}]
  BY DEF GenerationInv, Shapes
<1>4. turn'[a] = [event |-> turn[a].event, step |-> t] /\ \A b \in Artifacts : b # a => turn'[b] = turn[b]
  BY <1>1, <1>2, <1>3
<1> QED
  BY <1>1, <1>2, <1>3, <1>4, EventFacts DEF NoTurn

LEMMA InitInv == GenerationInit => GenerationInv
<1> SUFFICES ASSUME GenerationInit
             PROVE  GenerationInv
  OBVIOUS
<1> USE DEF GenerationInit, QueueInit
<1>1. GenerationTypeOK
  BY GenerationAssumption DEF GenerationTypeOK, Statuses, NoRequest, NoTask, ArtifactStates
<1>2. Shapes /\ Blank /\ TurnMatches
  BY DEF Shapes, Blank, NoRequest, TurnMatches, MatchesAt
<1>3. OldestFirst /\ CancelsOlderOnly /\ AckedHasEffect
  BY DEF OldestFirst, CancelsOlderOnly, AckedHasEffect
<1>4. SealedRests /\ MarkedRests
  BY DEF SealedRests, SealedAt, MarkedRests, MarkedAt
<1> QED
  BY <1>1, <1>2, <1>3, <1>4 DEF GenerationInv
-----------------------------------------------------------------------------
\* The poller and the commands beside it move on what is at hand, set the status
\* of its artifact, and take up nothing that is at rest.
PollStep ==
  /\ UNCHANGED <<queueVars, request, cancel, locked, turn, raced, sealed, marked>>
  /\ touches' \in 0..MaxTouches
  /\ job' \in [EventIds -> {"none", "queued", "running", "succeeded", "failed", "cancelled"}]
  /\ \A j \in EventIds : /\ job'[j] = "none" <=> job[j] = "none"
                         /\ AtHand(j)' => AtHand(j)
                         /\ \/ j \in unsent' \/ j \in sent' \/ task'.job = j \/ command'.job = j
                            => job[j] # "none"
  /\ revived' \subseteq EventIds
  /\ state' \in [Artifacts -> ArtifactStates]
  /\ \A a \in Artifacts : AtRest(a) => state'[a] = state[a]
  /\ Shapes'

LEMMA PollStepKeepsInv ==
  ASSUME GenerationInv, PollStep
  PROVE  GenerationInv'
<1> USE DEF GenerationInv
<1>1. UNCHANGED <<status, artifact, request, cancel, locked, turn, raced, sealed, marked>>
  BY DEF PollStep, queueVars
<1>2. \A j \in EventIds : job'[j] = "none" <=> job[j] = "none"
  BY DEF PollStep
<1>3. GenerationTypeOK'
  <2>1. \A j \in unsent' \cup sent' \cup {task'.job, command'.job} : j \in EventIds \cup {0}
    BY DEF PollStep, Shapes, NoTask, Listing
  <2>2. \A j \in unsent' \cup sent' \cup {task'.job, command'.job} : j = 0 \/ job'[j] # "none"
    BY <1>2, <2>1 DEF PollStep
  <2> QED
    BY <1>1, <1>2, <2>2 DEF GenerationTypeOK, PollStep
<1>4. Shapes' /\ Blank'
  BY <1>1 DEF Blank, PollStep
<1>5. TurnMatches'
  <2> SUFFICES ASSUME NEW a \in Artifacts, turn[a] # NoTurn
               PROVE  MatchesAt(a)'
    BY <1>1 DEF TurnMatches, MatchesAt
  <2>1. turn[a].event \in EventIds
    BY TurnFacts
  <2> QED
    BY <1>1, <1>2, <2>1 DEF TurnMatches, MatchesAt, Later, Art
<1>6. OldestFirst' /\ CancelsOlderOnly' /\ AckedHasEffect'
  BY <1>1, <1>2 DEF OldestFirst, Before, CancelsOlderOnly, AckedHasEffect, Later, Art
<1>7. \A a \in Artifacts : AtRest(a) => AtRest(a)' /\ state'[a] = state[a]
  BY <1>1 DEF AtRest, Art, PollStep
<1>8. SealedRests'
  BY <1>1, <1>7 DEF SealedRests, SealedAt
<1>9. MarkedRests'
  BY <1>1, <1>7 DEF MarkedRests, MarkedAt, OpenEvents, Art
<1> QED
  BY <1>3, <1>4, <1>5, <1>6, <1>8, <1>9

\* What an UPDATE of a job changes.
LEMMA JobBecomesFacts ==
  ASSUME GenerationInv, NEW j \in EventIds, job[j] # "none",
         NEW s \in {"running", "succeeded", "failed", "cancelled"}, JobBecomes(j, s)
  PROVE  /\ UNCHANGED <<queueVars, request, cancel, state, locked, turn, touches, raced, sealed, marked>>
         /\ job' \in [EventIds -> {"none", "queued", "running", "succeeded", "failed", "cancelled"}]
         /\ job'[j] = s /\ \A k \in EventIds : k # j => job'[k] = job[k]
         /\ revived' \subseteq EventIds
BY DEF JobBecomes, GenerationInv, GenerationTypeOK

LEMMA TaskFacts ==
  ASSUME GenerationInv, task.step \in TaskSteps
  PROVE  /\ task \in [job : EventIds, step : TaskSteps]
         /\ task.job \in EventIds /\ job[task.job] # "none" /\ AtHand(task.job)
<1>1. task \in [job : EventIds, step : TaskSteps]
  BY DEF GenerationInv, Shapes, NoTask, Listing, TaskSteps
<1>2. task.job = 0 \/ job[task.job] # "none"
  BY DEF GenerationInv, GenerationTypeOK
<1> QED
  BY <1>1, <1>2, EventFacts DEF AtHand

LEMMA CommandFacts ==
  ASSUME GenerationInv, command.step \in {"finish", "reclaim"}
  PROVE  command.job \in EventIds /\ job[command.job] # "none"
<1>1. command \in [job : EventIds, step : {"finish", "reclaim"}]
  BY DEF GenerationInv, Shapes, NoTask
<1>2. command.job = 0 \/ job[command.job] # "none"
  BY DEF GenerationInv, GenerationTypeOK
<1> QED
  BY <1>1, <1>2, EventFacts

\* What is listed, completed or looked at exists.
LEMMA ListFacts ==
  ASSUME GenerationInv, NEW j \in EventIds,
         j \in unsent \/ j \in sent \/ task.job = j \/ command.job = j
  PROVE  job[j] # "none"
BY EventFacts DEF GenerationInv, GenerationTypeOK

\* An UPDATE of a job that is at hand, or that ends it, is a step of the poller.
LEMMA UpdatesArePollSteps ==
  ASSUME GenerationInv, NEW j \in EventIds, job[j] # "none",
         NEW s \in {"running", "succeeded", "failed", "cancelled"}, JobBecomes(j, s),
         s = "running" => AtHand(j),
         unsent' \subseteq unsent, sent' \subseteq sent,
         \/ task' = task \/ task' = NoTask
         \/ AtHand(j) /\ task' \in [job : {j}, step : TaskSteps],
         command' \in {command, NoTask}
  PROVE  PollStep
<1>1. /\ UNCHANGED <<queueVars, request, cancel, state, locked, turn, touches, raced, sealed, marked>>
      /\ job' \in [EventIds -> {"none", "queued", "running", "succeeded", "failed", "cancelled"}]
      /\ job'[j] = s /\ \A k \in EventIds : k # j => job'[k] = job[k]
      /\ revived' \subseteq EventIds
  BY JobBecomesFacts
<1>2. touches' \in 0..MaxTouches /\ state' \in [Artifacts -> ArtifactStates]
  BY <1>1 DEF GenerationInv, GenerationTypeOK
<1>3. Shapes'
  BY <1>1 DEF GenerationInv, Shapes
<1>4. ASSUME NEW k \in EventIds
      PROVE  /\ job'[k] = "none" <=> job[k] = "none"
             /\ AtHand(k)' => AtHand(k)
             /\ \/ k \in unsent' \/ k \in sent' \/ task'.job = k \/ command'.job = k
                => job[k] # "none"
  <2>1. job'[k] = "none" <=> job[k] = "none"
    BY <1>1
  <2>2. task'.job = k => task.job = k \/ (k = j /\ AtHand(j))
    BY EventFacts DEF NoTask
  <2>3. job'[k] \in Unfinished => job[k] \in Unfinished \/ (k = j /\ AtHand(j))
    BY <1>1 DEF Unfinished
  <2>4. command'.job = k => command.job = k
    BY EventFacts DEF NoTask
  <2> QED
    BY <2>1, <2>2, <2>3, <2>4, ListFacts DEF AtHand
<1> QED
  BY <1>1, <1>2, <1>3, <1>4 DEF PollStep

\* A step that leaves the jobs is a step of the poller, when what it takes up is
\* at hand.
LEMMA ReadsArePollSteps ==
  ASSUME GenerationInv, Shapes',
         UNCHANGED <<queueVars, request, job, cancel, locked, turn, raced, revived, sealed, marked>>,
         touches' \in 0..MaxTouches,
         \A j \in EventIds : /\ j \in unsent' \/ j \in sent' \/ task'.job = j => AtHand(j)
                             /\ command'.job = j => command.job = j \/ job[j] # "none",
         state' \in [Artifacts -> ArtifactStates],
         \A a \in Artifacts : AtRest(a) => state'[a] = state[a]
  PROVE  PollStep
<1>1. ASSUME NEW j \in EventIds
      PROVE  /\ AtHand(j)' => AtHand(j)
             /\ AtHand(j) => job[j] # "none"
             /\ command'.job = j => job[j] # "none"
  BY <1>1, ListFacts DEF AtHand, Unfinished
<1> QED
  BY <1>1 DEF PollStep, GenerationInv, GenerationTypeOK

LEMMA PollsArePollSteps ==
  ASSUME GenerationInv, Polls
  PROVE  PollStep
<1> USE DEF queueVars, tables, history
<1>1. /\ job \in [EventIds -> {"none", "queued", "running", "succeeded", "failed", "cancelled"}]
      /\ state \in [Artifacts -> ArtifactStates] /\ revived \subseteq EventIds
      /\ touches \in 0..MaxTouches /\ Shapes
  BY DEF GenerationInv, GenerationTypeOK
<1>2. CASE ListQueued \/ ListRunning
  <2>1. /\ UNCHANGED <<queueVars, request, job, cancel, state, locked, turn, touches, command,
                       raced, revived, sealed, marked>>
        /\ unsent' \in {unsent, Listed("queued")} /\ sent' \in {sent, Listed("running")}
        /\ task' \in {Listing, NoTask}
    BY <1>2 DEF ListQueued, ListRunning
  <2>2. \A j \in EventIds : j \in unsent' \/ j \in sent' \/ task'.job = j => AtHand(j)
    BY <2>1, EventFacts DEF Listed, AtHand, Unfinished, Listing, NoTask
  <2>3. Shapes'
    BY <1>1, <2>1 DEF Shapes, Listed
  <2> QED
    BY <1>1, <2>1, <2>2, <2>3, ReadsArePollSteps
<1>3. ASSUME NEW j \in EventIds, Collect(j) \/ Pass(j)
      PROVE  PollStep
  <2>1. /\ UNCHANGED <<queueVars, request, job, cancel, state, locked, turn, touches, command,
                       raced, revived, sealed, marked>>
        /\ unsent' \subseteq unsent /\ sent' \subseteq sent /\ AtHand(j)
        /\ task' \in {task, [job |-> j, step |-> "review"]}
    BY <1>3 DEF Collect, Pass, Look, Takes, AtHand
  <2>2. \A k \in EventIds : k \in unsent' \/ k \in sent' \/ task'.job = k => AtHand(k)
    BY <2>1 DEF AtHand
  <2>3. Shapes'
    BY <1>1, <2>1 DEF Shapes, TaskSteps
  <2> QED
    BY <1>1, <2>1, <2>2, <2>3, ReadsArePollSteps
<1>4. ASSUME NEW j \in EventIds, SubmitJob(j) \/ FailJob(j) \/ WithdrawJob(j) \/ CancelJob(j)
      PROVE  PollStep
  <2>1. /\ AtHand(j) /\ unsent' \subseteq unsent /\ sent' \subseteq sent /\ command' = command
        /\ task' = task \/ task' \in [job : {j}, step : TaskSteps]
        /\ \E s \in {"running", "succeeded", "failed", "cancelled"} : JobBecomes(j, s)
    BY <1>4 DEF SubmitJob, FailJob, WithdrawJob, CancelJob, Look, AtHand, Takes, TaskSteps
  <2>2. job[j] # "none"
    BY <1>4, ListFacts DEF SubmitJob, FailJob, WithdrawJob, CancelJob, Look
  <2> QED
    BY <2>1, <2>2, UpdatesArePollSteps
<1>5. CASE SetReview \/ SetFailed \/ SetCancelled
  <2>1. PICK s \in {"review", "failed", "cancelled"} :
           /\ state' = [state EXCEPT ![Art(task.job)] = s]
           /\ UNCHANGED <<queueVars, request, job, cancel, locked, turn, touches, unsent, sent, command, history>>
    BY <1>5 DEF SetReview, SetFailed, SetCancelled, SetStatus
  <2>2. task.step \in TaskSteps /\ task' \in {NoTask, [job |-> task.job, step |-> "succeed"]}
    BY <1>5 DEF SetReview, SetFailed, SetCancelled, SetStatus, Takes, TaskSteps
  <2>3. task.job \in EventIds /\ AtHand(task.job)
    BY <2>2, TaskFacts
  <2>4. state' \in [Artifacts -> ArtifactStates]
    BY <1>1, <2>1 DEF ArtifactStates
  <2>5. \A a \in Artifacts : AtRest(a) => state'[a] = state[a]
    BY <1>1, <2>1, <2>3 DEF AtRest
  <2>6. Shapes'
    BY <1>1, <2>1, <2>2, <2>3 DEF Shapes, TaskSteps
  <2>7. \A j \in EventIds : j \in unsent' \/ j \in sent' \/ task'.job = j => AtHand(j)
    BY <2>1, <2>2, <2>3, EventFacts DEF AtHand, NoTask
  <2> QED
    BY <1>1, <2>1, <2>4, <2>5, <2>6, <2>7, ReadsArePollSteps
<1>6. CASE Succeed \/ Raise
  <2>1. task.step \in TaskSteps /\ UNCHANGED <<unsent, sent, command>>
    BY <1>6 DEF Succeed, Raise, TaskSteps
  <2>2. \E s \in {"running", "succeeded", "failed", "cancelled"} : s # "running" /\ JobBecomes(task.job, s)
    BY <1>6 DEF Succeed, Raise
  <2>3. task.job \in EventIds /\ job[task.job] # "none" /\ AtHand(task.job)
    BY <2>1, TaskFacts
  <2>4. task' = NoTask \/ task' \in [job : {task.job}, step : TaskSteps]
    BY <1>6 DEF Succeed, Raise, Takes, TaskSteps
  <2> QED
    BY <2>1, <2>2, <2>3, <2>4, UpdatesArePollSteps
<1>7. CASE Crash
  <2>1. Shapes'
    BY <1>1, <1>7 DEF Crash, Shapes
  <2>2. \A j \in EventIds : ~(j \in unsent' \/ j \in sent' \/ task'.job = j)
    BY <1>7, EventFacts DEF Crash, NoTask
  <2> QED
    BY <1>1, <1>7, <2>1, <2>2, ReadsArePollSteps DEF Crash
<1> QED
  BY <1>2, <1>3, <1>4, <1>5, <1>6, <1>7 DEF Polls

LEMMA CommandsArePollSteps ==
  ASSUME GenerationInv, Commands
  PROVE  PollStep
<1> USE DEF queueVars, tables, history, poll
<1>1. /\ state \in [Artifacts -> ArtifactStates] /\ touches \in 0..MaxTouches /\ Shapes
  BY DEF GenerationInv, GenerationTypeOK
<1>2. ASSUME NEW j \in EventIds, LookToFinish(j) \/ LookForStuck(j)
      PROVE  PollStep
  <2>1. /\ UNCHANGED <<queueVars, request, job, cancel, state, locked, turn, unsent, sent, task,
                       raced, revived, sealed, marked>>
        /\ job[j] # "none" /\ command' \in [job : {j}, step : {"finish", "reclaim"}]
        /\ touches < MaxTouches /\ touches' = touches + 1
    BY <1>2 DEF LookToFinish, LookForStuck, Touch, Unfinished
  <2>2. touches' \in 0..MaxTouches
    BY <1>1, <2>1, GenerationAssumption
  <2>3. Shapes'
    BY <1>1, <2>1 DEF Shapes
  <2> QED
    BY <1>1, <2>1, <2>2, <2>3, ReadsArePollSteps DEF AtHand
<1>3. CASE FinishJob \/ ForceReclaim
  <2>1. command.step \in {"finish", "reclaim"} /\ command' = NoTask /\ UNCHANGED <<unsent, sent, task>>
    BY <1>3 DEF FinishJob, ForceReclaim, Executes
  <2>2. \E s \in {"running", "succeeded", "failed", "cancelled"} : s # "running" /\ JobBecomes(command.job, s)
    BY <1>3 DEF FinishJob, ForceReclaim, Executes
  <2>3. command.job \in EventIds /\ job[command.job] # "none"
    BY <2>1, CommandFacts
  <2> QED
    BY <2>1, <2>2, <2>3, UpdatesArePollSteps
<1> QED
  BY <1>2, <1>3 DEF Commands
-----------------------------------------------------------------------------
\* The board.
BoardStep == \E a \in Artifacts : Approve(a) \/ Lock(a) \/ Unlock(a)

LEMMA BoardStepKeepsInv ==
  ASSUME GenerationInv, BoardStep \/ SelectSource
  PROVE  GenerationInv'
<1> USE DEF GenerationInv
<1>1. UNCHANGED <<status, artifact, request, job, cancel, turn, unsent, sent, task, command, raced, revived>>
  BY DEF BoardStep, Approve, Lock, Unlock, SelectSource, queueVars, poll
<1>2. Shapes' /\ Blank' /\ OldestFirst' /\ CancelsOlderOnly' /\ AckedHasEffect'
  BY <1>1 DEF Shapes, Blank, OldestFirst, Before, CancelsOlderOnly, AckedHasEffect, Later, Art
<1>3. TurnMatches'
  BY <1>1 DEF TurnMatches, MatchesAt, Later, Art
<1>4. \A b \in Artifacts : AtRest(b)' = AtRest(b) /\ OpenEvents(b)' = OpenEvents(b)
  BY <1>1 DEF AtRest, AtHand, OpenEvents, Art
<1>5. GenerationTypeOK'
  <2>1. touches' \in 0..MaxTouches
    BY GenerationAssumption
    DEF GenerationTypeOK, BoardStep, Approve, Lock, Unlock, SelectSource, Touch
  <2>2. state' \in [Artifacts -> ArtifactStates]
    BY DEF GenerationTypeOK, BoardStep, Approve, Lock, Unlock, SelectSource, ArtifactStates
  <2>3. sealed' \subseteq locked' /\ locked' \subseteq Artifacts /\ marked' \subseteq Artifacts
    BY DEF GenerationTypeOK, BoardStep, Approve, Lock, Unlock, SelectSource
  <2> QED
    BY <1>1, <2>1, <2>2, <2>3 DEF GenerationTypeOK
<1>6. SealedRests'
  <2> SUFFICES ASSUME NEW b \in Artifacts, b \in sealed'
               PROVE  SealedAt(b)'
    BY DEF SealedRests, SealedAt
  <2>1. state'[b] = state[b] \/ state'[b] \in {"approved", "stale"}
    BY DEF BoardStep, Approve, Lock, Unlock, SelectSource, GenerationTypeOK
  <2>2. b \in sealed \/ /\ AtRest(b) /\ state[b] # "generating"
                        /\ turn[b].step \notin {"create", "generating"}
    BY DEF BoardStep, Approve, Lock, Unlock, SelectSource
  <2> QED
    BY <1>1, <1>4, <2>1, <2>2 DEF SealedRests, SealedAt
<1>7. MarkedRests'
  <2> SUFFICES ASSUME NEW b \in Artifacts, b \in marked'
               PROVE  MarkedAt(b)'
    BY DEF MarkedRests, MarkedAt
  <2>1. state'[b] = state[b] \/ state'[b] = "stale"
    BY DEF BoardStep, Approve, Lock, Unlock, SelectSource, GenerationTypeOK
  <2>2. b \in marked \/ (AtRest(b) /\ OpenEvents(b) = {} /\ state'[b] = "stale")
    BY DEF BoardStep, Approve, Lock, Unlock, SelectSource
  <2> QED
    BY <1>1, <1>4, <2>1, <2>2 DEF MarkedRests, MarkedAt
<1> QED
  BY <1>2, <1>3, <1>5, <1>6, <1>7
-----------------------------------------------------------------------------
\* The inbox and the supervisor settle, return and hand out events, and begin
\* and end turns.
QueueStep ==
  /\ UNCHANGED <<artifact, request, job, cancel, state, locked, touches, unsent, sent, task, command, history>>
  /\ status' \in [EventIds -> Statuses]
  /\ turn' \in [Artifacts -> [event : EventIds, step : Steps] \cup {NoTurn}]
  /\ \A e \in EventIds :
       /\ status'[e] = "none" <=> status[e] = "none"
       /\ status[e] \in Settled => status'[e] \in Settled
       /\ status'[e] = "processing" =>
            status[e] = "processing" \/ \A d \in EventIds : Before(d, e) => status[d] \in Settled
       /\ status'[e] = "acked" =>
            status[e] = "acked" \/ \E a \in Artifacts : turn[a].step = "done" /\ turn[a].event = e
  /\ \A a \in Artifacts :
       \/ turn'[a] = NoTurn
       \/ turn'[a] = turn[a] /\ status'[turn[a].event] = "processing"
       \/ \E e \in EventIds : /\ artifact[e] = a /\ status'[e] = "processing"
                              /\ turn'[a] = [event |-> e, step |-> FirstStep[request[e].kind]]

LEMMA QueueStepKeepsInv ==
  ASSUME GenerationInv, QueueStep
  PROVE  GenerationInv'
<1> USE DEF GenerationInv
<1>1. UNCHANGED <<artifact, request, job, cancel, state, locked, touches, unsent, sent, task, command,
                  raced, revived, sealed, marked>>
  BY DEF QueueStep, history
<1>2. \A e \in EventIds : /\ status'[e] = "none" <=> status[e] = "none"
                          /\ status[e] \in Settled => status'[e] \in Settled
  BY DEF QueueStep
<1>3. Shapes' /\ Blank'
  BY <1>1, <1>2 DEF Shapes, Blank, QueueStep
<1>4. ASSUME NEW a \in Artifacts, turn'[a] # NoTurn
      PROVE  /\ turn'[a].event \in EventIds /\ artifact[turn'[a].event] = a
             /\ status'[turn'[a].event] = "processing"
             /\ turn'[a] = turn[a] \/ /\ turn'[a].step \in {"check", "draft", "cancel"}
                                      /\ turn'[a].step = "check" => request[turn'[a].event].kind = "generate"
                                      /\ turn'[a].step = "draft" => request[turn'[a].event].kind = "reopen"
                                      /\ turn'[a].step = "cancel" => request[turn'[a].event].kind = "cancel"
  <2>1. CASE turn'[a] = turn[a] /\ status'[turn[a].event] = "processing"
    BY <1>4, <2>1, TurnFacts
  <2>2. ASSUME NEW e \in EventIds, artifact[e] = a, status'[e] = "processing",
               turn'[a] = [event |-> e, step |-> FirstStep[request[e].kind]]
        PROVE  /\ turn'[a].event = e /\ turn'[a].step = FirstStep[request[e].kind]
               /\ request[e].kind \in Kinds
    BY <1>2, <2>2 DEF Blank
  <2>3. /\ FirstStep["generate"] = "check" /\ FirstStep["reopen"] = "draft"
        /\ FirstStep["cancel"] = "cancel"
    BY DEF FirstStep
  <2> QED
    BY <1>4, <2>1, <2>2, <2>3 DEF QueueStep, Kinds
<1>5. GenerationTypeOK'
  <2>1. \A a \in Artifacts : turn'[a] = NoTurn \/ /\ artifact[turn'[a].event] = a
                                                  /\ status'[turn'[a].event] = "processing"
    BY <1>4
  <2>2. status' \in [EventIds -> Statuses]
    BY DEF QueueStep
  <2> QED
    BY <1>1, <2>1, <2>2 DEF GenerationTypeOK
<1>6. TurnMatches'
  <2> SUFFICES ASSUME NEW a \in Artifacts, turn'[a] # NoTurn
               PROVE  MatchesAt(a)'
    BY DEF TurnMatches, MatchesAt
  <2>1. CASE turn'[a] = turn[a]
    BY <1>1, <2>1 DEF TurnMatches, MatchesAt, Later, Art
  <2>2. CASE turn'[a] # turn[a]
    BY <1>1, <1>4, <2>2 DEF MatchesAt
  <2> QED
    BY <2>1, <2>2
<1>7. OldestFirst'
  <2> SUFFICES ASSUME NEW d \in EventIds, NEW e \in EventIds, Before(d, e),
                      status'[e] = "processing" \/ job[e] # "none"
               PROVE  status[d] \in Settled
    BY <1>1, <1>2 DEF OldestFirst, Before
  <2> QED
    BY DEF OldestFirst, QueueStep
<1>8. CancelsOlderOnly'
  BY <1>1 DEF CancelsOlderOnly, Later, Art
<1>9. AckedHasEffect'
  <2> SUFFICES ASSUME NEW e \in EventIds, status'[e] = "acked"
               PROVE  /\ request[e].kind = "generate" => job[e] # "none"
                      /\ request[e].kind = "cancel" => \E j \in cancel : Later(j, e)
    BY <1>1 DEF AckedHasEffect, Later, Art
  <2>1. CASE status[e] = "acked"
    BY <2>1 DEF AckedHasEffect
  <2>2. ASSUME NEW a \in Artifacts, turn[a].step = "done", turn[a].event = e
        PROVE  /\ request[e].kind = "generate" => job[e] # "none"
               /\ request[e].kind = "cancel" => \E j \in cancel : Later(j, e)
    BY <2>2 DEF TurnMatches, MatchesAt, NoTurn
  <2> QED
    BY <2>1, <2>2 DEF QueueStep
<1>10. \A a \in Artifacts : AtRest(a)' = AtRest(a)
  BY <1>1 DEF AtRest, AtHand, Art
<1>11. SealedRests'
  <2>1. \A a \in Artifacts : turn'[a].step \in {"create", "generating"} => turn'[a] = turn[a]
    BY <1>4 DEF NoTurn
  <2> QED
    BY <1>1, <1>10, <2>1 DEF SealedRests, SealedAt
<1>12. MarkedRests'
  <2>1. \A e \in EventIds : status'[e] \in {"pending", "processing"} =>
                            status[e] \in {"pending", "processing"}
    BY <1>2 DEF GenerationTypeOK, QueueStep, Statuses, Active, Settled
  <2> QED
    BY <1>1, <1>10, <2>1 DEF MarkedRests, MarkedAt, OpenEvents, Art
<1> QED
  BY <1>3, <1>5, <1>6, <1>7, <1>8, <1>9, <1>11, <1>12

LEMMA EndedFacts ==
  ASSUME GenerationInv, NEW a \in Artifacts, turn' = Ended(a)
  PROVE  /\ turn' \in [Artifacts -> [event : EventIds, step : Steps] \cup {NoTurn}]
         /\ turn'[a] = NoTurn /\ \A b \in Artifacts : b # a => turn'[b] = turn[b]
BY DEF GenerationInv, Shapes, Ended

LEMMA SupervisorsAreQueueSteps ==
  ASSUME GenerationInv, \/ \E e \in EventIds : Deliver(e)
                        \/ \E a \in Artifacts : Stop(a) \/ GiveUp(a) \/ Answer(a)
  PROVE  QueueStep
<1> USE DEF queueVars, tables, poll
<1>1. /\ status \in [EventIds -> Statuses]
      /\ turn \in [Artifacts -> [event : EventIds, step : Steps] \cup {NoTurn}]
  BY DEF GenerationInv, GenerationTypeOK, Shapes
<1>2. \A b \in Artifacts : turn[b] # NoTurn =>
         turn[b].event \in EventIds /\ status[turn[b].event] = "processing" /\ artifact[turn[b].event] = b
  BY TurnFacts
<1>3. ASSUME NEW e \in EventIds, Deliver(e)
      PROVE  QueueStep
  <2>1. PICK S \in SUBSET {d \in InProcess : ~HasTurn(d)} : HandOut(S, e)
    BY <1>3 DEF Deliver
  <2>2. /\ Art(e) \in Artifacts
        /\ turn' = [turn EXCEPT ![Art(e)] = [event |-> e, step |-> FirstStep[request[e].kind]]]
        /\ UNCHANGED <<artifact, request, job, cancel, state, locked, touches, unsent, sent, task, command, history>>
    BY <1>3, <2>1 DEF Deliver, HandOut
  <2>3. Returned(S) \in [EventIds -> Statuses]
    BY <1>1 DEF Returned, Statuses, Active
  <2>4. /\ status' = [Returned(S) EXCEPT ![e] = "processing"]
        /\ Returned(S)[e] = "pending"
        /\ \A d \in EventIds : Before(d, e) => status[d] \in Settled
    <3>1. \A d \in EventIds : Before(d, e) => status[d] # "none"
      BY GenerationAssumption DEF Before, GenerationInv, Blank
    <3>2. \A d \in EventIds : Before(d, e) => status[d] \notin Active
      BY <2>1 DEF HandOut
    <3> QED
      BY <1>1, <2>1, <3>1, <3>2 DEF HandOut, Statuses
  <2>5. \A d \in EventIds : /\ d \in S => status[d] = "processing" /\ Returned(S)[d] = "pending"
                            /\ d \notin S => Returned(S)[d] = status[d]
    BY DEF Returned, InProcess
  <2>6. status' \in [EventIds -> Statuses]
    BY <2>3, <2>4 DEF Statuses, Active
  <2>7. \A d \in EventIds : d # e => status'[d] = Returned(S)[d]
    BY <2>3, <2>4
  <2>8. status'[e] = "processing" /\ status[e] \in {"pending", "processing"}
    BY <2>3, <2>4, <2>5
  <2>9. request[e].kind \in Kinds
    BY <2>8 DEF GenerationInv, Blank
  <2>10. FirstStep[request[e].kind] \in Steps
    BY <2>9 DEF FirstStep, Kinds, Steps
  <2>11. \A d \in EventIds :
           /\ status'[d] = "none" <=> status[d] = "none"
           /\ status[d] \in Settled => status'[d] \in Settled
           /\ status'[d] = "processing" => status[d] = "processing" \/ d = e
           /\ status'[d] = "acked" => status[d] = "acked"
    BY <2>5, <2>7, <2>8 DEF Settled
  <2>12. \A b \in Artifacts : b # artifact[e] =>
            turn'[b] = turn[b] /\ (turn[b] # NoTurn => status'[turn[b].event] = "processing")
    <3>1. \A b \in Artifacts : b # artifact[e] => turn'[b] = turn[b]
      BY <1>1, <2>2 DEF Art
    <3>2. ASSUME NEW b \in Artifacts, b # artifact[e], turn[b] # NoTurn
          PROVE  status'[turn[b].event] = "processing"
      <4>1. turn[b].event \in EventIds \ S /\ turn[b].event # e
        BY <1>2, <3>2 DEF HasTurn
      <4> QED
        BY <1>2, <2>5, <2>7, <3>2, <4>1
    <3> QED
      BY <3>1, <3>2
  <2>13. turn'[artifact[e]] = [event |-> e, step |-> FirstStep[request[e].kind]]
    BY <1>1, <2>2 DEF Art
  <2>14. turn' \in [Artifacts -> [event : EventIds, step : Steps] \cup {NoTurn}]
    BY <1>1, <2>2, <2>10 DEF Art
  <2> QED
    BY <2>2, <2>4, <2>6, <2>8, <2>11, <2>12, <2>13, <2>14 DEF QueueStep
<1>4. ASSUME NEW a \in Artifacts, Stop(a)
      PROVE  QueueStep
  BY <1>1, <1>2, <1>4, EndedFacts DEF Stop, QueueStep, history
<1>5. ASSUME NEW a \in Artifacts, NEW outcome \in Settled, turn[a] # NoTurn, Over(a, outcome),
             outcome = "acked" => turn[a].step = "done"
      PROVE  QueueStep
  <2>1. /\ status' = [status EXCEPT ![turn[a].event] = outcome] /\ turn' = Ended(a)
        /\ UNCHANGED <<artifact, request, job, cancel, state, locked, touches, unsent, sent, task, command, history>>
    BY <1>5 DEF Over, Settle
  <2>2. turn[a].event \in EventIds /\ status[turn[a].event] = "processing"
    BY <1>2, <1>5
  <2>3. status' \in [EventIds -> Statuses]
    BY <1>1, <2>1 DEF Statuses
  <2>4. status'[turn[a].event] = outcome /\ \A d \in EventIds : d # turn[a].event => status'[d] = status[d]
    BY <1>1, <2>1, <2>2
  <2>5. \A b \in Artifacts : b # a => turn'[b] = turn[b] /\ (turn[b] # NoTurn => status'[turn[b].event] = "processing")
    BY <1>2, <1>5, <2>1, <2>4, EndedFacts
  <2>6. \A e \in EventIds :
           /\ status'[e] = "none" <=> status[e] = "none"
           /\ status[e] \in Settled => status'[e] \in Settled
           /\ status'[e] = "processing" => status[e] = "processing"
           /\ status'[e] = "acked" => status[e] = "acked" \/ (turn[a].step = "done" /\ turn[a].event = e)
    BY <1>5, <2>2, <2>4 DEF Settled
  <2> QED
    BY <2>1, <2>3, <2>5, <2>6, EndedFacts DEF QueueStep
<1>6. ASSUME NEW a \in Artifacts, GiveUp(a) \/ Answer(a)
      PROVE  QueueStep
  <2>1. "failed" \in Settled /\ "acked" \in Settled
    BY DEF Settled
  <2> QED
    BY <1>5, <1>6, <2>1 DEF GiveUp, GivenUp, Answer, AtStep, NoTurn
<1> QED
  BY <1>3, <1>4, <1>6
-----------------------------------------------------------------------------
\* A new event changes nothing of the events that are there.
LEMMA SubmitKeepsInv ==
  ASSUME GenerationInv, NEW e \in EventIds, NEW a \in Artifacts, NEW kind \in Kinds,
         NEW cost, Submit(e, a, kind, cost)
  PROVE  GenerationInv'
<1> USE DEF GenerationInv
<1>1. /\ UNCHANGED <<job, cancel, state, locked, turn, touches, unsent, sent, task, command, raced, revived, sealed>>
      /\ status' = [status EXCEPT ![e] = "pending"]
      /\ artifact' = [artifact EXCEPT ![e] = a]
      /\ request' = [request EXCEPT ![e] = [kind |-> kind, cost |-> cost]]
      /\ status[e] = "none"
      /\ \A d \in EventIds : d > e /\ artifact[d] = a => status[d] = "none"
      /\ cost \in Costs \cup {0}
      /\ marked' = IF kind = "cancel" THEN marked ELSE marked \ {a}
  BY DEF Submit, Accept, poll
<1>2. /\ status \in [EventIds -> Statuses]
      /\ artifact \in [EventIds -> Artifacts \cup {NoArtifact}]
      /\ request \in [EventIds -> [kind : Kinds, cost : Costs \cup {0}] \cup {NoRequest}]
  BY DEF GenerationTypeOK
<1>3. /\ status'[e] = "pending" /\ artifact'[e] = a /\ request'[e].kind = kind
      /\ \A d \in EventIds : d # e => /\ status'[d] = status[d] /\ artifact'[d] = artifact[d]
                                     /\ request'[d] = request[d]
  BY <1>1, <1>2
<1>4. status[e] = "none" /\ artifact[e] = NoArtifact /\ request[e].kind = "none"
  BY <1>1, EventFacts DEF Blank
<1>5. job[e] = "none" /\ e \notin unsent \cup sent /\ task.job # e
  BY <1>4, ListFacts DEF GenerationTypeOK
<1>6. \A b \in Artifacts : turn[b] # NoTurn => turn[b].event \in EventIds /\ turn[b].event # e
  BY <1>4, TurnFacts
<1>7. GenerationTypeOK'
  <2>1. /\ status' \in [EventIds -> Statuses]
        /\ artifact' \in [EventIds -> Artifacts \cup {NoArtifact}]
        /\ request' \in [EventIds -> [kind : Kinds, cost : Costs \cup {0}] \cup {NoRequest}]
    BY <1>1, <1>2 DEF Statuses, Active
  <2>2. \A d \in EventIds : job'[d] # "none" => request'[d].kind = "generate"
    BY <1>1, <1>3, <1>5 DEF GenerationTypeOK
  <2>3. \A b \in Artifacts : turn'[b] = NoTurn \/ /\ artifact'[turn'[b].event] = b
                                                  /\ status'[turn'[b].event] = "processing"
    BY <1>1, <1>3, <1>6 DEF GenerationTypeOK
  <2> QED
    BY <1>1, <2>1, <2>2, <2>3 DEF GenerationTypeOK
<1>8. Shapes' /\ Blank'
  <2>1. Blank'
    BY <1>3 DEF Blank
  <2> QED
    BY <1>1, <2>1 DEF Shapes
<1>9. \A j \in cancel, d \in EventIds : Later(j, d) /\ status[d] # "none" => Later(j, d)' /\ d # e
  <2>1. \A d \in EventIds : status[d] # "none" => artifact[d] # NoArtifact
    BY GenerationAssumption DEF Blank
  <2> QED
    BY <1>3, <1>4, <2>1 DEF Later, Art, GenerationTypeOK
<1>10. TurnMatches'
  <2> SUFFICES ASSUME NEW b \in Artifacts, turn[b] # NoTurn
               PROVE  MatchesAt(b)'
    BY <1>1 DEF TurnMatches, MatchesAt
  <2>1. MatchesAt(b) /\ turn[b].event \in EventIds \ {e} /\ status[turn[b].event] = "processing"
    BY <1>6, TurnFacts DEF TurnMatches
  <2> QED
    BY <1>1, <1>3, <1>9, <2>1 DEF MatchesAt
<1>11. OldestFirst'
  <2> SUFFICES ASSUME NEW c \in EventIds, NEW d \in EventIds, Before(c, d)',
                      status'[d] = "processing" \/ job[d] # "none"
               PROVE  status'[c] \in Settled
    BY <1>1 DEF OldestFirst
  <2>1. d # e /\ status[d] # "none"
    BY <1>3, <1>5 DEF GenerationTypeOK, Blank, Kinds
  <2>2. c # e
    BY <1>1, <1>3, <2>1, EventFacts DEF Before
  <2> QED
    BY <1>3, <2>1, <2>2 DEF OldestFirst, Before
<1>12. CancelsOlderOnly'
  <2> SUFFICES ASSUME NEW j \in cancel
               PROVE  \E d \in EventIds : Later(j, d)' /\ request'[d].kind = "cancel"
    BY <1>1 DEF CancelsOlderOnly
  <2>1. PICK d \in EventIds : Later(j, d) /\ request[d].kind = "cancel"
    BY DEF CancelsOlderOnly
  <2>2. status[d] # "none"
    BY <2>1 DEF Blank
  <2> QED
    BY <1>3, <1>9, <2>1, <2>2
<1>13. AckedHasEffect'
  <2> SUFFICES ASSUME NEW d \in EventIds, status'[d] = "acked"
               PROVE  /\ request'[d].kind = "generate" => job[d] # "none"
                      /\ request'[d].kind = "cancel" => \E j \in cancel : Later(j, d)'
    BY <1>1 DEF AckedHasEffect
  <2>1. d # e /\ status[d] = "acked"
    BY <1>3
  <2> QED
    BY <1>3, <1>9, <2>1 DEF AckedHasEffect
<1>14. \A b \in Artifacts : AtRest(b) => AtRest(b)'
  BY <1>1, <1>3, <1>5 DEF AtRest, AtHand, Art, Unfinished
<1>15. SealedRests'
  BY <1>1, <1>14 DEF SealedRests, SealedAt
<1>16. MarkedRests'
  <2> SUFFICES ASSUME NEW b \in Artifacts, b \in marked'
               PROVE  MarkedAt(b)'
    BY DEF MarkedRests, MarkedAt
  <2>1. b \in marked /\ (b = a => kind = "cancel")
    BY <1>1
  <2>2. \A d \in OpenEvents(b)' : request'[d].kind = "cancel"
    BY <1>3, <2>1 DEF OpenEvents, Art, MarkedRests, MarkedAt
  <2> QED
    BY <1>1, <1>14, <2>1, <2>2 DEF MarkedRests, MarkedAt
<1> QED
  BY <1>7, <1>8, <1>10, <1>11, <1>12, <1>13, <1>15, <1>16
-----------------------------------------------------------------------------
\* A handler goes on to its next step: it may make the job of its own event,
\* request cancellations and set the status of its own artifact.
HandlerStep(a) ==
  /\ UNCHANGED <<status, artifact, request, locked, touches, unsent, sent, task, command, sealed, marked>>
  /\ \E s, t \in Steps : Goes(a, s, t)
  /\ job' \in [EventIds -> {"none", "queued", "running", "succeeded", "failed", "cancelled"}]
  /\ \A j \in EventIds :
       \/ job'[j] = job[j]
       \/ j = turn[a].event /\ request[j].kind = "generate" /\ job'[j] # "none"
  /\ cancel \subseteq cancel'
  /\ cancel' \cup raced' \cup revived' \subseteq EventIds
  /\ state' \in [Artifacts -> ArtifactStates]
  /\ \A b \in Artifacts : b # a => state'[b] = state[b]
  /\ MatchesAt(a)' /\ SealedAt(a)' /\ MarkedAt(a)'
  /\ CancelsOlderOnly'

LEMMA HandlerStepKeepsInv ==
  ASSUME GenerationInv, NEW a \in Artifacts, HandlerStep(a)
  PROVE  GenerationInv'
<1> USE DEF GenerationInv
<1>1. UNCHANGED <<status, artifact, request, locked, touches, unsent, sent, task, command, sealed, marked>>
  BY DEF HandlerStep
<1>2. /\ turn[a] # NoTurn /\ turn'[a] # NoTurn /\ turn'[a].event = turn[a].event
      /\ turn' \in [Artifacts -> [event : EventIds, step : Steps] \cup {NoTurn}]
      /\ \A b \in Artifacts : b # a => turn'[b] = turn[b]
  BY GoesFacts DEF HandlerStep
<1>3. /\ turn[a].event \in EventIds /\ artifact[turn[a].event] = a
      /\ status[turn[a].event] = "processing"
  BY <1>2, TurnFacts
<1>4. \A j \in EventIds : /\ job[j] # "none" => job'[j] # "none"
                          /\ job'[j] # job[j] => j = turn[a].event /\ request[j].kind = "generate"
  BY DEF HandlerStep
<1>5. cancel \subseteq cancel' /\ \A b \in Artifacts : b # a => state'[b] = state[b]
  BY DEF HandlerStep
<1>6. GenerationTypeOK'
  <2>1. \A b \in Artifacts : turn'[b] = NoTurn \/ /\ artifact[turn'[b].event] = b
                                                  /\ status[turn'[b].event] = "processing"
    BY <1>2, <1>3 DEF GenerationTypeOK
  <2>2. \A j \in EventIds : job'[j] # "none" => request[j].kind = "generate"
    BY <1>4 DEF GenerationTypeOK
  <2>3. \A j \in unsent \cup sent \cup {task.job, command.job} : j \in EventIds \cup {0}
    BY DEF Shapes, NoTask, Listing
  <2>4. \A j \in unsent \cup sent \cup {task.job, command.job} : j = 0 \/ job'[j] # "none"
    BY <1>4, <2>3 DEF GenerationTypeOK
  <2> QED
    BY <1>1, <2>1, <2>2, <2>4 DEF GenerationTypeOK, HandlerStep
<1>7. Shapes' /\ Blank'
  BY <1>1, <1>2 DEF Shapes, Blank
<1>8. TurnMatches'
  <2> SUFFICES ASSUME NEW b \in Artifacts, b # a, turn[b] # NoTurn
               PROVE  MatchesAt(b)'
    BY <1>2 DEF TurnMatches, MatchesAt, HandlerStep
  <2>1. MatchesAt(b) /\ turn'[b] = turn[b] /\ turn[b].event \in EventIds
    BY <1>2, TurnFacts DEF TurnMatches
  <2> QED
    BY <1>1, <1>4, <1>5, <2>1 DEF MatchesAt, Later, Art
<1>9. OldestFirst'
  BY <1>1, <1>3, <1>4 DEF OldestFirst, Before
<1>10. AckedHasEffect'
  BY <1>1, <1>4, <1>5 DEF AckedHasEffect, Later, Art
<1>11. \A b \in Artifacts : b # a => (AtRest(b) => AtRest(b)')
  BY <1>1, <1>3, <1>4 DEF AtRest, AtHand, Art
<1>12. SealedRests'
  BY <1>1, <1>2, <1>5, <1>11 DEF SealedRests, SealedAt, HandlerStep
<1>13. MarkedRests'
  BY <1>1, <1>5, <1>11 DEF MarkedRests, MarkedAt, OpenEvents, Art, HandlerStep
<1>14. CancelsOlderOnly'
  BY DEF HandlerStep
<1> QED
  BY <1>6, <1>7, <1>8, <1>9, <1>10, <1>12, <1>13, <1>14

LEMMA HandlersAreHandlerSteps ==
  ASSUME GenerationInv, NEW a \in Artifacts,
         \/ CheckRequest(a) \/ CreateJob(a) \/ SetGenerating(a)
         \/ SetDraft(a) \/ RequestCancel(a)
  PROVE  HandlerStep(a)
<1> USE DEF GenerationInv, queueVars, tables, poll, history
<1>1. /\ job \in [EventIds -> {"none", "queued", "running", "succeeded", "failed", "cancelled"}]
      /\ state \in [Artifacts -> ArtifactStates]
      /\ cancel \cup raced \cup revived \subseteq EventIds
  BY DEF GenerationTypeOK
<1>2. /\ turn[a] # NoTurn /\ turn[a].event \in EventIds /\ turn[a].event \in OpenEvents(a)
      /\ artifact[turn[a].event] = a /\ status[turn[a].event] = "processing"
  <2>1. turn[a] # NoTurn
    BY AtStepFacts DEF CheckRequest, CreateJob, SetGenerating, SetDraft, RequestCancel, Goes, Steps
  <2> QED
    BY <2>1, TurnFacts
<1>3. MatchesAt(a) /\ SealedAt(a) /\ MarkedAt(a)
  BY DEF TurnMatches, SealedRests, MarkedRests
<1>4. CASE CheckRequest(a)
  <2>1. PICK t \in {"create", "done"} :
           /\ Goes(a, "check", t)
           /\ t = "done" => job[turn[a].event] # "none"
    BY <1>4 DEF CheckRequest
  <2>2. /\ UNCHANGED <<status, artifact, request, job, cancel, state, locked, touches, unsent, sent, task, command,
                       raced, revived, sealed, marked>>
        /\ a \notin locked
    BY <1>4 DEF CheckRequest, Free
  <2>3. turn'[a].event = turn[a].event /\ turn'[a].step = t /\ turn[a].step = "check"
    <3>1. t \in Steps /\ "check" \in Steps /\ Goes(a, "check", t)
      BY <2>1 DEF Steps
    <3>2. turn[a].step = "check"
      BY <3>1 DEF Goes, AtStep
    <3> QED
      BY <3>1, <3>2, GoesFacts
  <2>4. request[turn[a].event].kind = "generate"
    BY <1>2, <1>3, <2>3 DEF MatchesAt
  <2>5. MatchesAt(a)'
    BY <2>1, <2>2, <2>3, <2>4 DEF MatchesAt
  <2>6. SealedAt(a)' /\ MarkedAt(a)' /\ CancelsOlderOnly'
    BY <1>3, <2>2
    DEF SealedAt, MarkedAt, AtRest, AtHand, OpenEvents, Art, CancelsOlderOnly, Later, GenerationTypeOK
  <2> QED
    BY <1>1, <2>1, <2>2, <2>5, <2>6 DEF HandlerStep, Steps
<1>5. CASE CreateJob(a)
  <2>1. /\ Goes(a, "create", "generating")
        /\ job' = [job EXCEPT ![turn[a].event] = "queued"]
        /\ UNCHANGED <<queueVars, request, cancel, state, locked, touches, unsent, sent, task, command, revived, sealed, marked>>
    BY <1>5 DEF CreateJob
  <2>2. turn'[a].event = turn[a].event /\ turn'[a].step = "generating" /\ turn[a].step = "create"
    BY <2>1, GoesFacts DEF Goes, AtStep, Steps
  <2>3. request[turn[a].event].kind = "generate"
    BY <1>2, <1>3, <2>2 DEF MatchesAt
  <2>4. /\ job' \in [EventIds -> {"none", "queued", "running", "succeeded", "failed", "cancelled"}]
        /\ job'[turn[a].event] = "queued" /\ \A j \in EventIds : j # turn[a].event => job'[j] = job[j]
    BY <1>1, <1>2, <2>1
  <2>5. raced' \subseteq EventIds
    <3>1. \A b \in Artifacts : AtStep(b, "create") => turn[b].event \in EventIds
      BY TurnFacts, AtStepFacts DEF Steps
    <3> QED
      BY <1>1, <1>5, <3>1 DEF CreateJob
  <2>6. MatchesAt(a)'
    BY <2>1, <2>2, <2>3, <2>4 DEF MatchesAt
  <2>7. a \notin sealed /\ a \notin marked
    BY <1>2, <1>3, <2>2, <2>3 DEF SealedAt, MarkedAt
  <2>8. SealedAt(a)' /\ MarkedAt(a)' /\ CancelsOlderOnly'
    BY <2>1, <2>7 DEF SealedAt, MarkedAt, CancelsOlderOnly, Later, Art
  <2> QED
    BY <1>1, <2>1, <2>3, <2>4, <2>5, <2>6, <2>8 DEF HandlerStep, Steps
<1>6. CASE SetGenerating(a) \/ SetDraft(a)
  <2>1. PICK s \in {"generating", "draft"} :
           Goes(a, s, "done") /\ state' = [state EXCEPT ![a] = s]
    BY <1>6 DEF SetGenerating, SetDraft
  <2>2. UNCHANGED <<queueVars, request, job, cancel, locked, touches, unsent, sent, task, command, history>>
    BY <1>6 DEF SetGenerating, SetDraft
  <2>3. turn'[a].event = turn[a].event /\ turn'[a].step = "done" /\ turn[a].step = s
    BY <2>1, GoesFacts DEF Goes, AtStep, Steps
  <2>4. /\ s = "generating" => request[turn[a].event].kind = "generate" /\ job[turn[a].event] # "none"
        /\ s = "draft" => request[turn[a].event].kind = "reopen"
    BY <1>2, <1>3, <2>3 DEF MatchesAt
  <2>5. state' \in [Artifacts -> ArtifactStates] /\ state'[a] = s
        /\ \A b \in Artifacts : b # a => state'[b] = state[b]
    BY <1>1, <2>1 DEF ArtifactStates
  <2>6. MatchesAt(a)'
    BY <2>1, <2>2, <2>3, <2>4 DEF MatchesAt
  <2>7. a \notin marked
    BY <1>2, <1>3, <2>1, <2>4 DEF MarkedAt
  <2>8. SealedAt(a)' /\ MarkedAt(a)' /\ CancelsOlderOnly'
    BY <1>3, <2>1, <2>2, <2>3, <2>5, <2>7 DEF SealedAt, MarkedAt, AtRest, AtHand, CancelsOlderOnly, Later, Art
  <2> QED
    BY <1>1, <2>1, <2>2, <2>5, <2>6, <2>8 DEF HandlerStep, Steps
<1>7. CASE RequestCancel(a)
  <2>1. PICK j \in Found(a) : cancel' = cancel \cup {j}
    BY <1>7 DEF RequestCancel
  <2>2. /\ Goes(a, "cancel", "done")
        /\ UNCHANGED <<queueVars, request, job, state, locked, touches, unsent, sent, task, command, history>>
    BY <1>7 DEF RequestCancel
  <2>3. turn'[a].event = turn[a].event /\ turn'[a].step = "done" /\ turn[a].step = "cancel"
    BY <2>2, GoesFacts DEF Goes, AtStep, Steps
  <2>4. request[turn[a].event].kind = "cancel"
    BY <1>2, <1>3, <2>3 DEF MatchesAt
  <2>5. j \in EventIds /\ artifact[j] = a /\ job[j] # "none"
    BY <2>1 DEF Found, JobsOf, Art, Unfinished
  <2>6. j < turn[a].event
    <3>1. j # turn[a].event
      BY <2>4, <2>5 DEF GenerationTypeOK
    <3>2. ~ Before(turn[a].event, j)
      BY <1>2, <2>5 DEF OldestFirst, Settled
    <3> QED
      BY <1>2, <2>5, <3>1, <3>2, EventFacts DEF Before
  <2>7. Later(j, turn[a].event)
    BY <1>2, <2>5, <2>6 DEF Later, Art
  <2>8. MatchesAt(a)'
    BY <2>1, <2>2, <2>3, <2>4, <2>7 DEF MatchesAt, Later, Art
  <2>9. CancelsOlderOnly'
    BY <1>2, <2>1, <2>2, <2>4, <2>7 DEF CancelsOlderOnly, Later, Art
  <2>10. SealedAt(a)' /\ MarkedAt(a)'
    BY <1>3, <2>2, <2>3 DEF SealedAt, MarkedAt, AtRest, AtHand, OpenEvents, Art
  <2>11. cancel' \subseteq EventIds /\ cancel \subseteq cancel'
    BY <1>1, <2>1, <2>5
  <2> QED
    BY <1>1, <2>2, <2>8, <2>9, <2>10, <2>11 DEF HandlerStep, Steps
<1> QED
  BY <1>4, <1>5, <1>6, <1>7
-----------------------------------------------------------------------------
LEMMA StutterKeepsInv ==
  ASSUME GenerationInv, UNCHANGED generationVars
  PROVE  GenerationInv'
<1>1. UNCHANGED <<status, artifact, request, job, cancel, state, locked, turn, touches, unsent, sent, task, command,
                  raced, revived, sealed, marked>>
  BY DEF generationVars, tables, poll, history, queueVars
<1>2. GenerationTypeOK' /\ Shapes' /\ Blank'
  BY <1>1 DEF GenerationInv, GenerationTypeOK, Shapes, Blank
<1>3. TurnMatches' /\ OldestFirst' /\ CancelsOlderOnly' /\ AckedHasEffect'
  BY <1>1
  DEF GenerationInv, TurnMatches, MatchesAt, OldestFirst, Before, CancelsOlderOnly, AckedHasEffect, Later, Art
<1>4. SealedRests' /\ MarkedRests'
  BY <1>1 DEF GenerationInv, SealedRests, SealedAt, MarkedRests, MarkedAt, AtRest, AtHand, OpenEvents, Art
<1> QED
  BY <1>2, <1>3, <1>4 DEF GenerationInv

LEMMA NextKeepsInv ==
  ASSUME GenerationInv, [GenerationNext]_generationVars
  PROVE  GenerationInv'
<1>1. CASE Users
  <2>1. ASSUME NEW e \in EventIds, NEW a \in Artifacts, NEW kind \in Kinds, NEW cost \in Costs \cup {0},
               Submit(e, a, kind, cost)
        PROVE  GenerationInv'
    BY <2>1, SubmitKeepsInv
  <2>2. CASE BoardStep \/ SelectSource
    BY <2>2, BoardStepKeepsInv
  <2> QED
    BY <1>1, <2>1, <2>2 DEF Users, BoardStep
<1>2. CASE Turns
  <2>1. CASE \/ \E e \in EventIds : Deliver(e)
             \/ \E a \in Artifacts : Stop(a) \/ GiveUp(a) \/ Answer(a)
    BY <2>1, SupervisorsAreQueueSteps, QueueStepKeepsInv
  <2>2. ASSUME NEW a \in Artifacts, \/ CheckRequest(a) \/ CreateJob(a) \/ SetGenerating(a)
                                    \/ SetDraft(a) \/ RequestCancel(a)
        PROVE  GenerationInv'
    BY <2>2, HandlersAreHandlerSteps, HandlerStepKeepsInv
  <2> QED
    BY <1>2, <2>1, <2>2 DEF Turns
<1>3. CASE Polls
  BY <1>3, PollsArePollSteps, PollStepKeepsInv
<1>4. CASE Commands
  BY <1>4, CommandsArePollSteps, PollStepKeepsInv
<1>5. CASE UNCHANGED generationVars
  BY <1>5, StutterKeepsInv
<1> QED
  BY <1>1, <1>2, <1>3, <1>4, <1>5 DEF GenerationNext

LEMMA GenerationInvHolds == GenerationSpec => []GenerationInv
<1>1. GenerationInv /\ [GenerationNext]_generationVars => GenerationInv'
  BY NextKeepsInv
<1> QED
  BY InitInv, <1>1, PTL DEF GenerationSpec

\* Every variable has its type, jobs belong to requests for generation, and turns
\* and completions are about events and jobs that exist.
THEOREM GenerationTypes == GenerationSpec => []GenerationTypeOK
<1>1. GenerationInv => GenerationTypeOK
  BY DEF GenerationInv
<1> QED
  BY GenerationInvHolds, <1>1, PTL

\* An artifact that is locked at rest is left alone until it is unlocked: the
\* handler refuses requests (worker.py) whoever enqueued them and whenever they
\* are delivered again.
THEOREM LocksStand == GenerationSpec => []LockedIsLeft
<1>1. GenerationInv => LockedIsLeft
  BY DEF GenerationInv, GenerationTypeOK, SealedRests, SealedAt, AtRest, AtHand, JobsOf, LockedIsLeft
<1> QED
  BY GenerationInvHolds, <1>1, PTL

\* A stale mark set when no request is open, no job unfinished and none left on the
\* list of a poll stands until somebody approves the artifact or asks for something
\* new.
THEOREM StaleMarksStand == GenerationSpec => []MarkStands
<1>1. GenerationInv => MarkStands
  BY DEF GenerationInv, GenerationTypeOK, MarkedRests, MarkedAt, MarkStands
<1> QED
  BY GenerationInvHolds, <1>1, PTL

\* _handle_cancel never cancels a generation that was requested after the cancel
\* event, in whatever order events are retried and delivered again.
THEOREM CancelsHitOlderJobs == GenerationSpec => []CancelsOlderOnly
<1>1. GenerationInv => CancelsOlderOnly
  BY DEF GenerationInv
<1> QED
  BY GenerationInvHolds, <1>1, PTL

\* What was acked was done: its job was made, or an older job was cancelled.
THEOREM AckedWorkIsDone == GenerationSpec => []AckedHasEffect
<1>1. GenerationInv => AckedHasEffect
  BY DEF GenerationInv
<1> QED
  BY GenerationInvHolds, <1>1, PTL
-----------------------------------------------------------------------------
(* Sums.  What a fold computes is not unfolded by the provers: the facts about  *)
(* it are shown by taking the smallest counterexample.                         *)

\* A set of numbers has a smallest one.
LEMMA Smallest ==
  ASSUME NEW T \in SUBSET Nat, T # {}
  PROVE  \E x \in T : \A y \in T : x <= y
<1> DEFINE R == OpToRel(<, Nat)
<1>1. IsWellFoundedOn(R, Nat)
  BY NatLessThanWellFounded
<1>2. \A x, y \in Nat : <<y, x>> \in R <=> y < x
  BY DEF OpToRel
<1> HIDE DEF R
<1>3. \E x \in T : \A y \in T : ~(<<y, x>> \in R)
  BY <1>1, WFMin
<1>4. PICK x \in T : \A y \in T : ~(<<y, x>> \in R)
  BY <1>3
<1>5. \A y \in T : ~(y < x)
  BY <1>2, <1>4
<1> QED
  BY <1>5

\* A sum is the value of a recursive function on sets.
LEMMA FoldUnfolds ==
  ASSUME NEW c, NEW S
  PROVE  SumFunctionOnSet(c, S) =
           (CHOOSE f : f = [s \in SUBSET S |->
               IF s = {} THEN 0 ELSE c[CHOOSE x \in s : TRUE] + f[s \ {CHOOSE x \in s : TRUE}]])[S]
BY DEF SumFunctionOnSet, FoldFunctionOnSet, MapThenFoldSet

\* g sums up c over the parts of 1..n, whichever term is added last.
IsSum(g, c, n) ==
  /\ g \in [SUBSET (1..n) -> Nat]
  /\ g[{}] = 0
  /\ \A S \in SUBSET (1..n) : \A x \in S : g[S] = c[x] + g[S \ {x}]

\* There is such a function: the one for 1..n makes the one for 1..(n + 1).
LEMMA SumExists ==
  ASSUME NEW c, NEW m \in Nat, \A i \in 1..m : c[i] \in Nat
  PROVE  \E g : IsSum(g, c, m)
<1> DEFINE Bad == {n \in 0..m : ~\E g : IsSum(g, c, n)}
<1>1. SUFFICES ASSUME Bad # {}
               PROVE  FALSE
  OBVIOUS
<1>2. PICK n \in Bad : \A k \in Bad : n <= k
  <2>1. Bad \in SUBSET Nat
    OBVIOUS
  <2> HIDE DEF Bad
  <2> QED
    BY <1>1, <2>1, Smallest
<1>3. n # 0
  <2> DEFINE g == [S \in SUBSET (1..0) |-> 0]
  <2>1. 1..0 = {}
    OBVIOUS
  <2>2. IsSum(g, c, 0)
    BY <2>1 DEF IsSum
  <2> QED
    BY <2>2
<1>4. PICK g : IsSum(g, c, n - 1)
  BY <1>2, <1>3
<1> DEFINE h == [S \in SUBSET (1..n) |-> IF n \in S THEN c[n] + g[S \ {n}] ELSE g[S]]
<1>5. \A S \in SUBSET (1..n) : S \ {n} \in SUBSET (1..(n - 1)) /\ (n \notin S => S \in SUBSET (1..(n - 1)))
  BY <1>2
<1>6. c[n] \in Nat /\ n \in 1..n
  BY <1>2, <1>3
<1>7. h \in [SUBSET (1..n) -> Nat] /\ h[{}] = 0
  BY <1>4, <1>5, <1>6 DEF IsSum
<1>8. ASSUME NEW S \in SUBSET (1..n), NEW x \in S
      PROVE  h[S] = c[x] + h[S \ {x}]
  <2>0. S \ {x} \in SUBSET (1..n) /\ c[x] \in Nat
    BY <1>2
  <2>1. CASE n \notin S
    <3>1. S \in SUBSET (1..(n-1)) /\ h[S] = g[S] /\ h[S \ {x}] = g[S \ {x}]
      BY <2>0, <2>1, <1>5
    <3> QED
      BY <1>4, <3>1 DEF IsSum
  <2>2. CASE x = n
    <3>1. h[S] = c[n] + g[S \ {n}] /\ h[S \ {n}] = g[S \ {n}]
      BY <2>0, <2>2
    <3> QED
      BY <3>1, <2>2
  <2>3. CASE n \in S /\ x # n
    <3>1. h[S] = c[n] + g[S \ {n}] /\ h[S \ {x}] = c[n] + g[(S \ {x}) \ {n}]
      BY <2>0, <2>3
    <3>2. S \ {n} \in SUBSET (1..(n - 1)) /\ x \in S \ {n} /\ (S \ {n}) \ {x} = (S \ {x}) \ {n}
      BY <1>5, <2>3
    <3>3. g[S \ {n}] = c[x] + g[(S \ {x}) \ {n}]
      BY <1>4, <3>2 DEF IsSum
    <3>4. g[(S \ {x}) \ {n}] \in Nat
      BY <1>4, <1>5, <2>0 DEF IsSum
    <3> QED
      BY <3>1, <3>3, <3>4, <2>0, <1>6
  <2> QED
    BY <2>1, <2>2, <2>3
<1> HIDE DEF h
<1>9. IsSum(h, c, n)
  BY <1>7, <1>8 DEF IsSum
<1> QED
  BY <1>2, <1>9

\* It is what the fold computes; sets are measured by how many elements they have.
LEMMA SumIsFold ==
  ASSUME NEW c, NEW m \in Nat, \A i \in 1..m : c[i] \in Nat,
         NEW g, IsSum(g, c, m), NEW T \in SUBSET (1..m)
  PROVE  SumFunctionOnSet(c, T) = g[T]
<1> DEFINE ch(s) == CHOOSE x \in s : TRUE
           Eq(f) == f = [s \in SUBSET T |-> IF s = {} THEN 0 ELSE c[ch(s)] + f[s \ {ch(s)}]]
           it == CHOOSE f : Eq(f)
           r == [s \in SUBSET T |-> g[s]]
           one == [i \in 1..m |-> 1]
<1>1. \A s \in SUBSET T : s \in SUBSET (1..m) /\ (s # {} => ch(s) \in s /\ s \ {ch(s)} \in SUBSET T)
  OBVIOUS
<1>2. Eq(r)
  <2>1. \A s \in SUBSET T : r[s] = IF s = {} THEN 0 ELSE c[ch(s)] + r[s \ {ch(s)}]
    BY <1>1 DEF IsSum
  <2> QED
    BY <2>1
<1>3. Eq(it)
  BY <1>2
<1>4. PICK size : IsSum(size, one, m)
  BY SumExists
<1> HIDE DEF it, ch
<1>5. ASSUME NEW S \in SUBSET T, it[S] # g[S]
      PROVE  FALSE
  <2> DEFINE Bad == {n \in Nat : \E s \in SUBSET T : size[s] = n /\ it[s] # g[s]}
  <2>1. Bad # {} /\ Bad \in SUBSET Nat
    BY <1>1, <1>4, <1>5 DEF IsSum
  <2>2. PICK n \in Bad : \A k \in Bad : n <= k
    <3> HIDE DEF Bad
    <3> QED
      BY <2>1, Smallest
  <2>3. PICK s \in SUBSET T : size[s] = n /\ it[s] # g[s]
    BY <2>2
  <2>4. s # {}
    BY <1>3, <2>3 DEF IsSum
  <2>5. ch(s) \in s /\ s \ {ch(s)} \in SUBSET T /\ s \in SUBSET (1..m)
    BY <1>1, <2>4
  <2>6. size[s] = 1 + size[s \ {ch(s)}] /\ size[s \ {ch(s)}] \in Nat
    BY <1>1, <1>4, <2>5 DEF IsSum
  <2>7. it[s] = c[ch(s)] + it[s \ {ch(s)}] /\ g[s] = c[ch(s)] + g[s \ {ch(s)}]
    BY <1>3, <2>4, <2>5 DEF IsSum
  <2>8. it[s \ {ch(s)}] # g[s \ {ch(s)}]
    BY <2>3, <2>7
  <2>9. size[s \ {ch(s)}] \in Bad
    BY <2>5, <2>6, <2>8
  <2> HIDE DEF Bad
  <2>10. n \in Nat /\ n <= size[s \ {ch(s)}]
    BY <2>1, <2>2, <2>9
  <2> QED
    BY <2>3, <2>6, <2>10
<1>6. SumFunctionOnSet(c, T) = it[T]
  BY FoldUnfolds DEF it, ch
<1> QED
  BY <1>5, <1>6

\* A sum is a number, and any term may be taken off.
LEMMA SumFacts ==
  ASSUME NEW c, NEW m \in Nat, \A i \in 1..m : c[i] \in Nat
  PROVE  \A U \in SUBSET (1..m) :
           /\ SumFunctionOnSet(c, U) \in Nat /\ SumFunctionOnSet(c, {}) = 0
           /\ \A i \in U : SumFunctionOnSet(c, U) = c[i] + SumFunctionOnSet(c, U \ {i})
<1>1. PICK g : IsSum(g, c, m)
  BY SumExists
<1>2. \A S \in SUBSET (1..m) : SumFunctionOnSet(c, S) = g[S]
  BY <1>1, SumIsFold
<1> QED
  BY <1>1, <1>2 DEF IsSum

\* More terms, and larger ones, make no smaller sum.
LEMMA SumMonotonic ==
  ASSUME NEW c, NEW d, NEW m \in Nat, \A i \in 1..m : c[i] \in Nat /\ d[i] \in Nat,
         NEW T \in SUBSET (1..m), NEW S \in SUBSET T, \A i \in S : c[i] <= d[i]
  PROVE  SumFunctionOnSet(c, S) <= SumFunctionOnSet(d, T)
<1> DEFINE Bad == {n \in Nat : \E V \in SUBSET T : /\ Cardinality(V) = n
                     /\ ~(SumFunctionOnSet(c, S \cap V) <= SumFunctionOnSet(d, V))}
<1>1. \A V \in SUBSET T : IsFiniteSet(V) /\ Cardinality(V) \in Nat
  <2>1. IsFiniteSet(1..m)
    BY FS_Interval
  <2> QED
    BY <2>1, FS_Subset, FS_CardinalityType
<1>c. \A U \in SUBSET (1..m) :
        /\ SumFunctionOnSet(c, U) \in Nat /\ SumFunctionOnSet(c, {}) = 0
        /\ \A i \in U : SumFunctionOnSet(c, U) = c[i] + SumFunctionOnSet(c, U \ {i})
  <2>1. \A i \in 1..m : c[i] \in Nat
    OBVIOUS
  <2> QED
    BY <2>1, SumFacts
<1>d. \A U \in SUBSET (1..m) :
        /\ SumFunctionOnSet(d, U) \in Nat /\ SumFunctionOnSet(d, {}) = 0
        /\ \A i \in U : SumFunctionOnSet(d, U) = d[i] + SumFunctionOnSet(d, U \ {i})
  <2>1. \A i \in 1..m : d[i] \in Nat
    OBVIOUS
  <2> QED
    BY <2>1, SumFacts
<1>2. SUFFICES ASSUME Bad # {}
               PROVE  FALSE
  BY <1>1
<1>3. PICK n \in Bad : \A k \in Bad : n <= k
  <2>1. Bad \in SUBSET Nat
    OBVIOUS
  <2> HIDE DEF Bad
  <2> QED
    BY <1>2, <2>1, Smallest
<1>4. PICK V \in SUBSET T : /\ Cardinality(V) = n
                            /\ ~(SumFunctionOnSet(c, S \cap V) <= SumFunctionOnSet(d, V))
  BY <1>3
<1>5. V # {}
  BY <1>4, <1>c, <1>d
<1>6. PICK i \in V : TRUE
  BY <1>5
<1>7. Cardinality(V \ {i}) \in Nat /\ Cardinality(V \ {i}) < n
  BY <1>1, <1>4, <1>6, FS_RemoveElement
<1> DEFINE W == V \ {i}
<1>8. SumFunctionOnSet(c, S \cap W) <= SumFunctionOnSet(d, W)
  <2>1. Cardinality(W) \notin Bad
    <3> HIDE DEF Bad
    <3> QED
      BY <1>1, <1>3, <1>4, <1>7
  <2> QED
    BY <1>7, <2>1
<1>9. /\ SumFunctionOnSet(d, V) = d[i] + SumFunctionOnSet(d, W)
      /\ SumFunctionOnSet(d, W) \in Nat /\ SumFunctionOnSet(c, S \cap W) \in Nat
  BY <1>6, <1>c, <1>d
<1>10. CASE i \in S
  <2>1. SumFunctionOnSet(c, S \cap V) = c[i] + SumFunctionOnSet(c, S \cap W)
    <3>1. S \cap V \in SUBSET (1..m) /\ i \in S \cap V /\ (S \cap V) \ {i} = S \cap W
      BY <1>6, <1>10
    <3> QED
      BY <3>1, <1>c
  <2> QED
    BY <2>1, <1>4, <1>6, <1>8, <1>9, <1>10
<1>11. CASE i \notin S
  <2>1. S \cap V = S \cap W
    BY <1>11
  <2> QED
    BY <2>1, <1>4, <1>6, <1>8, <1>9
<1> QED
  BY <1>10, <1>11
-----------------------------------------------------------------------------
(* The budget *)

\* The jobs that BudgetKept is about, and what the requests of r cost together.
Charged == {j \in EventIds \ (raced \cup revived) : job[j] \in Counted}
CostsIn(r, S) == SumFunctionOnSet([e \in EventIds |-> r[e].cost], S)

\* Whoever is past the check and was not overtaken still has room for its job.
RoomFor(a) ==
  LET e == turn[a].event IN
  AtStep(a, "create") /\ e \notin raced =>
     /\ CostsIn(request, Charged) + request[e].cost <= ProjectLimit
     /\ CostsIn(request, Charged \cap InStage(StageOf[a])) + request[e].cost <= StageLimit
BudgetInv == BudgetKept /\ \A a \in Artifacts : RoomFor(a)

\* Limits are numbers.
LEMMA LimitTypes == ProjectLimit \in Nat /\ StageLimit \in Nat
BY GenerationAssumption

\* Costs are numbers.
LEMMA CostTypes ==
  ASSUME GenerationInv
  PROVE  \A e \in EventIds : request[e].cost \in Nat
<1>1. request \in [EventIds -> [kind : Kinds, cost : Costs \cup {0}] \cup {NoRequest}]
  BY DEF GenerationInv, GenerationTypeOK
<1>2. NoRequest.cost = 0
  BY DEF NoRequest
<1> HIDE DEF NoRequest
<1>3. ASSUME NEW e \in EventIds
      PROVE  request[e].cost \in Nat
  <2>1. request[e] = NoRequest \/ request[e] \in [kind : Kinds, cost : Costs \cup {0}]
    BY <1>1
  <2>2. request[e].cost = 0 \/ request[e].cost \in Costs \cup {0}
    BY <1>2, <2>1
  <2>3. Costs \cup {0} \subseteq Nat
    BY GenerationAssumption
  <2> QED
    BY <2>2, <2>3
<1> QED
  BY <1>3

\* BudgetKept in terms of CostsIn.
LEMMA BudgetByCosts ==
  BudgetKept <=> /\ CostsIn(request, Charged) <= ProjectLimit
                 /\ \A s \in Stages : CostsIn(request, Charged \cap InStage(s)) <= StageLimit
BY DEF BudgetKept, Charged, CostsIn, CostsOf, Counted, Unfinished

\* Fewer requests cost no more.
LEMMA CostsMonotonic ==
  ASSUME NEW r, NEW q, \A e \in EventIds : r[e].cost \in Nat /\ q[e].cost \in Nat,
         NEW T \in SUBSET EventIds, NEW S \in SUBSET T, \A e \in S : r[e].cost = q[e].cost
  PROVE  /\ CostsIn(r, S) <= CostsIn(q, T)
         /\ CostsIn(r, S) \in Nat /\ CostsIn(q, T) \in Nat
<1> DEFINE c == [e \in EventIds |-> r[e].cost]
           d == [e \in EventIds |-> q[e].cost]
<1>1. /\ \A i \in 1..MaxEvents : c[i] \in Nat
      /\ \A i \in 1..MaxEvents : d[i] \in Nat
      /\ \A i \in 1..MaxEvents : c[i] \in Nat /\ d[i] \in Nat
      /\ \A i \in S : c[i] <= d[i]
  BY DEF EventIds
<1>2. MaxEvents \in Nat /\ T \in SUBSET (1..MaxEvents) /\ S \in SUBSET T /\ S \in SUBSET (1..MaxEvents)
  BY GenerationAssumption DEF EventIds
<1> HIDE DEF c, d
<1>3. SumFunctionOnSet(c, S) <= SumFunctionOnSet(d, T)
  BY <1>1, <1>2, SumMonotonic
<1>4. SumFunctionOnSet(c, S) \in Nat /\ SumFunctionOnSet(d, T) \in Nat
  BY <1>1, <1>2, SumFacts
<1> QED
  BY <1>3, <1>4 DEF CostsIn, c, d

\* One request more adds its cost at most.
LEMMA CostsOfOneMore ==
  ASSUME NEW r, \A e \in EventIds : r[e].cost \in Nat,
         NEW S \in SUBSET EventIds, NEW j \in EventIds
  PROVE  CostsIn(r, S \cup {j}) <= CostsIn(r, S) + r[j].cost
<1> DEFINE c == [e \in EventIds |-> r[e].cost]
           T == S \cup {j}
<1>1. \A i \in 1..MaxEvents : c[i] \in Nat
  BY DEF EventIds
<1>2. MaxEvents \in Nat /\ T \in SUBSET (1..MaxEvents) /\ j \in T
  BY GenerationAssumption DEF EventIds
<1>3. c[j] = r[j].cost
  OBVIOUS
<1> HIDE DEF c, T
<1>4. SumFunctionOnSet(c, T) = r[j].cost + SumFunctionOnSet(c, T \ {j})
  <2>1. \A U \in SUBSET (1..MaxEvents) :
          /\ SumFunctionOnSet(c, U) \in Nat /\ SumFunctionOnSet(c, {}) = 0
          /\ \A i \in U : SumFunctionOnSet(c, U) = c[i] + SumFunctionOnSet(c, U \ {i})
    BY <1>1, <1>2, SumFacts
  <2> QED
    BY <1>2, <1>3, <2>1
<1>5. T \ {j} \in SUBSET S
  BY DEF T
<1>6. CostsIn(r, T \ {j}) <= CostsIn(r, S) /\ CostsIn(r, T \ {j}) \in Nat /\ CostsIn(r, S) \in Nat
  BY <1>5, CostsMonotonic
<1> QED
  BY <1>4, <1>6 DEF CostsIn, c, T

\* Nothing is charged at the beginning.
LEMMA BudgetInit ==
  ASSUME GenerationInit
  PROVE  BudgetInv
<1>1. Charged = {} /\ \A a \in Artifacts : ~AtStep(a, "create")
  BY DEF GenerationInit, Charged, Counted, Unfinished, AtStep, NoTurn
<1>2. CostsIn(request, {}) = 0
  <2> DEFINE c == [e \in EventIds |-> request[e].cost]
  <2>1. \A i \in 1..MaxEvents : c[i] \in Nat
    BY InitInv, CostTypes DEF EventIds
  <2>2. MaxEvents \in Nat /\ {} \in SUBSET (1..MaxEvents)
    BY GenerationAssumption
  <2> HIDE DEF c
  <2>3. SumFunctionOnSet(c, {}) = 0
    BY <2>1, <2>2, SumFacts
  <2> QED
    BY <2>3 DEF c, CostsIn
<1>3. BudgetKept
  <2>1. \A s \in Stages : Charged \cap InStage(s) = {}
    BY <1>1
  <2> QED
    BY <1>1, <1>2, <2>1, BudgetByCosts, GenerationAssumption
<1> QED
  BY <1>1, <1>3 DEF BudgetInv, RoomFor

\* A step that charges nothing new and lets nobody past the check.
QuietStep ==
  /\ Charged' \subseteq Charged
  /\ \A j \in Charged' : request'[j] = request[j] /\ artifact'[j] = artifact[j]
  /\ raced \subseteq raced'
  /\ \A a \in Artifacts :
       AtStep(a, "create")' => turn'[a] = turn[a] /\ request'[turn[a].event] = request[turn[a].event]

\* Such a step keeps the budget.
LEMMA QuietStepKeepsBudget ==
  ASSUME GenerationInv, GenerationInv', BudgetInv, QuietStep
  PROVE  BudgetInv'
<1> DEFINE all0 == CostsIn(request, Charged)
           all1 == CostsIn(request', Charged')
           in0(s) == CostsIn(request, Charged \cap InStage(s))
           in1(s) == CostsIn(request', (Charged \cap InStage(s))')
<1>1. \A e \in EventIds : request[e].cost \in Nat /\ request'[e].cost \in Nat
  <2>1. (\A e \in EventIds : request[e].cost \in Nat)'
    BY CostTypes, PTL
  <2> QED
    BY CostTypes, <2>1
<1>2. Charged \in SUBSET EventIds
  BY DEF Charged
<1>3. \A s \in Stages : (Charged \cap InStage(s))' \in SUBSET (Charged \cap InStage(s))
  BY <1>2 DEF QuietStep, InStage, Art
<1>4. all1 <= all0 /\ all0 \in Nat /\ all1 \in Nat
  BY <1>1, <1>2, CostsMonotonic DEF QuietStep
<1>5. ASSUME NEW s \in Stages
      PROVE  in1(s) <= in0(s) /\ in0(s) \in Nat /\ in1(s) \in Nat
  <2>1. \A e \in (Charged \cap InStage(s))' : request'[e].cost = request[e].cost
    BY DEF QuietStep
  <2> QED
    BY <1>1, <1>2, <1>3, <2>1, CostsMonotonic
<1>6. BudgetKept'
  <2>1. all0 <= ProjectLimit /\ \A s \in Stages : in0(s) <= StageLimit
    BY BudgetByCosts DEF BudgetInv
  <2>2. all1 <= ProjectLimit /\ \A s \in Stages : in1(s) <= StageLimit
    <3> HIDE DEF all0, all1, in0, in1
    <3> QED
      BY <1>4, <1>5, <2>1, LimitTypes
  <2>3. (/\ CostsIn(request, Charged) <= ProjectLimit
         /\ \A s \in Stages : CostsIn(request, Charged \cap InStage(s)) <= StageLimit)'
    BY <2>2
  <2> QED
    BY <2>3, BudgetByCosts, PTL
<1>7. ASSUME NEW a \in Artifacts, AtStep(a, "create")', turn'[a].event \notin raced'
      PROVE  /\ all1 + request'[turn'[a].event].cost <= ProjectLimit
             /\ in1(StageOf[a]) + request'[turn'[a].event].cost <= StageLimit
  <2>1. turn'[a] = turn[a] /\ request'[turn[a].event] = request[turn[a].event]
    BY <1>7 DEF QuietStep
  <2>2. AtStep(a, "create") /\ turn[a].event \notin raced
    BY <1>7, <2>1 DEF QuietStep, AtStep
  <2>3. StageOf[a] \in Stages /\ request[turn[a].event].cost \in Nat
    <3>1. turn[a].event \in EventIds
      BY <2>2, AtStepFacts, TurnFacts DEF Steps
    <3> QED
      BY <1>1, <3>1, GenerationAssumption
  <2>4. /\ all0 + request[turn[a].event].cost <= ProjectLimit
        /\ in0(StageOf[a]) + request[turn[a].event].cost <= StageLimit
    BY <2>2 DEF BudgetInv, RoomFor
  <2> DEFINE s == StageOf[a]
             x == request[turn[a].event].cost
  <2>5. s \in Stages /\ x \in Nat /\ all0 + x <= ProjectLimit /\ in0(s) + x <= StageLimit
    BY <2>3, <2>4
  <2>6. all1 + x <= ProjectLimit /\ in1(s) + x <= StageLimit
    <3> HIDE DEF all0, all1, in0, in1, s, x
    <3> QED
      BY <1>4, <1>5, <2>5, LimitTypes
  <2> QED
    BY <2>1, <2>6
<1> QED
  BY <1>6, <1>7 DEF BudgetInv, RoomFor

\* The steps of users, commands, the supervisor and the poller.
LEMMA OthersAreQuietSteps ==
  ASSUME GenerationInv, GenerationInv',
         \/ Users \/ Polls \/ Commands \/ UNCHANGED generationVars
         \/ \E e \in EventIds : Deliver(e)
         \/ \E a \in Artifacts : \/ Stop(a) \/ GiveUp(a) \/ Answer(a)
                                 \/ SetGenerating(a) \/ SetDraft(a) \/ RequestCancel(a)
  PROVE  QuietStep
<1> USE DEF generationVars, tables, poll, history, queueVars
<1>1. /\ job \in [EventIds -> {"none", "queued", "running", "succeeded", "failed", "cancelled"}]
      /\ turn \in [Artifacts -> [event : EventIds, step : Steps] \cup {NoTurn}]
  BY DEF GenerationInv, GenerationTypeOK, Shapes
<1>2. ASSUME UNCHANGED <<artifact, request, job, raced, revived>>,
             \A a \in Artifacts : AtStep(a, "create")' => turn'[a] = turn[a]
      PROVE  QuietStep
  BY <1>2 DEF QuietStep, Charged
<1>3. ASSUME NEW e \in EventIds, NEW a \in Artifacts, NEW kind \in Kinds, NEW cost, Submit(e, a, kind, cost)
      PROVE  QuietStep
  <2>1. status[e] = "none" /\ UNCHANGED <<job, turn, raced, revived>>
    BY <1>3, EventFacts DEF Submit, Accept
  <2>2. \A d \in EventIds : d # e => request'[d] = request[d] /\ artifact'[d] = artifact[d]
    BY <1>3 DEF Submit, Accept, GenerationInv, GenerationTypeOK
  <2>3. job[e] = "none" /\ \A b \in Artifacts : turn[b] # NoTurn => turn[b].event \in EventIds \ {e}
    BY <2>1, TurnFacts DEF GenerationInv, GenerationTypeOK, Blank
  <2>4. \A b \in Artifacts : AtStep(b, "create") => turn[b] # NoTurn
    BY AtStepFacts DEF Steps
  <2> QED
    BY <2>1, <2>2, <2>3, <2>4 DEF QuietStep, Charged, Counted, Unfinished, AtStep
<1>4. ASSUME NEW j \in EventIds, NEW s, JobBecomes(j, s)
      PROVE  QuietStep
  <2>1. /\ \A k \in EventIds : k # j => job'[k] = job[k]
        /\ job'[j] = s
        /\ revived' = IF s \in Counted /\ job[j] \notin Counted THEN revived \cup {j} ELSE revived
        /\ UNCHANGED <<artifact, request, turn, raced>>
    BY <1>1, <1>4 DEF JobBecomes
  <2>2. Charged' \subseteq Charged
    BY <1>4, <2>1 DEF Charged
  <2> QED
    BY <1>4, <2>1, <2>2 DEF QuietStep, AtStep
<1>5. CASE Users
  <2>1. ASSUME NEW a \in Artifacts, Approve(a) \/ Lock(a) \/ Unlock(a)
        PROVE  QuietStep
    BY <1>2, <2>1 DEF Approve, Lock, Unlock
  <2>2. CASE SelectSource
    BY <1>2, <2>2 DEF SelectSource
  <2> QED
    BY <1>3, <1>5, <2>1, <2>2 DEF Users
<1>6. CASE Polls \/ Commands
  <2>1. ASSUME NEW j \in EventIds, SubmitJob(j) \/ FailJob(j) \/ WithdrawJob(j) \/ CancelJob(j)
        PROVE  QuietStep
    BY <1>4, <2>1 DEF SubmitJob, FailJob, WithdrawJob, CancelJob
  <2>2. CASE Succeed \/ Raise
    <3>1. task.step \in TaskSteps /\ \E s \in {"succeeded", "failed"} : JobBecomes(task.job, s)
      BY <2>2 DEF Succeed, Raise, TaskSteps
    <3> QED
      BY <1>4, <3>1, TaskFacts
  <2>3. CASE FinishJob \/ ForceReclaim
    <3>1. command.step \in {"finish", "reclaim"} /\ \E s \in {"succeeded", "failed"} : JobBecomes(command.job, s)
      BY <2>3 DEF FinishJob, ForceReclaim, Executes
    <3> QED
      BY <1>4, <3>1, CommandFacts
  <2>4. ASSUME NEW j \in EventIds, Collect(j) \/ Pass(j) \/ LookToFinish(j) \/ LookForStuck(j)
        PROVE  QuietStep
    BY <1>2, <2>4 DEF Collect, Pass, LookToFinish, LookForStuck
  <2>5. CASE \/ ListQueued \/ ListRunning \/ SetReview \/ SetFailed \/ SetCancelled \/ Crash
    BY <1>2, <2>5 DEF ListQueued, ListRunning, SetReview, SetFailed, SetCancelled, SetStatus, Crash
  <2> QED
    BY <1>6, <2>1, <2>2, <2>3, <2>4, <2>5 DEF Polls, Commands
<1>7. CASE UNCHANGED generationVars
  BY <1>2, <1>7
<1>8. ASSUME NEW e \in EventIds, Deliver(e)
      PROVE  QuietStep
  <2>1. UNCHANGED <<artifact, request, job, raced, revived>> /\ status'[e] = "processing"
    BY <1>8 DEF Deliver, HandOut, Returned, GenerationInv, GenerationTypeOK
  <2>2. request[e].kind \in Kinds
    BY <2>1 DEF GenerationInv, Blank
  <2>3. FirstStep[request[e].kind] # "create"
    BY <2>2 DEF FirstStep, Kinds
  <2>4. \A a \in Artifacts : AtStep(a, "create")' => turn'[a] = turn[a]
    BY <1>1, <1>8, <2>3 DEF Deliver, AtStep
  <2> QED
    BY <1>2, <2>1, <2>4
<1>9. ASSUME NEW a \in Artifacts, Stop(a) \/ GiveUp(a) \/ Answer(a)
      PROVE  QuietStep
  <2>1. UNCHANGED <<artifact, request, job, raced, revived>> /\ turn' = Ended(a)
    BY <1>9 DEF Stop, GiveUp, Answer, Over, Settle
  <2>2. \A b \in Artifacts : AtStep(b, "create")' => turn'[b] = turn[b]
    BY <1>1, <2>1 DEF Ended, AtStep, NoTurn
  <2> QED
    BY <1>2, <2>1, <2>2
<1>10. ASSUME NEW a \in Artifacts, SetGenerating(a) \/ SetDraft(a) \/ RequestCancel(a)
       PROVE  QuietStep
  <2>1. UNCHANGED <<artifact, request, job, raced, revived>>
    BY <1>10 DEF SetGenerating, SetDraft, RequestCancel
  <2>2. PICK t \in Steps : Goes(a, t, "done")
    BY <1>10 DEF SetGenerating, SetDraft, RequestCancel, Steps
  <2>3. turn'[a].step = "done" /\ \A b \in Artifacts : b # a => turn'[b] = turn[b]
    BY <2>2, GoesFacts DEF Steps
  <2> QED
    BY <1>2, <2>1, <2>3 DEF AtStep
<1> QED
  BY <1>5, <1>6, <1>7, <1>8, <1>9, <1>10

\* The check is where there is room, or the turn does not go on.
LEMMA CheckKeepsBudget ==
  ASSUME GenerationInv, GenerationInv', BudgetInv, NEW a \in Artifacts, CheckRequest(a)
  PROVE  BudgetInv'
<1> DEFINE e == turn[a].event
<1>1. UNCHANGED <<artifact, request, job, raced, revived>>
  BY DEF CheckRequest, tables, history, queueVars
<1>2. Charged' = Charged /\ \A s \in Stages : InStage(s)' = InStage(s)
  BY <1>1 DEF Charged, InStage, Art
<1>3. PICK t \in {"create", "done"} : Goes(a, "check", t) /\ (t = "create" => WithinBudget(e))
  BY DEF CheckRequest
<1>4. /\ turn[a] # NoTurn /\ turn'[a].event = e /\ turn'[a].step = t
      /\ \A b \in Artifacts : b # a => turn'[b] = turn[b]
  <2>1. t \in Steps /\ "check" \in Steps
    BY DEF Steps
  <2> QED
    BY <1>3, <2>1, GoesFacts
<1>5. e \in EventIds /\ artifact[e] = a
  BY <1>4, TurnFacts
<1>6. BudgetKept'
  <2>1. (/\ CostsIn(request, Charged) <= ProjectLimit
         /\ \A s \in Stages : CostsIn(request, Charged \cap InStage(s)) <= StageLimit)'
    BY <1>1, <1>2, BudgetByCosts DEF BudgetInv
  <2> QED
    BY <2>1, BudgetByCosts, PTL
<1>7. ASSUME NEW b \in Artifacts, b # a
      PROVE  RoomFor(b)'
  <2>1. RoomFor(b) /\ turn'[b] = turn[b]
    BY <1>4, <1>7 DEF BudgetInv
  <2>2. StageOf[b] \in Stages
    BY GenerationAssumption
  <2> QED
    BY <1>1, <1>2, <2>1, <2>2 DEF RoomFor, AtStep
<1>8. RoomFor(a)'
  <2>1. SUFFICES ASSUME t = "create"
                 PROVE  /\ CostsIn(request, Charged) + request[e].cost <= ProjectLimit
                        /\ CostsIn(request, Charged \cap InStage(StageOf[a])) + request[e].cost <= StageLimit
    <3>1. StageOf[a] \in Stages
      BY GenerationAssumption
    <3> QED
      BY <1>1, <1>2, <1>4, <3>1 DEF RoomFor, AtStep
  <2> DEFINE S == {j \in EventIds : job[j] \in Counted}
             V == {j \in InStage(StageOf[a]) : job[j] \in Counted}
             x == request[e].cost
  <2>2. CostsIn(request, S) + x <= ProjectLimit /\ CostsIn(request, V) + x <= StageLimit
    BY <1>3, <1>5, <2>1 DEF WithinBudget, Spent, CostsOf, CostsIn, Art
  <2>3. /\ S \in SUBSET EventIds /\ V \in SUBSET EventIds
        /\ Charged \in SUBSET S /\ Charged \cap InStage(StageOf[a]) \in SUBSET V
    BY DEF Charged, InStage
  <2> HIDE DEF S, V
  <2>4. x \in Nat
    BY <1>5, CostTypes
  <2>5. /\ CostsIn(request, Charged) <= CostsIn(request, S)
        /\ CostsIn(request, Charged) \in Nat /\ CostsIn(request, S) \in Nat
    BY <2>3, CostTypes, CostsMonotonic
  <2>6. /\ CostsIn(request, Charged \cap InStage(StageOf[a])) <= CostsIn(request, V)
        /\ CostsIn(request, Charged \cap InStage(StageOf[a])) \in Nat /\ CostsIn(request, V) \in Nat
    BY <2>3, CostTypes, CostsMonotonic
  <2> HIDE DEF x
  <2>7. /\ CostsIn(request, Charged) + x <= ProjectLimit
        /\ CostsIn(request, Charged \cap InStage(StageOf[a])) + x <= StageLimit
    BY <2>2, <2>4, <2>5, <2>6, LimitTypes
  <2> QED
    BY <2>7 DEF x
<1> QED
  BY <1>6, <1>7, <1>8 DEF BudgetInv

\* The INSERT uses the room of its turn, and overtakes all others.
LEMMA CreateKeepsBudget ==
  ASSUME GenerationInv, GenerationInv', BudgetInv, NEW a \in Artifacts, CreateJob(a)
  PROVE  BudgetInv'
<1> DEFINE e == turn[a].event
           x == request[e].cost
           all0 == CostsIn(request, Charged)
           in0(s) == CostsIn(request, Charged \cap InStage(s))
           all1 == CostsIn(request, Charged')
           in1(s) == CostsIn(request, Charged' \cap InStage(s))
<1>1. UNCHANGED <<artifact, request, revived>> /\ Goes(a, "create", "generating")
      /\ job' = [job EXCEPT ![e] = "queued"]
  BY DEF CreateJob, queueVars
<1>2. /\ turn[a] # NoTurn /\ turn'[a].step = "generating" /\ AtStep(a, "create")
      /\ \A b \in Artifacts : b # a => turn'[b] = turn[b]
  BY <1>1, GoesFacts DEF Goes, Steps
<1>3. e \in EventIds /\ artifact[e] = a
  BY <1>2, TurnFacts
<1>4. raced' = raced \cup {turn[b].event : b \in {c \in Artifacts \ {a} : AtStep(c, "create")}}
  BY DEF CreateJob
<1>5. \A b \in Artifacts : RoomFor(b)'
  <2>1. ASSUME NEW b \in Artifacts, AtStep(b, "create")'
        PROVE  turn'[b].event \in raced'
    BY <1>2, <1>4, <2>1 DEF AtStep
  <2> QED
    BY <2>1 DEF RoomFor
<1>6. /\ Charged \in SUBSET EventIds
      /\ Charged' \in SUBSET (Charged \cup {e})
      /\ e \in raced => Charged' \in SUBSET Charged
  BY <1>1, <1>3, <1>4 DEF Charged, GenerationInv, GenerationTypeOK
<1>7. \A s \in Stages : InStage(s)' = InStage(s) /\ (e \in InStage(s) => s = StageOf[a])
  BY <1>1, <1>3 DEF InStage, Art
<1>8. x \in Nat /\ \A j \in EventIds : request[j].cost \in Nat
  BY <1>3, CostTypes
<1> HIDE DEF e, x
<1>9. /\ all0 \in Nat /\ all1 \in Nat
      /\ e \in raced => all1 <= all0
      /\ all1 <= all0 + x
  <2> DEFINE S == Charged \cup {e}
  <2>1. CostsIn(request, S) <= all0 + x
    BY <1>3, <1>6, <1>8, CostsOfOneMore DEF e, x
  <2>2. all1 <= CostsIn(request, S) /\ all1 \in Nat /\ CostsIn(request, S) \in Nat
    BY <1>3, <1>6, <1>8, CostsMonotonic
  <2>3. all0 \in Nat
    BY <1>6, <1>8, CostsMonotonic
  <2>4. e \in raced => all1 <= all0
    BY <1>6, <1>8, CostsMonotonic
  <2> HIDE DEF S, all0, all1
  <2> QED
    BY <1>8, <2>1, <2>2, <2>3, <2>4
<1>10. ASSUME NEW s \in Stages
       PROVE  /\ in0(s) \in Nat /\ in1(s) \in Nat
              /\ e \in raced \/ s # StageOf[a] => in1(s) <= in0(s)
              /\ in1(s) <= in0(s) + x
  <2> DEFINE S == (Charged \cap InStage(s)) \cup {e}
  <2>1. /\ Charged \cap InStage(s) \in SUBSET EventIds
        /\ Charged' \cap InStage(s) \in SUBSET S /\ S \in SUBSET EventIds
        /\ e \in raced \/ s # StageOf[a] => Charged' \cap InStage(s) \in SUBSET (Charged \cap InStage(s))
    BY <1>3, <1>6, <1>7
  <2>2. CostsIn(request, S) <= in0(s) + x
    BY <1>3, <1>8, <2>1, CostsOfOneMore DEF e, x
  <2>3. in1(s) <= CostsIn(request, S) /\ in1(s) \in Nat /\ CostsIn(request, S) \in Nat
    BY <1>8, <2>1, CostsMonotonic
  <2>4. in0(s) \in Nat
    BY <1>8, <2>1, CostsMonotonic
  <2>5. e \in raced \/ s # StageOf[a] => in1(s) <= in0(s)
    BY <1>8, <2>1, CostsMonotonic
  <2> HIDE DEF S, in0, in1
  <2> QED
    BY <1>8, <2>2, <2>3, <2>4, <2>5
<1>11. all0 <= ProjectLimit /\ \A s \in Stages : in0(s) <= StageLimit
  BY BudgetByCosts DEF BudgetInv
<1>12. e \notin raced => all0 + x <= ProjectLimit /\ in0(StageOf[a]) + x <= StageLimit
  BY <1>2 DEF BudgetInv, RoomFor, e, x
<1>13. all1 <= ProjectLimit /\ \A s \in Stages : in1(s) <= StageLimit
  <2> HIDE DEF all0, all1, in0, in1
  <2>1. all1 <= ProjectLimit
    BY <1>8, <1>9, <1>11, <1>12, LimitTypes
  <2>2. ASSUME NEW s \in Stages
        PROVE  in1(s) <= StageLimit
    <3>1. CASE e \in raced \/ s # StageOf[a]
      BY <1>10, <1>11, <3>1, LimitTypes
    <3>2. CASE e \notin raced /\ s = StageOf[a]
      BY <1>8, <1>10, <1>12, <3>2, LimitTypes
    <3> QED
      BY <3>1, <3>2
  <2> QED
    BY <2>1, <2>2
<1>14. (/\ CostsIn(request, Charged) <= ProjectLimit
        /\ \A s \in Stages : CostsIn(request, Charged \cap InStage(s)) <= StageLimit)'
  BY <1>1, <1>7, <1>13
<1>15. BudgetKept'
  BY <1>14, BudgetByCosts, PTL
<1> QED
  BY <1>5, <1>15 DEF BudgetInv

\* Jobs together never cost more than the limits of the project and of their
\* stage, but for those that another worker's INSERT overtook between the check
\* (_check_budget) and their own, and those that were written off and submitted
\* or finished after all.
THEOREM BudgetHolds == GenerationSpec => []BudgetKept
<1>1. GenerationInit => BudgetInv
  BY BudgetInit
<1>2. ASSUME GenerationInv, GenerationInv', BudgetInv, [GenerationNext]_generationVars
      PROVE  BudgetInv'
  <2>1. ASSUME NEW a \in Artifacts, CheckRequest(a)
        PROVE  BudgetInv'
    BY <1>2, <2>1, CheckKeepsBudget
  <2>2. ASSUME NEW a \in Artifacts, CreateJob(a)
        PROVE  BudgetInv'
    BY <1>2, <2>2, CreateKeepsBudget
  <2>3. CASE \/ Users \/ Polls \/ Commands \/ UNCHANGED generationVars
             \/ \E e \in EventIds : Deliver(e)
             \/ \E a \in Artifacts : \/ Stop(a) \/ GiveUp(a) \/ Answer(a)
                                     \/ SetGenerating(a) \/ SetDraft(a) \/ RequestCancel(a)
    BY <1>2, <2>3, OthersAreQuietSteps, QuietStepKeepsBudget
  <2> QED
    BY <1>2, <2>1, <2>2, <2>3 DEF GenerationNext, Turns
<1>3. BudgetInv => BudgetKept
  BY DEF BudgetInv
<1> QED
  BY GenerationInvHolds, <1>1, <1>2, <1>3, PTL DEF GenerationSpec
=============================================================================
