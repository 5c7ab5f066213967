---------------------------- MODULE ServeProofs ----------------------------
(***************************************************************************)
(* Proofs about ServeLoop, for any number of processes, also of processes  *)
(* at once, of events and of interrupts, and whichever transport is used:  *)
(* its safety invariants, and that every transport does what the           *)
(* supervisors rely on (WorkerTransport).                                  *)
(***************************************************************************)
EXTENDS ServeLoop, TLAPS

\* Outside its loop a process has no session, so no signal is on its way to a
\* worker, and no worker is at anything but a given up ACP agent.
OutOfLoop == {"off", "address", "pids", "clear", "forget"} \cup Over
NoSessionOutside ==
  \A p \in Supervisors : pc[p] \in OutOfLoop =>
     /\ session[p] = "none" /\ signal[p] = "none"
     /\ kind # "acp" => work[p] = {}

\* An answer is to the turn that is waited for or was just received: nobody is
\* at its event any more, and ok is only said of effects that are durable.
AnswersTheTurn ==
  \A p \in Supervisors : reply[p] # "none" =>
     /\ turn[p].result \in {"sent", "ok", "error"}
     /\ turn[p].event \notin work[p]
     /\ reply[p] = "ok" => turn[p].event \in done

\* The files a process has not written yet, or has removed, do not name it.
FilesNotItsOwn ==
  \A p \in Supervisors :
     /\ pc[p] \in {"off", "address", "ended"} => file["address"] # p
     /\ pc[p] \in {"off", "address", "pids", "forget", "ended"} => file["pids"] # p

\* A flag that is seen by a process with a session is one it was asked for since
\* the last one; before the session there may be an old one.
FlagWasAsked ==
  \A p \in Supervisors :
     /\ asked[p] >= 0
     /\ flag /\ pc[p] \in {"ensure", "claim", "turn"} => asked[p] >= 1
     /\ flag /\ pc[p] = "top" /\ session[p] # "none" => asked[p] >= 1
     /\ pc[p] = "forward" /\ session[p] # "none" => asked[p] >= 1

\* A signal on its way to a worker, or that cut its turn, is an interrupt that was
\* made and has not cost a turn.
SignalWasMade ==
  \A p \in Supervisors :
     /\ unspent[p] >= 0
     /\ signal[p] # "none" => unspent[p] >= 1 /\ session[p] # "none"

\* A process that runs alone is the only one that runs.
AloneRuns ==
  \A p \in alone : /\ pc[p] \in {"shut"} \cup Serving
                   /\ \A q \in Supervisors : pc[q] \in Running => q = p

\* Before stop reads the pids, they name the process that runs alone; then stop
\* has found it.  A process that stop aims at comes to its loop no more.
StopFinds ==
  /\ \A p \in aim : pc[p] \in {"shut"} \cup Looping
  /\ stopper.step \in {"none", "read"} => \A p \in alone : InLoop(p) => file["pids"] = p
  /\ stopper.step = "kill" => \A p \in aim \cap alone : InLoop(p) => p \in stopper.found

ServeInv ==
  /\ ServeTypeOK /\ NoSessionOutside /\ AnswersTheTurn /\ WorkIsWaitedFor
  /\ FilesNotItsOwn /\ FlagWasAsked /\ SignalWasMade
  /\ AloneRuns /\ StopFinds /\ StopStops
-----------------------------------------------------------------------------
\* The steps: of the session only, of the loop, the end of a process (Gone: it
\* shuts down, or is killed, perhaps by stop), and a SIGTERM by stop for a process
\* that runs no more (Missed).
SessionStep(p) == /\ \/ Recycle(p)
                     \/ Turn(p) /\ (Send(p) \/ Receive(p) \/ Timeout(p))
                     \/ SignalTakes(p) \/ WorkerDies(p)
                     \/ \E e \in Events : Commit(p, e) \/ Reply(p, e)
                  /\ UNCHANGED <<runVars, historyVars>>
LoopStep(p) == \/ Top(p) \/ LastIteration(p) \/ Forward(p) \/ Unlink(p)
               \/ Ensure(p) \/ Claim(p) \/ Settle(p)
Gone(p)     == /\ pc[p] \in Running
               /\ Shut(p) \/ Dies(p)
               /\ UNCHANGED <<status, file, flag>>
               /\ UNCHANGED stopper \/ Terminate(p)
Missed(p)   == Terminate(p) /\ UNCHANGED <<sessionVars, pc, stopping, historyVars>>
StopStep    == BeginStop \/ ReadPids \/ StopClears
StepOf(p)   == \/ SessionStep(p) \/ LoopStep(p) \/ Gone(p) \/ Missed(p)
               \/ Start(p) \/ WriteFile(p) \/ Sigint(p) \/ ClearFile(p)

LEMMA StepCases ==
  ASSUME [ServeNext]_serveVars
  PROVE  \/ \E p \in Supervisors : StepOf(p)
         \/ StopStep \/ RequestInterrupt \/ \E e \in Events : Reclaim(e)
         \/ UNCHANGED serveVars
  BY DEF ServeNext, Serve, Worker, Users, Stop, Turn, Recycle, SessionStep, LoopStep,
         Crash, Shut, Terminate, Running, Gone, Missed, StopStep, StepOf

\* What the loop and the session change of the rest.
LEMMA SessionStepFacts ==
  ASSUME NEW p \in Supervisors, SessionStep(p)
  PROVE  UNCHANGED <<status, pc, stopping, file, flag, stopper,
                     interrupts, asked, unspent, alone, aim>>
  BY DEF SessionStep, runVars, historyVars

LEMMA LoopStepFacts ==
  ASSUME NEW p \in Supervisors, LoopStep(p)
  PROVE  /\ pc[p] \in Looping
         /\ \E place \in Looping \cup {"shut"} : pc' = [pc EXCEPT ![p] = place]
         /\ UNCHANGED <<stopping, file, stopper, interrupts, alone, aim>>
  BY DEF LoopStep, Top, LastIteration, Forward, Unlink, Ensure, Claim, Settle,
         Goto, Looping, historyVars

LEMMA GoneFacts ==
  ASSUME NEW p \in Supervisors, Gone(p)
  PROVE  /\ pc[p] \in Running
         /\ \E place \in {"clear", "killed"} : pc' = [pc EXCEPT ![p] = place]
         /\ turn' = turn \/ turn' = [turn EXCEPT ![p] = Idle]
         /\ Forgotten(p)
         /\ UNCHANGED <<status, file, flag>>
  BY DEF Gone, Shut, StopWorkers, Close, Dies, Orphan, Goto, Running
-----------------------------------------------------------------------------
(* Types *)

\* A turn that is sent or ends is still a turn.
LEMMA TurnTypes ==
  ASSUME SessionTypeOK, NEW p \in Supervisors, turn[p].result # "none"
  PROVE  /\ turn[p].event \in Events
         /\ \A r \in TurnResults :
              [turn EXCEPT ![p].result = r]
                \in [Supervisors -> [event : Events, result : TurnResults] \cup {Idle}]
  <1>1. turn[p] \in [event : Events, result : TurnResults]
    BY DEF SessionTypeOK, Idle
  <1>2. ASSUME NEW r \in TurnResults
        PROVE  [turn[p] EXCEPT !.result = r] \in [event : Events, result : TurnResults]
    BY <1>1
  <1> QED BY <1>1, <1>2 DEF SessionTypeOK

LEMMA SessionTypesKept ==
  ASSUME SessionTypeOK, NEW p \in Supervisors, SessionStep(p)
  PROVE  SessionTypeOK' /\ (turn'[p] # Idle => turn[p] # Idle)
         /\ \A q \in Supervisors \ {p} : turn'[q] = turn[q]
  <1>1. CASE Recycle(p)
    BY <1>1 DEF Recycle, Close, LeftByClose, SessionTypeOK
  <1>2. CASE Send(p)
    <2>1. turn[p].result # "none" /\ turn[p] # Idle /\ {"sent", "error"} \subseteq TurnResults
      BY <1>2 DEF Send, TurnResults, Idle
    <2>2. \E r \in TurnResults : turn' = [turn EXCEPT ![p].result = r]
      BY <1>2, <2>1 DEF Send
    <2>3. turn' \in [Supervisors -> [event : Events, result : TurnResults] \cup {Idle}]
      BY <2>1, <2>2, TurnTypes
    <2>4. work' \in [Supervisors -> SUBSET Events]
      BY <1>2, <2>1, TurnTypes DEF Send, SessionTypeOK
    <2> QED BY <1>2, <2>1, <2>2, <2>3, <2>4 DEF Send, SessionTypeOK
  <1>3. CASE Receive(p) \/ Timeout(p)
    <2>1. turn[p].result # "none" /\ turn[p] # Idle
      BY <1>3 DEF Receive, Timeout, Waiting, Idle
    <2>2. \E r \in TurnResults : turn' = [turn EXCEPT ![p].result = r]
      BY <1>3 DEF Receive, Timeout, Result, Silence, SessionTypeOK, TurnResults
    <2>3. turn' \in [Supervisors -> [event : Events, result : TurnResults] \cup {Idle}]
      BY <2>1, <2>2, TurnTypes
    <2>4. work' \in [Supervisors -> SUBSET Events]
      BY <1>3 DEF Receive, Timeout, WorkAfterTimeout, SessionTypeOK
    <2> QED BY <1>3, <2>1, <2>2, <2>3, <2>4 DEF Receive, Timeout, SessionTypeOK
  <1>4. CASE SignalTakes(p) \/ WorkerDies(p)
    BY <1>4 DEF SignalTakes, WorkerDies, SessionTypeOK
  <1>5. CASE \E e \in Events : Commit(p, e) \/ Reply(p, e)
    BY <1>5 DEF Commit, Reply, SessionTypeOK
  <1> QED BY <1>1, <1>2, <1>3, <1>4, <1>5 DEF SessionStep

\* The same of the loop: the turn begins at the claim, and is put away.
LEMMA LoopTypesKept ==
  ASSUME ServeTypeOK, NEW p \in Supervisors, LoopStep(p)
  PROVE  SessionTypeOK' /\ status' \in [Events -> {"pending", "processing", "acked", "failed"}]
         /\ flag' \in BOOLEAN
         /\ asked' \in [Supervisors -> Int] /\ unspent' \in [Supervisors -> Int]
         /\ (turn'[p] # Idle => pc'[p] = "turn")
         /\ \A q \in Supervisors \ {p} : turn'[q] = turn[q]
  <1> USE DEF ServeTypeOK, SessionTypeOK
  <1>1. CASE Top(p) \/ LastIteration(p) \/ Unlink(p)
    BY <1>1 DEF Top, LastIteration, Unlink, FlagGone, Goto, sessionVars, historyVars
  <1>2. CASE Forward(p)
    <2>1. SessionTypeOK' /\ UNCHANGED <<turn, status, flag>> /\ turn[p] = Idle
      BY <1>2 DEF Forward, Interrupt, Goto, sessionVars
    <2>2. asked' \in [Supervisors -> Int] /\ unspent' \in [Supervisors -> Int]
      BY <1>2 DEF Forward
    <2> QED BY <2>1, <2>2
  <1>3. CASE Ensure(p)
    <2>1. SessionTypeOK' /\ UNCHANGED <<turn, status, flag, asked, unspent>>
      BY <1>3 DEF Ensure, StartWorker, IsAlive, Resumed, Goto, sessionVars, historyVars
    <2>2. turn[p] = Idle
      BY <1>3 DEF Ensure
    <2> QED BY <2>1, <2>2
  <1>4. CASE Claim(p)
    <2>1. CASE UNCHANGED <<sessionVars, status>>
      BY <1>4, <2>1 DEF Claim, sessionVars, historyVars
    <2>2. ASSUME NEW e \in Events, TakeTurn(p, e), Goto(p, "turn"),
                 status' = [status EXCEPT ![e] = "processing"]
          PROVE  /\ SessionTypeOK' /\ pc'[p] = "turn"
                 /\ status' \in [Events -> {"pending", "processing", "acked", "failed"}]
                 /\ \A q \in Supervisors \ {p} : turn'[q] = turn[q]
      <3>1. [event |-> e, result |-> "claimed"] \in [event : Events, result : TurnResults]
        BY DEF TurnResults
      <3>2. turn' \in [Supervisors -> [event : Events, result : TurnResults] \cup {Idle}]
        BY <2>2, <3>1 DEF TakeTurn
      <3> QED BY <2>2, <3>2 DEF TakeTurn, Goto
    <2> QED BY <1>4, <2>1, <2>2 DEF Claim, historyVars
  <1>5. CASE Settle(p)
    <2>1. SessionTypeOK' /\ turn'[p] = Idle /\ \A q \in Supervisors \ {p} : turn'[q] = turn[q]
      BY <1>5 DEF Settle, EndTurn, TurnOver
    <2>2. status' \in [Events -> {"pending", "processing", "acked", "failed"}]
      BY <1>5 DEF Settle
    <2>3. flag' \in BOOLEAN /\ asked' \in [Supervisors -> Int] /\ unspent' \in [Supervisors -> Int]
      BY <1>5 DEF Settle
    <2> QED BY <2>1, <2>2, <2>3
  <1> QED BY <1>1, <1>2, <1>3, <1>4, <1>5 DEF LoopStep

LEMMA TypesKept ==
  ASSUME ServeTypeOK, [ServeNext]_serveVars
  PROVE  ServeTypeOK'
  <1>1. ASSUME NEW p \in Supervisors, SessionStep(p) PROVE ServeTypeOK'
    BY <1>1, SessionTypesKept, SessionStepFacts DEF ServeTypeOK
  <1>2. ASSUME NEW p \in Supervisors, LoopStep(p) PROVE ServeTypeOK'
    <2>1. pc' \in [Supervisors -> {"off"} \cup Running \cup Over]
      BY <1>2, LoopStepFacts DEF ServeTypeOK, Running, Serving
    <2>2. \A q \in Supervisors : turn'[q] # Idle => pc'[q] = "turn"
      <3>1. \A q \in Supervisors \ {p} : turn'[q] = turn[q] /\ pc'[q] = pc[q]
        BY <1>2, LoopStepFacts, LoopTypesKept DEF ServeTypeOK
      <3> QED BY <1>2, <3>1, LoopTypesKept DEF ServeTypeOK
    <2> QED BY <1>2, <2>1, <2>2, LoopTypesKept, LoopStepFacts DEF ServeTypeOK
  <1>3. ASSUME NEW p \in Supervisors, Gone(p) PROVE ServeTypeOK'
    <2>1. pc' \in [Supervisors -> {"off"} \cup Running \cup Over]
      BY <1>3, GoneFacts DEF ServeTypeOK, Running, Over
    <2>2. SessionTypeOK'
      BY <1>3 DEF ServeTypeOK, SessionTypeOK, Gone, Shut, StopWorkers, Close, LeftByClose,
                  Dies, Orphan
    <2>3. \A q \in Supervisors : turn'[q] # Idle => turn'[q] = turn[q] /\ pc'[q] = pc[q]
      BY <1>3, GoneFacts
      DEF ServeTypeOK, SessionTypeOK, Gone, Shut, StopWorkers, Close, Dies, Orphan, Goto
    <2>4. stopper' \in [step : {"none", "read", "kill", "forget", "done"},
                        found : SUBSET Supervisors]
      BY <1>3 DEF Gone, Shut, Terminate, ServeTypeOK
    <2>5. /\ stopping' \subseteq Supervisors /\ alone' \subseteq Supervisors
          /\ aim' \subseteq Supervisors /\ interrupts' \in 0..MaxInterrupts
          /\ asked' \in [Supervisors -> Int] /\ unspent' \in [Supervisors -> Int]
      BY <1>3, GoneFacts DEF Forgotten, ServeTypeOK
    <2> QED BY <1>3, <2>1, <2>2, <2>3, <2>4, <2>5, GoneFacts DEF ServeTypeOK
  <1>4. ASSUME NEW p \in Supervisors, Start(p) PROVE ServeTypeOK'
    BY <1>4 DEF Start, Goto, sessionVars, ServeTypeOK, SessionTypeOK, Running, Serving, Idle
  <1>5. ASSUME NEW p \in Supervisors, WriteFile(p) \/ ClearFile(p) PROVE ServeTypeOK'
    BY <1>5 DEF WriteFile, ClearFile, Writes, Removes, Goto, sessionVars, historyVars,
                ServeTypeOK, SessionTypeOK, Files, Running, Serving, Looping, Over
  <1>6. ASSUME NEW p \in Supervisors, Sigint(p) PROVE ServeTypeOK'
    <2>1. SessionTypeOK' /\ turn' = turn
      BY <1>6 DEF Sigint, WorkerDies, sessionVars, ServeTypeOK, SessionTypeOK
    <2>2. /\ pc' \in [Supervisors -> {"off"} \cup Running \cup Over]
          /\ \A q \in Supervisors : pc[q] = "turn" => pc'[q] = "turn"
      BY <1>6 DEF Sigint, InLoop, Goto, ServeTypeOK, Running, Looping
    <2> QED BY <1>6, <2>1, <2>2 DEF Sigint, historyVars, ServeTypeOK
  <1>7. CASE RequestInterrupt
    BY <1>7, ServeAssumption DEF RequestInterrupt, sessionVars, ServeTypeOK, SessionTypeOK
  <1>8. CASE StopStep
    BY <1>8 DEF StopStep, BeginStop, ReadPids, StopClears, AtStop, Removes, Files, sessionVars,
                historyVars, ServeTypeOK, SessionTypeOK
  <1>9. ASSUME NEW p \in Supervisors, Missed(p) PROVE ServeTypeOK'
    BY <1>9 DEF Missed, Terminate, sessionVars, historyVars, ServeTypeOK, SessionTypeOK
  <1>10. ASSUME NEW e \in Events, Reclaim(e) PROVE ServeTypeOK'
    BY <1>10 DEF Reclaim, sessionVars, historyVars, ServeTypeOK, SessionTypeOK
  <1>11. CASE UNCHANGED serveVars
    BY <1>11 DEF serveVars, sessionVars, runVars, historyVars, ServeTypeOK, SessionTypeOK
  <1> QED
    BY <1>1, <1>2, <1>3, <1>4, <1>5, <1>6, <1>7, <1>8, <1>9, <1>10, <1>11, StepCases
    DEF StepOf
-----------------------------------------------------------------------------
(* Sessions, workers and answers *)

LEMMA NoSessionKept ==
  ASSUME ServeInv, [ServeNext]_serveVars
  PROVE  NoSessionOutside' /\ WorkIsWaitedFor'
  <1> USE DEF ServeInv, ServeTypeOK, SessionTypeOK, NoSessionOutside, WorkIsWaitedFor, Waiting,
              Idle, OutOfLoop, Looping, Serving, Running, Over
  <1>1. ASSUME NEW p \in Supervisors, SessionStep(p)
        PROVE  NoSessionOutside' /\ WorkIsWaitedFor'
    <2>1. UNCHANGED pc
      BY <1>1, SessionStepFacts
    <2>2. CASE Recycle(p)
      BY <2>1, <2>2 DEF Recycle, Close, LeftByClose
    <2>3. CASE Turn(p) /\ (Send(p) \/ Receive(p) \/ Timeout(p))
      BY <2>1, <2>3 DEF Turn, Send, Receive, Timeout, WorkAfterTimeout, AnswersTheTurn
    <2>4. CASE SignalTakes(p) \/ WorkerDies(p)
      BY <2>1, <2>4 DEF SignalTakes, WorkerDies
    <2>5. CASE \E e \in Events : Commit(p, e) \/ Reply(p, e)
      BY <2>1, <2>5 DEF Commit, Reply
    <2> QED BY <1>1, <2>2, <2>3, <2>4, <2>5 DEF SessionStep
  <1>2. ASSUME NEW p \in Supervisors, LoopStep(p)
        PROVE  NoSessionOutside' /\ WorkIsWaitedFor'
    <2>1. CASE Top(p) \/ LastIteration(p) \/ Unlink(p)
      BY <2>1 DEF Top, LastIteration, Unlink, Goto, sessionVars
    <2>2. CASE Forward(p)
      BY <2>2 DEF Forward, Interrupt, Goto, sessionVars
    <2>3. CASE Ensure(p)
      BY <2>3 DEF Ensure, StartWorker, Goto, sessionVars
    <2>4. CASE Claim(p)
      BY <2>4 DEF Claim, TakeTurn, Goto, sessionVars
    <2>5. CASE Settle(p)
      BY <2>5 DEF Settle, EndTurn, TurnOver, Goto
    <2> QED BY <1>2, <2>1, <2>2, <2>3, <2>4, <2>5 DEF LoopStep
  <1>3. ASSUME NEW p \in Supervisors, Gone(p)
        PROVE  NoSessionOutside' /\ WorkIsWaitedFor'
    BY <1>3 DEF Gone, Shut, StopWorkers, Close, LeftByClose, Dies, Orphan, Goto, Kinds
  <1>4. ASSUME NEW p \in Supervisors, Start(p) \/ WriteFile(p) \/ ClearFile(p)
        PROVE  NoSessionOutside' /\ WorkIsWaitedFor'
    BY <1>4 DEF Start, WriteFile, ClearFile, Goto, sessionVars
  <1>5. ASSUME NEW p \in Supervisors, Sigint(p)
        PROVE  NoSessionOutside' /\ WorkIsWaitedFor'
    BY <1>5 DEF Sigint, InLoop, WorkerDies, Goto, sessionVars
  <1>6. CASE UNCHANGED <<sessionVars, pc>>
    BY <1>6 DEF sessionVars
  <1> QED
    BY <1>1, <1>2, <1>3, <1>4, <1>5, <1>6, StepCases
    DEF StepOf, Missed, StopStep, BeginStop, ReadPids, StopClears, RequestInterrupt, Reclaim,
        serveVars, runVars

LEMMA AnswersKept ==
  ASSUME ServeInv, [ServeNext]_serveVars
  PROVE  AnswersTheTurn'
  <1> USE DEF ServeInv, ServeTypeOK, SessionTypeOK, AnswersTheTurn, WorkIsWaitedFor, Waiting,
              Idle
  <1>1. ASSUME NEW p \in Supervisors, SessionStep(p)
        PROVE  AnswersTheTurn'
    <2>1. CASE Recycle(p)
      BY <2>1 DEF Recycle, Close, LeftByClose
    <2>2. CASE Send(p) \/ Receive(p) \/ Timeout(p)
      BY <2>2 DEF Send, Receive, Timeout, Result, WorkAfterTimeout
    <2>3. CASE SignalTakes(p) \/ WorkerDies(p)
      BY <2>3 DEF SignalTakes, WorkerDies
    <2>4. CASE \E e \in Events : Commit(p, e) \/ Reply(p, e)
      BY <2>4 DEF Commit, Reply
    <2> QED BY <1>1, <2>1, <2>2, <2>3, <2>4 DEF SessionStep
  <1>2. ASSUME NEW p \in Supervisors, LoopStep(p)
        PROVE  AnswersTheTurn'
    <2>1. CASE UNCHANGED <<turn, reply, work, done>>
      BY <2>1
    <2>2. CASE Claim(p)
      BY <2>2 DEF Claim, TakeTurn, sessionVars
    <2>3. CASE Settle(p)
      BY <2>3 DEF Settle, EndTurn, TurnOver
    <2> QED
      BY <1>2, <2>1, <2>2, <2>3
      DEF LoopStep, Top, LastIteration, Unlink, Forward, Interrupt, Ensure, StartWorker,
          sessionVars
  <1>3. ASSUME NEW p \in Supervisors, Gone(p)
        PROVE  AnswersTheTurn'
    BY <1>3 DEF Gone, Shut, StopWorkers, Close, LeftByClose, Dies, Orphan
  <1>4. ASSUME NEW p \in Supervisors, Sigint(p)
        PROVE  AnswersTheTurn'
    BY <1>4 DEF Sigint, WorkerDies, sessionVars
  <1>5. CASE UNCHANGED sessionVars
    BY <1>5 DEF sessionVars
  <1> QED
    BY <1>1, <1>2, <1>3, <1>4, <1>5, StepCases
    DEF StepOf, Missed, StopStep, BeginStop, ReadPids, StopClears, RequestInterrupt, Reclaim,
        serveVars, runVars, Start, WriteFile, ClearFile
-----------------------------------------------------------------------------
(* Files, and "surface stop" *)

LEMMA FilesKept ==
  ASSUME ServeInv, [ServeNext]_serveVars
  PROVE  FilesNotItsOwn'
  <1> USE DEF ServeInv, ServeTypeOK, FilesNotItsOwn, Files, Looping, Running, Serving, Over
  <1>1. ASSUME NEW p \in Supervisors, LoopStep(p) \/ Gone(p)
        PROVE  FilesNotItsOwn'
    BY <1>1, LoopStepFacts, GoneFacts
  <1>2. ASSUME NEW p \in Supervisors, Start(p) \/ WriteFile(p) \/ ClearFile(p)
        PROVE  FilesNotItsOwn'
    BY <1>2, ServeAssumption DEF Start, WriteFile, Writes, ClearFile, Removes, Goto
  <1>3. ASSUME NEW p \in Supervisors, Sigint(p)
        PROVE  FilesNotItsOwn'
    BY <1>3 DEF Sigint, Goto
  <1>4. CASE StopClears
    BY <1>4, ServeAssumption DEF StopClears, Removes
  <1>5. CASE UNCHANGED <<pc, file>>
    BY <1>5
  <1> QED
    BY <1>1, <1>2, <1>3, <1>4, <1>5, StepCases, SessionStepFacts
    DEF StepOf, Missed, StopStep, Terminate, BeginStop, ReadPids, RequestInterrupt, Reclaim,
        serveVars, runVars

LEMMA AloneKept ==
  ASSUME ServeInv, [ServeNext]_serveVars
  PROVE  AloneRuns'
  <1> USE DEF ServeInv, ServeTypeOK, AloneRuns, Looping, Running, Serving, Over
  <1>1. ASSUME NEW p \in Supervisors, LoopStep(p)
        PROVE  AloneRuns'
    BY <1>1, LoopStepFacts
  <1>2. ASSUME NEW p \in Supervisors, Gone(p)
        PROVE  AloneRuns'
    BY <1>2, GoneFacts DEF Forgotten
  <1>3. ASSUME NEW p \in Supervisors, Start(p)
        PROVE  AloneRuns'
    BY <1>3 DEF Start, Goto
  <1>4. ASSUME NEW p \in Supervisors, WriteFile(p) \/ ClearFile(p) \/ Sigint(p)
        PROVE  AloneRuns'
    BY <1>4 DEF WriteFile, ClearFile, Sigint, Goto, historyVars
  <1>5. CASE UNCHANGED <<pc, alone>>
    BY <1>5
  <1> QED
    BY <1>1, <1>2, <1>3, <1>4, <1>5, StepCases, SessionStepFacts
    DEF StepOf, Missed, StopStep, BeginStop, ReadPids, StopClears, RequestInterrupt, Reclaim,
        serveVars, runVars, historyVars

LEMMA StopKept ==
  ASSUME ServeInv, [ServeNext]_serveVars
  PROVE  StopFinds' /\ StopStops'
  <1> USE DEF ServeInv, ServeTypeOK, AloneRuns, StopFinds, StopStops, InLoop, Files,
              Looping, Running, Serving, Over
  <1>1. ASSUME NEW p \in Supervisors, LoopStep(p)
        PROVE  StopFinds' /\ StopStops'
    BY <1>1, LoopStepFacts
  <1>2. ASSUME NEW p \in Supervisors, Gone(p)
        PROVE  StopFinds' /\ StopStops'
    BY <1>2, GoneFacts DEF Gone, Forgotten, Terminate, AtStop
  <1>3. ASSUME NEW p \in Supervisors, Start(p)
        PROVE  StopFinds' /\ StopStops'
    BY <1>3 DEF Start, Goto
  <1>4. ASSUME NEW p \in Supervisors, WriteFile(p) \/ ClearFile(p) \/ Sigint(p)
        PROVE  StopFinds' /\ StopStops'
    BY <1>4, ServeAssumption
    DEF WriteFile, Writes, ClearFile, Removes, Sigint, Goto, historyVars
  <1>5. ASSUME NEW p \in Supervisors, Missed(p)
        PROVE  StopFinds' /\ StopStops'
    <2>1. ~InLoop(p)
      BY <1>5 DEF Missed, Terminate, Dies, Goto, Orphan
    <2> QED BY <1>5, <2>1 DEF Missed, Terminate, AtStop, historyVars
  <1>6. CASE StopStep
    BY <1>6, ServeAssumption
    DEF StopStep, BeginStop, ReadPids, StopClears, AtStop, Removes, historyVars
  <1>7. CASE UNCHANGED <<pc, file, stopper, alone, aim>>
    BY <1>7
  <1> QED
    BY <1>1, <1>2, <1>3, <1>4, <1>5, <1>6, <1>7, StepCases, SessionStepFacts
    DEF StepOf, RequestInterrupt, Reclaim, serveVars, runVars, historyVars
-----------------------------------------------------------------------------
(* Interrupts *)

LEMMA FlagKept ==
  ASSUME ServeInv, [ServeNext]_serveVars
  PROVE  FlagWasAsked'
  <1> USE DEF ServeInv, ServeTypeOK, SessionTypeOK, FlagWasAsked, NoSessionOutside, OutOfLoop,
              Looping, Running, Serving, Over
  <1>1. ASSUME NEW p \in Supervisors, SessionStep(p)
        PROVE  FlagWasAsked'
    <2>1. \A q \in Supervisors : session[q] = "none" /\ pc[q] # "turn" => session'[q] = "none"
      <3>1. CASE Recycle(p) \/ Send(p) \/ Receive(p) \/ WorkerDies(p)
        BY <3>1 DEF Recycle, Close, Send, Receive, WorkerDies
      <3>2. CASE Timeout(p)
        BY <3>2 DEF Timeout, Waiting, Idle
      <3>3. CASE SignalTakes(p)
        BY <3>3 DEF SignalTakes, SignalWasMade
      <3>4. CASE \E e \in Events : Commit(p, e) \/ Reply(p, e)
        BY <3>4 DEF Commit, Reply
      <3> QED BY <1>1, <3>1, <3>2, <3>3, <3>4 DEF SessionStep
    <2> QED BY <1>1, <2>1, SessionStepFacts
  <1>2. ASSUME NEW p \in Supervisors, LoopStep(p)
        PROVE  FlagWasAsked'
    <2>1. CASE Top(p) \/ LastIteration(p)
      BY <2>1 DEF Top, LastIteration, Goto, sessionVars, historyVars
    <2>2. CASE Forward(p)
      BY <2>2 DEF Forward, Interrupt, Goto, sessionVars
    <2>3. CASE Unlink(p)
      BY <2>3 DEF Unlink, FlagGone, Goto, sessionVars, historyVars
    <2>4. CASE Ensure(p)
      BY <2>4 DEF Ensure, StartWorker, Goto, sessionVars, historyVars
    <2>5. CASE Claim(p) \/ Settle(p)
      BY <2>5 DEF Claim, TakeTurn, Settle, EndTurn, Goto, sessionVars, historyVars
    <2> QED BY <1>2, <2>1, <2>2, <2>3, <2>4, <2>5 DEF LoopStep
  <1>3. ASSUME NEW p \in Supervisors, Gone(p)
        PROVE  FlagWasAsked'
    <2>1. \A q \in Supervisors \ {p} : session'[q] = session[q]
      BY <1>3 DEF Gone, Shut, StopWorkers, Close, Dies, Orphan
    <2> QED BY <1>3, <2>1, GoneFacts DEF Forgotten
  <1>4. ASSUME NEW p \in Supervisors, Start(p) \/ WriteFile(p) \/ ClearFile(p)
        PROVE  FlagWasAsked'
    BY <1>4 DEF Start, WriteFile, ClearFile, Goto, sessionVars, historyVars
  <1>5. ASSUME NEW p \in Supervisors, Sigint(p)
        PROVE  FlagWasAsked'
    BY <1>5 DEF Sigint, WorkerDies, Goto, sessionVars, historyVars
  <1>6. CASE RequestInterrupt
    BY <1>6 DEF RequestInterrupt, sessionVars
  <1>7. CASE UNCHANGED <<session, pc, flag, asked>>
    BY <1>7
  <1> QED
    BY <1>1, <1>2, <1>3, <1>4, <1>5, <1>6, <1>7, StepCases
    DEF StepOf, Missed, StopStep, Terminate, BeginStop, ReadPids, StopClears, Reclaim,
        serveVars, sessionVars, runVars, historyVars

LEMMA SignalKept ==
  ASSUME ServeInv, [ServeNext]_serveVars
  PROVE  SignalWasMade'
  <1> USE DEF ServeInv, ServeTypeOK, SessionTypeOK, SignalWasMade, NoSessionOutside, OutOfLoop
  <1>1. ASSUME NEW p \in Supervisors, SessionStep(p)
        PROVE  SignalWasMade'
    <2>1. CASE Recycle(p)
      BY <1>1, <2>1, SessionStepFacts DEF Recycle, Close
    <2>2. CASE ~Recycle(p)
      <3>1. \A q \in Supervisors : signal[q] = "none" => signal'[q] = "none"
        BY <1>1, <2>2 DEF SessionStep, Send, Receive, Timeout, SignalTakes, WorkerDies, Commit,
                          Reply
      <3>2. \A q \in Supervisors : session'[q] = "none" => session[q] = "none"
        BY <1>1, <2>2 DEF SessionStep, Send, Receive, Timeout, SignalTakes, WorkerDies, Commit,
                          Reply
      <3> QED BY <1>1, <3>1, <3>2, SessionStepFacts
    <2> QED BY <2>1, <2>2
  <1>2. ASSUME NEW p \in Supervisors, LoopStep(p)
        PROVE  SignalWasMade'
    <2>1. CASE Forward(p)
      BY <2>1 DEF Forward, Interrupt, sessionVars
    <2>2. CASE Ensure(p)
      BY <2>2 DEF Ensure, StartWorker, sessionVars, historyVars
    <2>3. CASE Settle(p)
      BY <2>3 DEF Settle, EndTurn
    <2>4. CASE UNCHANGED <<signal, session, unspent>>
      BY <2>4
    <2> QED
      BY <1>2, <2>1, <2>2, <2>3, <2>4
      DEF LoopStep, Top, LastIteration, Unlink, Claim, TakeTurn, sessionVars, historyVars
  <1>3. ASSUME NEW p \in Supervisors, Gone(p)
        PROVE  SignalWasMade'
    <2>1. /\ signal' = [signal EXCEPT ![p] = "none"]
          /\ session' = [session EXCEPT ![p] = "none"]
      BY <1>3 DEF Gone, Shut, StopWorkers, Close, Dies, Orphan
    <2> QED BY <1>3, <2>1, GoneFacts DEF Forgotten
  <1>4. ASSUME NEW p \in Supervisors, Sigint(p)
        PROVE  SignalWasMade'
    BY <1>4 DEF Sigint, WorkerDies, sessionVars, historyVars
  <1>5. CASE UNCHANGED <<signal, session, unspent>>
    BY <1>5
  <1> QED
    BY <1>1, <1>2, <1>3, <1>4, <1>5, StepCases
    DEF StepOf, Missed, StopStep, BeginStop, ReadPids, StopClears, Reclaim, RequestInterrupt,
        Start, WriteFile, ClearFile, serveVars, sessionVars, runVars,
        historyVars
-----------------------------------------------------------------------------
(* The invariant *)

LEMMA ServeInitInv == ServeInit => ServeInv
  <1> SUFFICES ASSUME ServeInit PROVE ServeInv
    OBVIOUS
  <1> USE DEF ServeInit, SessionInit
  <1>1. ServeTypeOK
    <2>1. SessionTypeOK
      BY DEF SessionTypeOK
    <2>2. \A p \in Supervisors : turn[p] = Idle
      OBVIOUS
    <2>3. stopper \in [step : {"none", "read", "kill", "forget", "done"},
                      found : SUBSET Supervisors]
      OBVIOUS
    <2>4. interrupts \in 0..MaxInterrupts
      BY ServeAssumption
    <2>5. /\ status \in [Events -> {"pending", "processing", "acked", "failed"}]
          /\ pc \in [Supervisors -> {"off"} \cup Running \cup Over]
          /\ file \in [Files -> Supervisors \cup {Nobody}]
      OBVIOUS
    <2>6. asked \in [Supervisors -> Int] /\ unspent \in [Supervisors -> Int]
      OBVIOUS
    <2>7. flag \in BOOLEAN /\ stopping = {} /\ alone = {} /\ aim = {}
      OBVIOUS
    <2> HIDE DEF ServeInit
    <2> QED BY <2>1, <2>2, <2>3, <2>4, <2>5, <2>6, <2>7 DEF ServeTypeOK
  <1>2. NoSessionOutside /\ AnswersTheTurn /\ WorkIsWaitedFor
    BY DEF NoSessionOutside, AnswersTheTurn, WorkIsWaitedFor
  <1>3. FilesNotItsOwn /\ FlagWasAsked /\ SignalWasMade
    BY ServeAssumption DEF FilesNotItsOwn, FlagWasAsked, SignalWasMade, Files
  <1>4. AloneRuns /\ StopFinds /\ StopStops
    BY DEF AloneRuns, StopFinds, StopStops
  <1> QED BY <1>1, <1>2, <1>3, <1>4 DEF ServeInv

LEMMA ServeNextInv == ServeInv /\ [ServeNext]_serveVars => ServeInv'
  BY TypesKept, NoSessionKept, AnswersKept, FilesKept, AloneKept, StopKept, FlagKept, SignalKept
  DEF ServeInv

\* The inductive invariant holds in every reachable state.
THEOREM ServeInvHolds == ServeSpec => []ServeInv
  BY ServeInitInv, ServeNextInv, PTL DEF ServeSpec

\* Sessions, files, positions and histories have values of their types, and a
\* process has a turn only while its loop is at one.
THEOREM ServeTypes == ServeSpec => []ServeTypeOK
  <1>1. ServeInv => ServeTypeOK
    BY DEF ServeInv
  <1> QED BY <1>1, ServeInvHolds, PTL

\* "surface stop" finds a process that runs alone, whatever an earlier crash
\* left in the runtime directory, and ends it before it removes the files.
THEOREM StopEndsTheLoop == ServeSpec => []StopStops
  <1>1. ServeInv => StopStops
    BY DEF ServeInv
  <1> QED BY <1>1, ServeInvHolds, PTL

\* A process that ended cleanly is named in no file and left nothing at work,
\* but for an ACP agent that was given up waiting for.
THEOREM EndIsClean == ServeSpec => []CleanEnd
  <1>1. ServeInv => CleanEnd
    BY DEF ServeInv, FilesNotItsOwn, NoSessionOutside, CleanEnd, OutOfLoop, Over, Files
  <1> QED BY <1>1, ServeInvHolds, PTL

\* An interrupt costs a process one turn at most, and none that was asked for
\* before the process began.
THEOREM InterruptsFireOnce == ServeSpec => []InterruptFiresOnce
  <1>1. ServeInv => InterruptFiresOnce
    BY DEF ServeInv, FlagWasAsked, SignalWasMade, InterruptFiresOnce
  <1> QED BY <1>1, ServeInvHolds, PTL

\* While its supervisor runs, a native or resume worker is at nothing but the
\* turn that is waited for.
THEOREM NobodyWorksOn == ServeSpec => []WorkIsWaitedFor
  <1>1. ServeInv => WorkIsWaitedFor
    BY DEF ServeInv
  <1> QED BY <1>1, ServeInvHolds, PTL
-----------------------------------------------------------------------------
(* The transports *)

\* What the supervisors see of the turns.
SeenTurns == [p \in Supervisors |-> Seen(turn[p])]

LEMMA SeenFacts ==
  /\ Seen(Idle) = Idle
  /\ \A e \in Events :
       /\ \A r \in {"claimed", "sent"} :
            Seen([event |-> e, result |-> r]) = [event |-> e, result |-> "open"]
       /\ \A r \in {"ok", "error"} :
            Seen([event |-> e, result |-> r]) = [event |-> e, result |-> r]
  BY DEF Seen, Idle

\* A turn, and what a change of its result makes of it.
LEMMA TurnFacts ==
  ASSUME SessionTypeOK, NEW p \in Supervisors
  PROVE  /\ turn[p].result = "none" => turn[p] = Idle
         /\ turn[p].result # "none" =>
              /\ turn[p] = [event |-> turn[p].event, result |-> turn[p].result]
              /\ \A r : [turn[p] EXCEPT !.result = r] = [event |-> turn[p].event, result |-> r]
  BY DEF SessionTypeOK, Idle, TurnResults

\* A result is one step of the transport, sending is none.
LEMMA ResultIsFinish ==
  ASSUME ServeInv, NEW p \in Supervisors, turn[p].result \in {"claimed", "sent"},
         NEW r \in {"sent", "ok", "error"}, turn' = [turn EXCEPT ![p].result = r],
         UNCHANGED done, r = "ok" => turn[p].event \in done
  PROVE  [Transport!TransportNext]_(Transport!transportVars)
  <1> DEFINE e == turn[p].event
  <1>0. /\ turn \in [Supervisors -> [event : Events, result : TurnResults] \cup {Idle}]
        /\ e \in Events
    BY TurnTypes DEF ServeInv, ServeTypeOK, SessionTypeOK
  <1>1. SeenTurns[p] = [event |-> e, result |-> "open"]
    BY <1>0, SeenFacts, TurnFacts DEF SeenTurns, ServeInv, ServeTypeOK
  <1>2. turn'[p] = [event |-> e, result |-> r]
    BY <1>0, TurnFacts DEF ServeInv, ServeTypeOK
  <1>3. SeenTurns' = [SeenTurns EXCEPT ![p] = Seen(turn'[p])]
    BY <1>0 DEF SeenTurns
  <1>4. CASE r = "sent"
    <2>1. SeenTurns' = SeenTurns
      BY <1>0, <1>1, <1>2, <1>3, <1>4, SeenFacts DEF SeenTurns
    <2> QED BY <2>1 DEF Transport!transportVars, SeenTurns
  <1>5. CASE r # "sent"
    <2>1. SeenTurns' = [SeenTurns EXCEPT ![p] = [event |-> e, result |-> r]]
      BY <1>0, <1>2, <1>3, <1>5, SeenFacts
    <2>2. [SeenTurns[p] EXCEPT !.result = r] = [event |-> e, result |-> r]
      BY <1>1
    <2>3. SeenTurns' = [SeenTurns EXCEPT ![p].result = r]
      BY <2>1, <2>2
    <2>4. Transport!Finish(p, r)
      BY <1>1, <2>3 DEF Transport!Finish, SeenTurns
    <2> QED BY <1>5, <2>4 DEF Transport!TransportNext, Transport!Outcomes
  <1> QED BY <1>4, <1>5

LEMMA StepIsTransportStep ==
  ASSUME ServeInv, [ServeNext]_serveVars
  PROVE  [Transport!TransportNext]_(Transport!transportVars)
  <1>0. SessionTypeOK
    BY DEF ServeInv, ServeTypeOK
  <1>1. ASSUME UNCHANGED <<turn, done>>
        PROVE  [Transport!TransportNext]_(Transport!transportVars)
    BY <1>1 DEF Transport!transportVars
  <1>2. ASSUME NEW p \in Supervisors, SessionStep(p)
        PROVE  [Transport!TransportNext]_(Transport!transportVars)
    <2>1. CASE Send(p)
      BY <2>1, ResultIsFinish DEF Send
    <2>2. CASE Receive(p)
      <3>1. Result(p) \in {"ok", "error"}
        BY <1>0 DEF SessionTypeOK, Result, Silence
      <3>2. Result(p) = "ok" => turn[p].event \in done
        BY DEF Result, Silence, ServeInv, AnswersTheTurn
      <3> QED BY <2>2, <3>1, <3>2, ResultIsFinish DEF Receive, Waiting
    <2>3. CASE Timeout(p)
      BY <2>3, ResultIsFinish DEF Timeout, Waiting
    <2>4. ASSUME NEW e \in Events, Commit(p, e)
          PROVE  [Transport!TransportNext]_(Transport!transportVars)
      <3>1. Transport!Commit(e)
        BY <2>4 DEF Commit, Transport!Commit
      <3> QED BY <3>1 DEF Transport!TransportNext
    <2> QED
      BY <1>1, <1>2, <2>1, <2>2, <2>3, <2>4
      DEF SessionStep, Recycle, Close, SignalTakes, WorkerDies, Reply
  <1>3. ASSUME NEW p \in Supervisors, NEW e \in Events, pc[p] = "claim", TakeTurn(p, e)
        PROVE  [Transport!TransportNext]_(Transport!transportVars)
    <2>1. turn[p] = Idle /\ SeenTurns[p] = Idle
      BY <1>3, SeenFacts DEF ServeInv, ServeTypeOK, SeenTurns
    <2>2. SeenTurns' = [SeenTurns EXCEPT ![p] = [event |-> e, result |-> "open"]]
      BY <1>0, <1>3, SeenFacts DEF TakeTurn, SessionTypeOK, SeenTurns
    <2>3. Transport!Give(p, e)
      BY <1>3, <2>1, <2>2 DEF TakeTurn, Transport!Give, Transport!Idle, Idle, SeenTurns
    <2> QED BY <2>3 DEF Transport!TransportNext
  <1>4. ASSUME NEW p \in Supervisors, turn' = [turn EXCEPT ![p] = Idle], UNCHANGED done
        PROVE  [Transport!TransportNext]_(Transport!transportVars)
    <2>1. SeenTurns' = [SeenTurns EXCEPT ![p] = Idle]
      BY <1>0, <1>4, SeenFacts DEF SessionTypeOK, SeenTurns
    <2>2. Transport!Leave({p})
      BY <1>4, <2>1 DEF Transport!Leave, Transport!Idle, Idle, SeenTurns
    <2> QED BY <2>2 DEF Transport!TransportNext
  <1>5. ASSUME NEW p \in Supervisors, LoopStep(p)
        PROVE  [Transport!TransportNext]_(Transport!transportVars)
    BY <1>1, <1>3, <1>4, <1>5
    DEF LoopStep, Top, LastIteration, Unlink, Forward, Interrupt, Ensure, StartWorker, Claim,
        Settle, EndTurn, TurnOver, sessionVars
  <1>6. ASSUME NEW p \in Supervisors, Gone(p)
        PROVE  [Transport!TransportNext]_(Transport!transportVars)
    BY <1>1, <1>4, <1>6, GoneFacts DEF Gone, Shut, StopWorkers, Close, Dies, Orphan
  <1> QED
    BY <1>1, <1>2, <1>5, <1>6, StepCases
    DEF StepOf, Missed, StopStep, BeginStop, ReadPids, StopClears, Reclaim, RequestInterrupt,
        Start, WriteFile, ClearFile, Sigint, WorkerDies, serveVars, sessionVars, runVars

\* Every transport does what a supervisor relies on: a turn ends once, and well
\* only when the effects of its event are durable.
THEOREM TransportImplemented == ServeSpec => ImplementsTransport
  <1>1. ServeInit => Transport!TransportInit
    BY SeenFacts DEF ServeInit, SessionInit, Transport!TransportInit, Transport!Idle, Idle
  <1>2. ServeInv /\ [ServeNext]_serveVars => [Transport!TransportNext]_(Transport!transportVars)
    BY StepIsTransportStep
  <1> QED
    BY <1>1, <1>2, ServeInvHolds, PTL DEF ServeSpec, ImplementsTransport, Transport!TransportSpec
=============================================================================
