----------------------------- MODULE ServeLoop -----------------------------
(***************************************************************************)
(* "surface serve" (surface/cli.py): processes that start, write the       *)
(* runtime directory, loop over interrupt flag and worker turns, and shut  *)
(* down; and the commands "surface stop" and "surface interrupt", which    *)
(* reach them through the files of that directory only.                    *)
(*                                                                         *)
(* A process handles SIGINT: the loop ends after its turn.  It does not    *)
(* handle SIGTERM, which ends it at once like a crash.  Claims are those   *)
(* of the inbox, without artifacts and attempts (Supervisor); the poll of  *)
(* each iteration is in JobPoller.  A pool of one; the runtime files are   *)
(* not kept, and stand in two groups: the address (token, port) and the    *)
(* pids (supervisor.pid, poller.pid, board.pid), each written at once.     *)
(***************************************************************************)
EXTENDS Transports, Sequences, FiniteSets

CONSTANTS Nobody,        \* the content of a file that does not exist
          MaxServing,    \* bound: processes at once that are not shutting down
          MaxInterrupts  \* bound: calls of "surface interrupt"

ASSUME ServeAssumption == /\ Nobody \notin Supervisors
                          /\ MaxEvents \in Nat /\ MaxServing \in Nat /\ MaxInterrupts \in Nat

VARIABLES status,    \* status[e] in the inbox
          pc,        \* pc[p]: where p's main thread is
          stopping,  \* processes whose stop_event is set
          file,      \* the runtime directory: who wrote each group of files
          flag,      \* interrupt_requested exists
          stopper,   \* "surface stop": where it is, the pids it found
          interrupts,\* calls of "surface interrupt" so far
          asked,     \* history: interrupts p was to make and has not made
          unspent,   \* history: interrupts p made that cost it no turn
          alone,     \* history: processes that ran with no other beside them
          aim        \* history: of these, the ones in their loop when stop began

runVars == <<status, pc, stopping, file, flag, stopper>>
historyVars == <<interrupts, asked, unspent, alone, aim>>
serveVars == <<sessionVars, runVars, historyVars>>

Files == {"address", "pids"}

Looping == {"top", "forward", "unlink", "ensure", "claim", "turn"}
Serving == {"address", "pids"} \cup Looping
Running == {"shut", "clear", "forget"} \cup Serving
Over    == {"ended", "killed"}
InLoop(p) == pc[p] \in Looping

ServeInit ==
  /\ SessionInit
  /\ status = [e \in Events |-> "pending"]
  /\ pc = [p \in Supervisors |-> "off"]
  /\ stopping = {}
  /\ file = [f \in Files |-> Nobody] /\ flag = FALSE
  /\ stopper = [step |-> "none", found |-> {}]
  /\ interrupts = 0
  /\ asked = [p \in Supervisors |-> 0] /\ unspent = [p \in Supervisors |-> 0]
  /\ alone = {} /\ aim = {}

Goto(p, place) == pc' = [pc EXCEPT ![p] = place]
-----------------------------------------------------------------------------
\* Broken variants of the definitions below, for the mutation checks: a file
\* that is kept when it exists, workers that are not stopped, a flag that stays.
FirstWrites(f, p) == file' = [file EXCEPT ![f] = IF @ = Nobody THEN p ELSE @]
WorkersLeft(p) == UNCHANGED sessionVars
FlagStays == UNCHANGED flag

(* Start *)

Start(p) ==
  /\ pc[p] = "off" /\ Cardinality({q \in Supervisors : pc[q] \in Serving}) < MaxServing
  /\ Goto(p, "address")
  /\ alone' = IF \E q \in Supervisors : pc[q] \in Running
                THEN alone \ {q \in Supervisors : pc[q] \in Running} ELSE alone \cup {p}
  /\ UNCHANGED <<sessionVars, status, stopping, file, flag, stopper,
                 interrupts, asked, unspent, aim>>

\* _write_runtime_file, whatever is there.
Writes(f, p) == file' = [file EXCEPT ![f] = p]
WriteFile(p) ==
  /\ \/ pc[p] = "address" /\ Writes("address", p) /\ Goto(p, "pids")
     \/ pc[p] = "pids" /\ Writes("pids", p) /\ Goto(p, "top")
  /\ UNCHANGED <<sessionVars, status, stopping, flag, stopper, historyVars>>
-----------------------------------------------------------------------------
(* The loop *)

\* stop_event is looked at between iterations only, and so is the flag.
Told(p) == p \in stopping
Top(p) ==
  /\ pc[p] = "top"
  /\ Goto(p, IF Told(p) THEN "shut" ELSE IF flag THEN "forward" ELSE "ensure")
  /\ UNCHANGED <<sessionVars, status, stopping, file, flag, stopper, historyVars>>

\* A bounded run ends by itself.
LastIteration(p) ==
  /\ pc[p] = "top"
  /\ Goto(p, "shut")
  /\ UNCHANGED <<sessionVars, status, stopping, file, flag, stopper, historyVars>>

\* request_worker_interrupt: without a session there is nothing to interrupt.
Forward(p) ==
  /\ pc[p] = "forward"
  /\ IF session[p] = "none"
       THEN UNCHANGED <<sessionVars, unspent>>
       ELSE Interrupt(p) /\ unspent' = [unspent EXCEPT ![p] = @ + 1]
  /\ asked' = [asked EXCEPT ![p] = IF session[p] = "none" THEN 0 ELSE @ - 1]
  /\ Goto(p, "unlink")
  /\ UNCHANGED <<status, stopping, file, flag, stopper,
                 interrupts, alone, aim>>

FlagGone == flag' = FALSE
Unlink(p) ==
  /\ pc[p] = "unlink"
  /\ FlagGone
  /\ Goto(p, "ensure")
  /\ UNCHANGED <<sessionVars, status, stopping, file, stopper, historyVars>>

\* claim_and_dispatch_event: _maybe_recycle, and a worker that may not start.
Recycle(p) ==
  /\ pc[p] = "ensure" /\ session[p] # "none"
  /\ Close(p)
  /\ UNCHANGED <<runVars, historyVars>>
Ensure(p) ==
  /\ pc[p] = "ensure"
  /\ \/ StartWorker(p) /\ Goto(p, "claim")
     \/ ~IsAlive(p) /\ UNCHANGED sessionVars /\ Goto(p, "top")
  /\ UNCHANGED <<status, stopping, file, flag, stopper, historyVars>>

Claim(p) ==
  /\ pc[p] = "claim"
  /\ \/ \E e \in Events : /\ status[e] = "pending"
                          /\ status' = [status EXCEPT ![e] = "processing"]
                          /\ TakeTurn(p, e)
                          /\ Goto(p, "turn")
     \/ /\ \A e \in Events : status[e] # "pending"
        /\ Goto(p, "top")
        /\ UNCHANGED <<sessionVars, status>>
  /\ UNCHANGED <<stopping, file, flag, stopper, historyVars>>

Turn(p) == /\ pc[p] = "turn"
           /\ Send(p) \/ Receive(p) \/ Timeout(p)
           /\ UNCHANGED <<runVars, historyVars>>

\* ack, or _handle_dispatch_failure: left to its lease, or failed for good.
Settle(p) ==
  /\ pc[p] = "turn" /\ turn[p].result \in {"ok", "error"}
  /\ LET e == turn[p].event IN
       \/ turn[p].result = "ok" /\ status' = [status EXCEPT ![e] = "acked"]
       \/ turn[p].result = "error" /\ UNCHANGED status
       \/ turn[p].result = "error" /\ status' = [status EXCEPT ![e] = "failed"]
  /\ unspent' = IF turn[p].result = "error" /\ signal[p] = "cut"
                  THEN [unspent EXCEPT ![p] = @ - 1] ELSE unspent
  /\ EndTurn(p)
  /\ Goto(p, "top")
  /\ UNCHANGED <<stopping, file, flag, stopper, interrupts, asked, alone, aim>>
-----------------------------------------------------------------------------
(* The end of a process *)

\* Ctrl-C: the terminal sends it to the worker process too.  Before the loop it
\* is an exception.
Sigint(p) ==
  /\ pc[p] \in Serving /\ p \notin stopping
  /\ stopping' = stopping \cup {p}
  /\ IF InLoop(p) THEN UNCHANGED pc ELSE Goto(p, "shut")
  /\ UNCHANGED sessionVars \/ (kind # "acp" /\ WorkerDies(p))
  /\ UNCHANGED <<status, file, flag, stopper, historyVars>>

\* The process has left the loop: what was asked of it is forgotten.
Forgotten(p) ==
  /\ stopping' = stopping \ {p}
  /\ asked' = [asked EXCEPT ![p] = 0] /\ unspent' = [unspent EXCEPT ![p] = 0]
  /\ alone' = alone \ {p} /\ aim' = aim \ {p}
  /\ UNCHANGED interrupts

StopWorkers(p) == Close(p)
Shut(p) ==
  /\ pc[p] = "shut"
  /\ StopWorkers(p)
  /\ Goto(p, "clear")
  /\ Forgotten(p)
  /\ UNCHANGED <<status, file, flag, stopper>>

\* _clear_runtime_files, whoever wrote them.
Removes(f) == file' = [file EXCEPT ![f] = Nobody]
ClearFile(p) ==
  /\ \/ pc[p] = "clear" /\ Removes("pids") /\ Goto(p, "forget")
     \/ pc[p] = "forget" /\ Removes("address") /\ Goto(p, "ended")
  /\ UNCHANGED <<sessionVars, status, stopping, flag, stopper, historyVars>>

\* SIGTERM, a second Ctrl-C while it shuts down, or a crash.
Dies(p) == Goto(p, "killed") /\ Orphan(p) /\ Forgotten(p)
Crash(p) ==
  /\ pc[p] \in Running
  /\ Dies(p)
  /\ UNCHANGED <<status, file, flag, stopper>>
-----------------------------------------------------------------------------
(* The other commands, and the inbox *)

\* surface interrupt
RequestInterrupt ==
  /\ interrupts < MaxInterrupts
  /\ interrupts' = interrupts + 1
  /\ flag' = TRUE
  /\ asked' = [p \in Supervisors |-> IF pc[p] \in Serving THEN 1 ELSE asked[p]]
  /\ UNCHANGED <<sessionVars, status, pc, stopping, file, stopper, unspent, alone, aim>>

(* surface stop *)

AtStop(step) == stopper.step = step
BeginStop ==
  /\ AtStop("none")
  /\ stopper' = [stopper EXCEPT !.step = "read"]
  /\ aim' = {p \in alone : InLoop(p)}
  /\ UNCHANGED <<sessionVars, status, pc, stopping, file, flag, interrupts, asked, unspent, alone>>

ReadPids ==
  /\ AtStop("read")
  /\ stopper' = [step |-> "kill", found |-> {file["pids"]} \ {Nobody}]
  /\ UNCHANGED <<sessionVars, status, pc, stopping, file, flag, historyVars>>

\* SIGTERM to the processes that are found and still run, one after another.
Terminate(p) ==
  /\ AtStop("kill") /\ p \in stopper.found
  /\ stopper' = [stopper EXCEPT !.found = @ \ {p}]
  /\ IF pc[p] \in Running THEN Dies(p) ELSE UNCHANGED <<sessionVars, pc, stopping, historyVars>>
  /\ UNCHANGED <<status, file, flag>>

StopClears ==
  /\ \/ AtStop("kill") /\ stopper.found = {} /\ Removes("pids")
        /\ stopper' = [stopper EXCEPT !.step = "forget"]
     \/ AtStop("forget") /\ Removes("address")
        /\ stopper' = [stopper EXCEPT !.step = "done"]
  /\ UNCHANGED <<sessionVars, status, pc, stopping, flag, historyVars>>

Stop == BeginStop \/ ReadPids \/ StopClears \/ \E p \in Supervisors : Terminate(p)

\* A lease runs out: of an event that no process has a turn on (WorksUnderLease),
\* or under the resume transport, which waits longer than a lease lasts.
Reclaim(e) ==
  /\ status[e] = "processing"
  /\ kind = "resume" \/ \A p \in Supervisors : turn[p].event # e
  /\ status' = [status EXCEPT ![e] = "pending"]
  /\ UNCHANGED <<sessionVars, pc, stopping, file, flag, stopper, historyVars>>

Serve(p) == \/ WriteFile(p) \/ Top(p) \/ Forward(p) \/ Unlink(p) \/ Ensure(p) \/ Claim(p)
            \/ Turn(p) \/ Settle(p) \/ Shut(p) \/ ClearFile(p)
Worker(p) == /\ \/ SignalTakes(p) \/ WorkerDies(p)
                \/ \E e \in Events : Commit(p, e) \/ Reply(p, e)
             /\ UNCHANGED <<runVars, historyVars>>
Users == RequestInterrupt \/ Stop \/ \E p \in Supervisors : Start(p) \/ Sigint(p) \/ Crash(p)

ServeNext == \/ \E p \in Supervisors : Serve(p) \/ LastIteration(p) \/ Recycle(p) \/ Worker(p)
             \/ Users
             \/ \E e \in Events : Reclaim(e)

\* A process goes on until it is stopped or killed.  Nobody else owes anything.
ServeSpec == ServeInit /\ [][ServeNext]_serveVars /\ \A p \in Supervisors : WF_serveVars(Serve(p))
-----------------------------------------------------------------------------
\* Sessions, files, positions and histories have values of their types, and a
\* process has a turn only while its loop is at one.
ServeTypeOK ==
  /\ SessionTypeOK
  /\ status \in [Events -> {"pending", "processing", "acked", "failed"}]
  /\ pc \in [Supervisors -> {"off"} \cup Running \cup Over]
  /\ stopping \subseteq Supervisors
  /\ file \in [Files -> Supervisors \cup {Nobody}] /\ flag \in BOOLEAN
  /\ stopper \in [step : {"none", "read", "kill", "forget", "done"}, found : SUBSET Supervisors]
  /\ interrupts \in 0..MaxInterrupts
  /\ asked \in [Supervisors -> Int] /\ unspent \in [Supervisors -> Int]
  /\ alone \subseteq Supervisors /\ aim \subseteq Supervisors
  /\ \A p \in Supervisors : turn[p] # Idle => pc[p] = "turn"

\* A process that ran alone is found by "surface stop" and no longer in its loop
\* when stop removes the files, whatever files a crash before it left behind.
\* (Two processes at once overwrite and remove each other's files.)
StopStops ==
  stopper.step \in {"forget", "done"} => \A p \in aim \cap alone : ~InLoop(p)

\* After a clean end no file names the process and its worker is at nothing,
\* but for an ACP agent that was given up waiting for.
CleanEnd ==
  \A p \in Supervisors : pc[p] = "ended" =>
     /\ \A f \in Files : file[f] # p
     /\ session[p] = "none"
     /\ kind # "acp" => work[p] = {}

\* An interrupt costs a process one turn at most, and none that was asked for
\* before the process began: a flag left by a crash or given to nobody does not
\* fire at the next worker, and one flag does not fire again and again.
InterruptFiresOnce ==
  \A p \in Supervisors : asked[p] >= 0 /\ unspent[p] >= 0

\* While its supervisor runs, a worker is at nothing but the turn that is waited
\* for: after a timeout, an interrupt or a death nobody goes on in the background.
\* (The ACP transport gives up waiting without cancelling.)
WorkIsWaitedFor ==
  \A p \in Supervisors : pc[p] \in Running /\ kind # "acp" =>
     work[p] \subseteq {turn[p].event} /\ (work[p] # {} => Waiting(p))

\* A session that was just found dead is not used again: the next turn goes to a
\* new one.
DeadIsReplaced ==
  [][\A p \in Supervisors :
       (pc[p] = "ensure" /\ pc'[p] = "claim" /\ ~IsAlive(p)) => session'[p] = "up"]_serveVars
=============================================================================
