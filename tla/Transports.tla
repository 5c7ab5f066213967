----------------------------- MODULE Transports -----------------------------
(***************************************************************************)
(* The three transports a supervisor may reach its worker through          *)
(* (surface/transports): the native stream (a process that lives for many  *)
(* turns), resume (a process for each turn) and ACP (an agent behind a     *)
(* client, which outlives what the client gives up waiting for).           *)
(*                                                                         *)
(* The actions are those of one supervisor p and of its worker; ServeLoop  *)
(* says when they happen.  The lines on the native stream, and interrupts  *)
(* from other threads, are in Supervisor.  What a worker answers is taken  *)
(* to be true: ok is only said of an event that was handled (an ACP        *)
(* response without "ok" counts as such an answer).                        *)
(***************************************************************************)
EXTENDS Integers

CONSTANTS Supervisors,  \* supervisor processes, with a session each
          MaxEvents     \* how many events there are

VARIABLES kind,     \* the transport in use
          session,  \* session[p]: of p's session, whether its worker is up
          turn,     \* turn[p]: the event of p's turn and how far it is
          reply,    \* reply[p]: what p's worker answered to that turn
          work,     \* work[p]: the events p's worker is at
          signal,   \* signal[p]: what became of the last interrupt
          done      \* history: events whose effects are durable

sessionVars == <<kind, session, turn, reply, work, signal, done>>

Events == 1..MaxEvents
Kinds  == {"native", "resume", "acp"}
Idle   == [event |-> 0, result |-> "none"]

SessionInit ==
  /\ kind \in Kinds
  /\ session = [p \in Supervisors |-> "none"]
  /\ turn = [p \in Supervisors |-> Idle]
  /\ reply = [p \in Supervisors |-> "none"]
  /\ work = [p \in Supervisors |-> {}]
  /\ signal = [p \in Supervisors |-> "none"]
  /\ done = {}

Waiting(p) == turn[p].result = "sent"
-----------------------------------------------------------------------------
\* Broken variants of the definitions below, for the mutation checks: a worker
\* that works on after the timeout, silence taken for a good answer.
LeftAtWork(p, e) == work[p]
TakenForOk == "ok"

(* Sessions: start_worker, stop_worker *)

\* resume: the ACP transport finds the old session in its table and takes it
\* for active until it is closed; the other two have nothing to go back to.
Resumed(p) == IF kind = "acp" /\ session[p] = "dead" THEN "dead" ELSE "up"

\* (The resume transport's session is up for ever.)
IsAlive(p) == session[p] = "up"
StartWorker(p) ==
  /\ session' = [session EXCEPT ![p] = IF IsAlive(p) THEN "up" ELSE Resumed(p)]
  /\ signal' = IF IsAlive(p) THEN signal ELSE [signal EXCEPT ![p] = "none"]
  /\ UNCHANGED <<kind, turn, reply, work, done>>

\* close, between turns: a native process is terminated; an ACP agent that is
\* still at something is told that its session ends, no more.
LeftByClose(p) == IF kind = "native" THEN {} ELSE work[p]
Close(p) ==
  /\ session' = [session EXCEPT ![p] = "none"]
  /\ work' = [work EXCEPT ![p] = LeftByClose(p)]
  /\ signal' = [signal EXCEPT ![p] = "none"]
  /\ UNCHANGED <<kind, turn, reply, done>>
-----------------------------------------------------------------------------
(* send_event *)

\* A resume process may not start either.
Send(p) ==
  /\ turn[p].result = "claimed"
  /\ \/ /\ session[p] = "up"
        /\ turn' = [turn EXCEPT ![p].result = "sent"]
        /\ work' = [work EXCEPT ![p] = @ \cup {turn[p].event}]
     \/ /\ session[p] = "dead" \/ kind = "resume"
        /\ turn' = [turn EXCEPT ![p].result = "error"]
        /\ UNCHANGED work
  /\ reply' = [reply EXCEPT ![p] = "none"]
  /\ UNCHANGED <<kind, session, signal, done>>

\* Nobody is at the event and no answer came: the process closed its end or
\* exited with an error, the client raised.
Silence == "error"
Result(p) == IF reply[p] = "none" THEN Silence ELSE reply[p]
Receive(p) ==
  /\ Waiting(p)
  /\ reply[p] # "none" \/ turn[p].event \notin work[p]
  /\ turn' = [turn EXCEPT ![p].result = Result(p)]
  /\ UNCHANGED <<kind, session, reply, work, signal, done>>

\* The timeout kills the process of a native or resume turn, and poisons the
\* native session; an ACP agent goes on.
WorkAfterTimeout(p, e) == IF kind = "acp" THEN work[p] ELSE work[p] \ {e}
Timeout(p) ==
  /\ Waiting(p) /\ reply[p] = "none"
  /\ turn' = [turn EXCEPT ![p].result = "error"]
  /\ work' = [work EXCEPT ![p] = WorkAfterTimeout(p, turn[p].event)]
  /\ session' = [session EXCEPT ![p] = IF kind = "native" THEN "dead" ELSE @]
  /\ UNCHANGED <<kind, reply, signal, done>>

(* interrupt *)

\* SIGINT, or a request to the agent to cancel, neither of which works at once;
\* the resume transport has no such thing.
Interrupt(p) ==
  /\ signal' = IF kind # "resume" /\ session[p] = "up"
                 THEN [signal EXCEPT ![p] = "sent"] ELSE signal
  /\ UNCHANGED <<kind, session, turn, reply, work, done>>

\* The turn p begins or waits for is lost when the signal takes effect.
Exposed(p) == \/ kind = "native" /\ turn[p].result = "claimed"
              \/ Waiting(p) /\ reply[p] = "none" /\ turn[p].event \in work[p]
SignalTakes(p) ==
  /\ signal[p] = "sent"
  /\ signal' = [signal EXCEPT ![p] = IF Exposed(p) THEN "cut" ELSE "none"]
  /\ session' = [session EXCEPT ![p] = IF kind = "native" THEN "dead" ELSE @]
  /\ work' = [work EXCEPT ![p] = {}]
  /\ UNCHANGED <<kind, turn, reply, done>>
-----------------------------------------------------------------------------
(* The worker's side *)

\* The last transaction of the event's handler.
Commit(p, e) == /\ e \in work[p] \ done
                /\ done' = done \cup {e}
                /\ UNCHANGED <<kind, session, turn, reply, work, signal>>

\* The answer to a turn that is waited for; of another there is nobody to read it.
Reply(p, e) ==
  /\ e \in work[p]
  /\ work' = [work EXCEPT ![p] = @ \ {e}]
  /\ \/ /\ Waiting(p) /\ turn[p].event = e
        /\ \E answer \in {"ok", "error"} : /\ answer = "ok" => e \in done
                                           /\ reply' = [reply EXCEPT ![p] = answer]
     \/ /\ ~(Waiting(p) /\ turn[p].event = e)
        /\ UNCHANGED reply
  /\ UNCHANGED <<kind, session, turn, signal, done>>

\* The process dies, or the agent with its session.
WorkerDies(p) ==
  /\ session[p] = "up"
  /\ session' = [session EXCEPT ![p] = IF kind = "resume" THEN "up" ELSE "dead"]
  /\ work' = [work EXCEPT ![p] = {}]
  /\ UNCHANGED <<kind, turn, reply, signal, done>>

\* p is gone.  Its worker finishes the line or the turn it is at, which is left
\* out: it would only add to done.
Orphan(p) ==
  /\ session' = [session EXCEPT ![p] = "none"]
  /\ turn' = [turn EXCEPT ![p] = Idle]
  /\ reply' = [reply EXCEPT ![p] = "none"]
  /\ signal' = [signal EXCEPT ![p] = "none"]
  /\ work' = [work EXCEPT ![p] = {}]
  /\ UNCHANGED <<kind, done>>

(* Around the turn *)

TakeTurn(p, e) ==
  /\ turn' = [turn EXCEPT ![p] = [event |-> e, result |-> "claimed"]]
  /\ UNCHANGED <<kind, session, reply, work, signal, done>>

TurnOver(p) == turn' = [turn EXCEPT ![p] = Idle]
EndTurn(p) ==
  /\ TurnOver(p)
  /\ reply' = [reply EXCEPT ![p] = "none"]
  /\ signal' = IF signal[p] = "cut" THEN [signal EXCEPT ![p] = "none"] ELSE signal
  /\ UNCHANGED <<kind, session, work, done>>
-----------------------------------------------------------------------------
TurnResults == {"claimed", "sent", "ok", "error"}
SessionTypeOK ==
  /\ kind \in Kinds
  /\ session \in [Supervisors -> {"none", "up", "dead"}]
  /\ turn \in [Supervisors -> [event : Events, result : TurnResults] \cup {Idle}]
  /\ reply \in [Supervisors -> {"none", "ok", "error"}]
  /\ work \in [Supervisors -> SUBSET Events]
  /\ signal \in [Supervisors -> {"none", "sent", "cut"}]
  /\ done \subseteq Events

\* What the supervisors rely on: open is a turn that is claimed or sent.
Seen(t) == IF t.result \in {"claimed", "sent"} THEN [t EXCEPT !.result = "open"] ELSE t
Transport == INSTANCE WorkerTransport
               WITH turn <- [p \in Supervisors |-> Seen(turn[p])]

\* Whichever transport is in use, a turn ends once, with one result, and well
\* only when the event's effects are durable.
ImplementsTransport == Transport!TransportSpec
=============================================================================
