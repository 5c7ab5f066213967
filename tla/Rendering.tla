----------------------------- MODULE Rendering ------------------------------
(***************************************************************************)
(* A bounded question and answer (surface/cli.py, render, wait, answer):   *)
(* render validates its stage configuration and leaves an interaction      *)
(* file, wait commands poll it, and answer commands write into it.         *)
(*                                                                         *)
(* The commands are processes of their own with nothing between them but   *)
(* the file.  write_text opens it, which empties it, and writes then: who  *)
(* reads in between finds nothing to parse, and of two answers that write  *)
(* at once the shorter one leaves the end of the longer one behind it.     *)
(***************************************************************************)
EXTENDS StageConfig

CONSTANTS Waits,     \* wait commands in progress
          Answers,   \* answer commands
          Values,    \* what they answer: numbers, a larger one is longer
          Invalid,   \* a --value that is no JSON
          MaxPolls   \* how often a wait may sleep within --max

ASSUME RenderingAssumption == /\ Values \subseteq Nat /\ Invalid \notin Values
                              /\ MaxPolls \in Nat

VARIABLES file,         \* the interaction file
          waiting,      \* waiting[w]: a wait's sleeps and its output
          answering,    \* answering[n]: an answer's next step and its value
          acknowledged, \* history: an answer command has said ok
          clashed       \* history: an answer was killed or met another one

interaction == <<file, waiting, answering, acknowledged, clashed>>

Missing == [status |-> "missing"]
Unreadable == [status |-> "unreadable"]
Pending == [status |-> "pending"]
Answered(v) == [status |-> "answered", value |-> v]

\* due: did it begin after an answer had been acknowledged?
NotWaiting == [step |-> "idle", polls |-> 0, due |-> FALSE]
NotAnswering == [step |-> "idle", value |-> Invalid]

RenderingInit ==
  /\ StageInit
  /\ file = Missing
  /\ waiting = [w \in Waits |-> NotWaiting]
  /\ answering = [n \in Answers |-> NotAnswering]
  /\ acknowledged = FALSE /\ clashed = FALSE
-----------------------------------------------------------------------------
\* Broken variants of the definitions below, for the mutation checks: an answer
\* that leaves the status alone, a file that is opened without emptying it, a
\* wait whose time starts again with each round.
StillPending(v) == Pending
LeftAsItIs == file
StartedAgain(w) == waiting[w].polls

\* render, after load_stage_config; the handle is printed when the file is there.
Render ==
  /\ result = "accepted" /\ file = Missing
  /\ file' = Pending
  /\ UNCHANGED <<stageVars, waiting, answering, acknowledged, clashed>>

(* wait *)

WaitGoes(w, step, polls) == waiting' = [waiting EXCEPT ![w].step = step, ![w].polls = polls]

BeginWait(w) ==
  /\ waiting[w].step # "looking" /\ file # Missing
  /\ waiting' = [waiting EXCEPT ![w] = [step |-> "looking", polls |-> 0, due |-> acknowledged]]
  /\ UNCHANGED <<stageVars, file, answering, acknowledged, clashed>>

\* One round of the loop: an answer, an error, the bound, or another sleep.
Slept(w) == waiting[w].polls + 1
Look(w) ==
  /\ waiting[w].step = "looking"
  /\ \/ file.status = "answered" /\ WaitGoes(w, "answered", 0)
     \/ file = Unreadable /\ WaitGoes(w, "error", 0)
     \/ file = Pending /\ waiting[w].polls = MaxPolls /\ WaitGoes(w, "pending", 0)
     \/ file = Pending /\ waiting[w].polls < MaxPolls /\ WaitGoes(w, "looking", Slept(w))
  /\ UNCHANGED <<stageVars, file, answering, acknowledged, clashed>>

(* answer *)

AnswerGoes(n, step) == answering' = [answering EXCEPT ![n].step = step]
Writing == {n \in Answers : answering[n].step = "write"}

\* The file and the value are read first.
BeginAnswer(n, v) ==
  /\ answering[n].step # "empty" /\ n \notin Writing /\ file # Missing
  /\ answering' = [answering EXCEPT ![n] =
                     [step |-> IF file = Unreadable \/ v = Invalid THEN "error" ELSE "empty", value |-> v]]
  /\ UNCHANGED <<stageVars, file, waiting, acknowledged, clashed>>

Emptied == Unreadable
OpenFile(n) ==
  /\ answering[n].step = "empty"
  /\ AnswerGoes(n, "write")
  /\ file' = Emptied
  /\ clashed' = (clashed \/ Writing # {})
  /\ UNCHANGED <<stageVars, waiting, acknowledged>>

\* What was written since the file was emptied is written over from its start.
Reply(v) == Answered(v)
Written(v) == IF file.status = "answered" /\ file.value > v THEN Unreadable ELSE Reply(v)
WriteAnswer(n) ==
  /\ n \in Writing
  /\ AnswerGoes(n, "ok")
  /\ file' = Written(answering[n].value)
  /\ acknowledged' = TRUE
  /\ UNCHANGED <<stageVars, waiting, clashed>>

\* The command is killed.
KillAnswer(n) ==
  /\ n \in Writing
  /\ AnswerGoes(n, "killed")
  /\ clashed' = TRUE
  /\ UNCHANGED <<stageVars, file, waiting, acknowledged>>

Validate == StageNext /\ UNCHANGED interaction
RenderingNext ==
  \/ Validate \/ Render
  \/ \E w \in Waits : BeginWait(w) \/ Look(w)
  \/ \E n \in Answers : \/ \E v \in Values \cup {Invalid} : BeginAnswer(n, v)
                        \/ OpenFile(n) \/ WriteAnswer(n) \/ KillAnswer(n)

renderingVars == <<stageVars, interaction>>
RenderingSpec == /\ RenderingInit /\ [][RenderingNext]_renderingVars
                 /\ WF_renderingVars(Validate)
                 /\ \A w \in Waits : WF_renderingVars(Look(w))
-----------------------------------------------------------------------------
\* A wait that begins after an answer was acknowledged never ends with "pending",
\* whatever other answers are under way.
AnswerIsSeen == \A w \in Waits : waiting[w].due => waiting[w].step # "pending"

\* A file nobody can read is one that an answer is writing, unless an answer was
\* killed while it wrote or two wrote at once.
UnreadableIsWritten == file = Unreadable /\ ~clashed => Writing # {}

\* Validation ends, and so does every wait, whether or not anybody answers.
CommandsEnd == /\ <>~Running
               /\ \A w \in Waits : waiting[w].step = "looking" ~> waiting[w].step # "looking"
=============================================================================
