---------------------------- MODULE StageConfig ----------------------------
(***************************************************************************)
(* The validation of a stage configuration (surface/stages/config.py): the *)
(* checks of each stage, the depth-first search for dependency cycles with *)
(* its three colours and its path, and the completion rule.                *)
(*                                                                         *)
(* The recursion of dfs is its call stack: path holds the active calls,    *)
(* todo[s] what is left of the loop of the call for s.  The order in which *)
(* lists are walked is left open, and so is which of several errors is     *)
(* found first.  Fields that are checked on their own (types, actions,     *)
(* forms, views) only make a stage faulty; an empty configuration id ends  *)
(* like a configuration without stages.                                    *)
(***************************************************************************)
EXTENDS Integers, Sequences

CONSTANT Names   \* what "id", "depends_on" and the completion rule may name

VARIABLES stages,     \* self.stages, the ids
          depends,    \* depends_on of each stage
          faulty,     \* stages with another invalid field
          required,   \* completion.require_approved_stages
          budgetOK,   \* budget is absent or a dict of non-negative numbers
          unchecked,  \* stages the first loop of _validate has still to check
          visited,    \* 0: unvisited, 1: visiting, 2: visited
          path,       \* the stages of the active calls of dfs
          todo,       \* todo[s]: dependencies the call for s has still to follow
          result      \* "none" while it runs

config == <<stages, depends, faulty, required, budgetOK>>
search == <<visited, path, todo>>
stageVars == <<config, unchecked, search, result>>

StageInit ==
  /\ stages \in SUBSET Names
  /\ depends \in [Names -> SUBSET Names]
  /\ \A s \in Names \ stages : depends[s] = {}
  /\ faulty \in SUBSET stages
  /\ required \in SUBSET Names
  /\ budgetOK \in BOOLEAN
  /\ unchecked = stages
  /\ visited = [s \in Names |-> 0]
  /\ path = <<>>
  /\ todo = [s \in Names |-> {}]
  /\ result = "none"

Running == result = "none"
End(outcome) == result' = outcome /\ UNCHANGED <<config, unchecked, search>>
-----------------------------------------------------------------------------
\* Broken variants of the definitions below, for the mutation checks: a search
\* that knows its root only, and one that takes every visited stage for a cycle.
IsRoot(d) == d = path[1]
EverSeen(d) == visited[d] # 0

KnownReferences(s) == depends[s] \subseteq stages

\* _validate, the loop over the stages.
CheckStage(s) ==
  /\ Running /\ s \in unchecked
  /\ \/ /\ s \in faulty \/ ~KnownReferences(s)
        /\ End("invalid")
     \/ /\ s \in depends[s]
        /\ End("cycle")
     \/ /\ s \notin faulty /\ KnownReferences(s) /\ s \notin depends[s]
        /\ unchecked' = unchecked \ {s}
        /\ UNCHANGED <<config, search, result>>

NoStages == /\ Running /\ stages = {}
            /\ End("invalid")

(* _validate_dag *)
Searching == Running /\ unchecked = {} /\ stages # {}
Top == path[Len(path)]

\* dfs is called for s, with left still to be followed by its callers.
Call(s, left) == /\ visited' = [visited EXCEPT ![s] = 1]
                 /\ path' = Append(path, s)
                 /\ todo' = [left EXCEPT ![s] = depends[s]]
                 /\ UNCHANGED <<config, unchecked, result>>

StartAt(s) == /\ Searching /\ path = <<>>
              /\ s \in stages /\ visited[s] = 0
              /\ Call(s, todo)

\* The next dependency of the innermost call.
OnPath(d) == visited[d] = 1
Follow(d) ==
  LET left == [todo EXCEPT ![Top] = @ \ {d}] IN
  /\ Searching /\ path # <<>>
  /\ d \in todo[Top]
  /\ \/ OnPath(d) /\ End("cycle")
     \/ ~OnPath(d) /\ visited[d] = 0 /\ Call(d, left)
     \/ /\ ~OnPath(d) /\ visited[d] # 0
        /\ todo' = left
        /\ UNCHANGED <<config, unchecked, visited, path, result>>

\* The innermost call returns.
Explored == 2
Leave == /\ Searching /\ path # <<>> /\ todo[Top] = {}
         /\ visited' = [visited EXCEPT ![Top] = Explored]
         /\ path' = SubSeq(path, 1, Len(path) - 1)
         /\ UNCHANGED <<config, unchecked, todo, result>>

\* The rest of _validate: the completion rule names stages, the budget.
KnownRule == required \subseteq stages
Finish == /\ Searching /\ path = <<>> /\ \A s \in stages : visited[s] # 0
          /\ End(IF KnownRule /\ budgetOK THEN "accepted" ELSE "invalid")

StageNext == \/ \E s \in Names : CheckStage(s) \/ StartAt(s) \/ Follow(s)
             \/ NoStages \/ Leave \/ Finish

StageSpec == StageInit /\ [][StageNext]_stageVars /\ WF_stageVars(StageNext)

\* is_completed
IsCompleted(approved) == IF required = {} THEN stages \subseteq approved
                                          ELSE required \subseteq approved
-----------------------------------------------------------------------------
\* The configuration, the colours and the loops have values of their types; the
\* search follows dependencies between stages only.
StageTypeOK ==
  /\ stages \subseteq Names /\ unchecked \subseteq stages
  /\ faulty \subseteq stages /\ required \subseteq Names /\ budgetOK \in BOOLEAN
  /\ depends \in [Names -> SUBSET Names]
  /\ visited \in [Names -> 0..2]
  /\ path \in Seq(stages)
  /\ todo \in [Names -> SUBSET stages]
  /\ result \in {"none", "invalid", "cycle", "accepted"}

\* The stages of S can be put into an order in which each comes after what it
\* depends on in S: every non-empty part of S has a stage to begin with.
Orderable(S) == \A part \in SUBSET S : part # {} => \E s \in part : depends[s] \cap part = {}

\* An accepted configuration has no dependency cycle: the search that skips
\* visited stages misses none.
AcceptedIsOrderable == result = "accepted" => Orderable(stages)

\* A cycle is reported only where there is one: a stage that two others depend
\* on is not taken for a cycle.
CycleIsReal == result = "cycle" => ~Orderable(stages)

\* A project of an accepted configuration can be completed: with all of its
\* stages approved it is, whatever the completion rule names.
AcceptedCanComplete == result = "accepted" => IsCompleted(stages)
=============================================================================
