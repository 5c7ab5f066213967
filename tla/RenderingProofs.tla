-------------------------- MODULE RenderingProofs --------------------------
(***************************************************************************)
(* The validation of a stage configuration is right for every set of       *)
(* names: a configuration it accepts has no dependency cycle, it reports a *)
(* cycle only where there is one, and what it accepts can be completed.    *)
(* And a question that is rendered is answered for every number of wait    *)
(* and answer commands.                                                    *)
(*                                                                         *)
(* The argument is that of depth-first search.  Done, the stages whose     *)
(* call has returned, is closed under dependencies and orderable; the path *)
(* is a chain of dependencies without repetition; and what the call of a   *)
(* stage of the path has already followed is done, but for the stage that  *)
(* comes next on the path.  For the interaction file: an answer that       *)
(* writes alone leaves it readable, and nothing makes it pending again.    *)
(***************************************************************************)
EXTENDS Rendering, TLAPS

Done == {s \in Names : visited[s] = 2}

\* What the first loop has let through.
Checked == \A s \in stages \ unchecked : depends[s] \subseteq stages

DoneIsClosed == \A s \in Done : s \in stages /\ depends[s] \subseteq Done

PathIsCalls ==
  /\ \A i, j \in 1..Len(path) : path[i] = path[j] => i = j
  /\ \A s \in Names : visited[s] = 1 <=> \E i \in 1..Len(path) : path[i] = s

PathIsChain == \A i \in 1..Len(path) - 1 : path[i + 1] \in depends[path[i]]

\* The loop of the call for path[i] has followed what it has not left to follow.
Followed ==
  \A i \in 1..Len(path) :
    /\ todo[path[i]] \subseteq depends[path[i]]
    /\ \A d \in depends[path[i]] \ todo[path[i]] :
         d \in Done \/ (i < Len(path) /\ d = path[i + 1])

\* The search starts after the first loop.
SearchIsLast == unchecked # {} => path = <<>> /\ Done = {}

StageInv == /\ StageTypeOK
            /\ Checked
            /\ DoneIsClosed /\ Orderable(Done)
            /\ PathIsCalls /\ PathIsChain /\ Followed
            /\ SearchIsLast
            /\ AcceptedIsOrderable /\ CycleIsReal /\ AcceptedCanComplete
-----------------------------------------------------------------------------
\* A set that is orderable and closed stays orderable with one stage more that
\* depends on its members only.
LEMMA OrderableGrows ==
  ASSUME NEW S, NEW s, s \notin S,
         \A x \in S : depends[x] \subseteq S, Orderable(S), depends[s] \subseteq S
  PROVE  Orderable(S \cup {s})
<1> SUFFICES ASSUME NEW part \in SUBSET (S \cup {s}), part # {}
             PROVE  \E x \in part : depends[x] \cap part = {}
  BY DEF Orderable
<1>1. CASE part \cap S = {}
  <2>1. part = {s}
    BY <1>1
  <2> QED
    BY <2>1
<1>2. CASE part \cap S # {}
  <2>1. PICK x \in part \cap S : depends[x] \cap (part \cap S) = {}
    BY <1>2 DEF Orderable
  <2>2. depends[x] \subseteq S
    BY <2>1
  <2> QED
    BY <2>1, <2>2
<1> QED
  BY <1>1, <1>2

\* A chain of dependencies that comes back to one of its stages is a cycle.
LEMMA ChainBackIsCycle ==
  ASSUME StageTypeOK, PathIsChain, path # <<>>,
         NEW k \in 1..Len(path), path[k] \in depends[Top]
  PROVE  ~Orderable(stages)
<1> DEFINE part == {path[i] : i \in k..Len(path)}
<1>1. path \in Seq(stages) /\ Len(path) \in Nat
  BY DEF StageTypeOK
<1>2. part \subseteq stages /\ path[k] \in part
  BY <1>1
<1>3. ASSUME NEW i \in k..Len(path)
      PROVE  depends[path[i]] \cap part # {}
  <2>1. CASE i = Len(path)
    BY <1>2, <2>1 DEF Top
  <2>2. CASE i # Len(path)
    <3>1. i \in 1..Len(path) - 1 /\ i + 1 \in k..Len(path)
      BY <1>1, <2>2
    <3> QED
      BY <3>1 DEF PathIsChain
  <2> QED
    BY <2>1, <2>2
<1>4. \A s \in part : depends[s] \cap part # {}
  BY <1>3
<1> QED
  BY <1>2, <1>4 DEF Orderable
-----------------------------------------------------------------------------
LEMMA InitStageInv == StageInit => StageInv
<1> SUFFICES ASSUME StageInit
             PROVE  StageInv
  OBVIOUS
<1>1. StageTypeOK
  BY DEF StageInit, StageTypeOK
<1>2. Done = {} /\ path = <<>> /\ unchecked = stages /\ result = "none"
  BY DEF StageInit, Done
<1>3. Checked /\ DoneIsClosed /\ Orderable(Done) /\ SearchIsLast
  BY <1>2 DEF Checked, DoneIsClosed, Orderable, SearchIsLast
<1>4. Len(path) = 0
  BY <1>2
<1>5. PathIsCalls /\ PathIsChain /\ Followed
  BY <1>4 DEF PathIsCalls, PathIsChain, Followed, StageInit
<1> QED
  BY <1>1, <1>2, <1>3, <1>5 DEF StageInv, AcceptedIsOrderable, CycleIsReal, AcceptedCanComplete

\* The first loop touches neither the search nor what it is about.
LEMMA CheckStageKeepsInv ==
  ASSUME StageInv, NEW s \in Names, CheckStage(s)
  PROVE  StageInv'
<1> USE DEF StageInv
<1>1. CASE End("invalid")
  BY <1>1 DEF End, config, search, StageTypeOK, Checked, Done, DoneIsClosed, Orderable,
              PathIsCalls, PathIsChain, Followed, SearchIsLast,
              AcceptedIsOrderable, CycleIsReal, AcceptedCanComplete
<1>2. CASE s \in depends[s] /\ End("cycle")
  <2>1. ~Orderable(stages)
    <3>1. {s} \in SUBSET stages /\ {s} # {}
      BY DEF CheckStage, StageTypeOK
    <3> QED
      BY <1>2, <3>1 DEF Orderable
  <2>2. ~Orderable(stages)'
    BY <1>2, <2>1 DEF End, config, Orderable
  <2> QED
    BY <1>2, <2>2 DEF End, config, search, StageTypeOK, Checked, Done, DoneIsClosed, Orderable,
                PathIsCalls, PathIsChain, Followed, SearchIsLast,
                AcceptedIsOrderable, CycleIsReal, AcceptedCanComplete
<1>3. CASE /\ s \notin faulty /\ KnownReferences(s) /\ s \notin depends[s]
           /\ unchecked' = unchecked \ {s}
           /\ UNCHANGED <<config, search, result>>
  <2>1. path = <<>> /\ Done = {}
    BY DEF CheckStage, SearchIsLast
  <2>2. Checked'
    BY <1>3 DEF Checked, KnownReferences, config
  <2>3. StageTypeOK' /\ SearchIsLast'
    BY <1>3, <2>1 DEF StageTypeOK, SearchIsLast, Done, config, search
  <2>4. (DoneIsClosed /\ Orderable(Done) /\ PathIsCalls /\ PathIsChain /\ Followed)'
    BY <1>3 DEF config, search, Done, DoneIsClosed, Orderable, PathIsCalls, PathIsChain, Followed
  <2>5. (AcceptedIsOrderable /\ CycleIsReal /\ AcceptedCanComplete)'
    BY <1>3 DEF config, Orderable, AcceptedIsOrderable, CycleIsReal, AcceptedCanComplete,
                IsCompleted
  <2> QED
    BY <2>2, <2>3, <2>4, <2>5
<1> QED
  BY <1>1, <1>2, <1>3 DEF CheckStage

LEMMA NoStagesKeepsInv ==
  ASSUME StageInv, NoStages
  PROVE  StageInv'
BY DEF StageInv, NoStages, End, config, search, StageTypeOK, Checked, Done, DoneIsClosed,
       Orderable, PathIsCalls, PathIsChain, Followed, SearchIsLast,
       AcceptedIsOrderable, CycleIsReal, AcceptedCanComplete
-----------------------------------------------------------------------------
\* A call of dfs for an unvisited stage that the innermost call depends on, and
\* has taken from what it has left.
LEMMA CallKeepsInv ==
  ASSUME StageInv, Searching, NEW s \in stages, visited[s] = 0,
         NEW left \in [Names -> SUBSET stages],
         path # <<>> => s \in depends[Top],
         \A i \in 1..Len(path) :
           left[path[i]] = IF i < Len(path) THEN todo[path[i]] ELSE todo[path[i]] \ {s},
         Call(s, left)
  PROVE  StageInv'
<1> USE DEF StageInv
<1>1. /\ path \in Seq(stages) /\ Len(path) \in Nat
      /\ path' = Append(path, s) /\ Len(path') = Len(path) + 1
      /\ \A i \in 1..Len(path) : path'[i] = path[i]
      /\ path'[Len(path) + 1] = s
  BY DEF StageTypeOK, Call
<1>2. s \in Names /\ stages \subseteq Names
  BY DEF StageTypeOK
<1>3. /\ visited' = [visited EXCEPT ![s] = 1] /\ todo' = [left EXCEPT ![s] = depends[s]]
      /\ UNCHANGED <<stages, depends, faulty, required, budgetOK, unchecked, result>>
  BY DEF Call, config
<1>4. unchecked = {} /\ result = "none" /\ depends[s] \subseteq stages
  BY <1>2 DEF Searching, Running, Checked
<1>5. StageTypeOK'
  <2>1. path' \in Seq(stages)
    BY <1>1
  <2>2. visited' \in [Names -> 0..2]
    BY <1>3 DEF StageTypeOK
  <2>3. todo' \in [Names -> SUBSET stages]
    BY <1>3, <1>4
  <2> QED
    BY <1>3, <2>1, <2>2, <2>3 DEF StageTypeOK
<1>6. Done' = Done
  BY <1>3, <1>2 DEF Done, StageTypeOK
<1>7. \A i \in 1..Len(path) : path[i] \in Names /\ path[i] # s
  <2> TAKE i \in 1..Len(path)
  <2>1. path[i] \in Names
    BY <1>1, <1>2
  <2>2. visited[path[i]] = 1
    BY <2>1 DEF PathIsCalls
  <2> QED
    BY <2>1, <2>2
<1>8. (Checked /\ DoneIsClosed /\ Orderable(Done) /\ SearchIsLast)'
  BY <1>3, <1>4, <1>6 DEF Checked, DoneIsClosed, Orderable, SearchIsLast
<1>9. PathIsCalls'
  <2>1. \A i, j \in 1..Len(path') : path'[i] = path'[j] => i = j
    BY <1>1, <1>7 DEF PathIsCalls
  <2>2. ASSUME NEW t \in Names
        PROVE  visited'[t] = 1 <=> \E i \in 1..Len(path') : path'[i] = t
    <3>1. CASE t = s
      BY <1>1, <1>2, <1>3, <3>1 DEF StageTypeOK
    <3>2. CASE t # s
      <4>1. visited'[t] = visited[t]
        BY <1>3, <3>2 DEF StageTypeOK
      <4>2. (\E i \in 1..Len(path') : path'[i] = t) <=> \E i \in 1..Len(path) : path[i] = t
        BY <1>1, <3>2
      <4> QED
        BY <4>1, <4>2 DEF PathIsCalls
    <3> QED
      BY <3>1, <3>2
  <2> QED
    BY <2>1, <2>2 DEF PathIsCalls
<1>10. PathIsChain'
  <2> SUFFICES ASSUME NEW i \in 1..Len(path)
               PROVE  path'[i + 1] \in depends[path'[i]]
    BY <1>1, <1>3 DEF PathIsChain
  <2>1. CASE i = Len(path)
    BY <1>1, <2>1 DEF Top
  <2>2. CASE i # Len(path)
    <3>1. i \in 1..Len(path) - 1 /\ i + 1 \in 1..Len(path)
      BY <1>1, <2>2
    <3> QED
      BY <1>1, <3>1 DEF PathIsChain
  <2> QED
    BY <2>1, <2>2
<1>11. Followed'
  <2>1. ASSUME NEW i \in 1..Len(path')
        PROVE  /\ todo'[path'[i]] \subseteq depends[path'[i]]
               /\ \A d \in depends[path'[i]] \ todo'[path'[i]] :
                    d \in Done \/ (i < Len(path') /\ d = path'[i + 1])
    <3>1. CASE i = Len(path) + 1
      <4>1. todo'[path'[i]] = depends[path'[i]]
        BY <1>1, <1>2, <1>3, <3>1
      <4> QED
        BY <4>1
    <3>2. CASE i # Len(path) + 1
      <4>1. i \in 1..Len(path) /\ path'[i] = path[i] /\ i < Len(path')
        BY <1>1, <3>2
      <4>2. todo'[path[i]] = left[path[i]]
        BY <1>3, <1>7, <4>1
      <4>3. CASE i < Len(path)
        <5>1. todo'[path[i]] = todo[path[i]]
          BY <4>1, <4>2, <4>3
        <5>2. i + 1 \in 1..Len(path)
          BY <1>1, <4>1, <4>3
        <5>3. path'[i + 1] = path[i + 1]
          BY <1>1, <5>2
        <5>4. todo[path[i]] \subseteq depends[path[i]]
          BY <4>1 DEF Followed
        <5>5. \A d \in depends[path[i]] \ todo[path[i]] : d \in Done \/ d = path[i + 1]
          BY <4>1 DEF Followed
        <5> QED
          BY <4>1, <5>1, <5>3, <5>4, <5>5
      <4>4. CASE i = Len(path)
        <5>0. path'[i + 1] = s
          BY <1>1, <4>4
        <5>1. todo'[path[i]] = todo[path[i]] \ {s}
          <6>1. ~(i < Len(path))
            BY <1>1, <4>4
          <6> QED
            BY <4>1, <4>2, <6>1
        <5>2. todo[path[i]] \subseteq depends[path[i]]
          BY <4>1 DEF Followed
        <5>3. \A d \in depends[path[i]] \ todo[path[i]] : d \in Done
          BY <1>1, <4>1, <4>4 DEF Followed
        <5> QED
          BY <4>1, <5>0, <5>1, <5>2, <5>3
      <4> QED
        BY <1>1, <4>1, <4>3, <4>4
    <3> QED
      BY <3>1, <3>2
  <2> QED
    BY <1>3, <1>6, <2>1 DEF Followed
<1>12. (AcceptedIsOrderable /\ CycleIsReal /\ AcceptedCanComplete)'
  BY <1>3, <1>4 DEF AcceptedIsOrderable, CycleIsReal, AcceptedCanComplete
<1> QED
  BY <1>5, <1>8, <1>9, <1>10, <1>11, <1>12

LEMMA StartAtKeepsInv ==
  ASSUME StageInv, NEW s \in Names, StartAt(s)
  PROVE  StageInv'
<1>1. Len(path) = 0 /\ todo \in [Names -> SUBSET stages]
  BY DEF StartAt, StageInv, StageTypeOK
<1> QED
  BY <1>1, CallKeepsInv DEF StartAt

\* The innermost call follows its next dependency.
LEMMA FollowKeepsInv ==
  ASSUME StageInv, NEW d \in Names, Follow(d)
  PROVE  StageInv'
<1> USE DEF StageInv
<1> DEFINE left == [todo EXCEPT ![Top] = @ \ {d}]
<1>1. /\ Searching /\ unchecked = {} /\ result = "none"
      /\ path \in Seq(stages) /\ Len(path) \in 1..Len(path) /\ Top = path[Len(path)]
      /\ Top \in stages /\ stages \subseteq Names
  BY DEF Follow, Searching, Running, StageTypeOK, Top
<1>2. d \in todo[Top] /\ d \in depends[Top] /\ d \in stages
  <2>1. todo[Top] \subseteq depends[Top] /\ todo[Top] \subseteq stages
    BY <1>1 DEF Followed, StageTypeOK
  <2> QED
    BY <2>1 DEF Follow
<1>3. /\ left \in [Names -> SUBSET stages]
      /\ \A i \in 1..Len(path) :
           left[path[i]] = IF i < Len(path) THEN todo[path[i]] ELSE todo[path[i]] \ {d}
  <2>1. left \in [Names -> SUBSET stages]
    BY <1>1 DEF StageTypeOK
  <2>2. ASSUME NEW i \in 1..Len(path), i < Len(path)
        PROVE  left[path[i]] = todo[path[i]]
    <3>1. path[i] \in Names
      BY <1>1
    <3>2. path[i] # Top
      BY <1>1, <2>2 DEF PathIsCalls
    <3> QED
      BY <3>1, <3>2 DEF StageTypeOK
  <2>3. left[Top] = todo[Top] \ {d}
    BY <1>1 DEF StageTypeOK
  <2>4. \A i \in 1..Len(path) : ~(i < Len(path)) => i = Len(path)
    BY <1>1
  <2> QED
    BY <1>1, <2>1, <2>2, <2>3, <2>4
<1>4. CASE OnPath(d) /\ End("cycle")
  <2>1. PICK k \in 1..Len(path) : path[k] = d
    BY <1>4 DEF OnPath, PathIsCalls
  <2>2. ~Orderable(stages)
    BY <1>1, <1>2, <2>1, ChainBackIsCycle
  <2>3. /\ result' = "cycle"
        /\ UNCHANGED <<stages, depends, faulty, required, budgetOK, unchecked, visited, path, todo>>
    BY <1>4 DEF End, config, search
  <2>4. (StageTypeOK /\ Checked /\ DoneIsClosed /\ Orderable(Done) /\ SearchIsLast)'
    BY <2>3 DEF StageTypeOK, Checked, Done, DoneIsClosed, Orderable, SearchIsLast
  <2>5. (PathIsCalls /\ PathIsChain /\ Followed)'
    BY <2>3 DEF PathIsCalls, PathIsChain, Followed, Done
  <2>6. (AcceptedIsOrderable /\ CycleIsReal /\ AcceptedCanComplete)'
    BY <2>2, <2>3 DEF AcceptedIsOrderable, CycleIsReal, AcceptedCanComplete, Orderable
  <2> QED
    BY <2>4, <2>5, <2>6
<1>5. CASE visited[d] = 0 /\ Call(d, left)
  BY <1>1, <1>2, <1>3, <1>5, CallKeepsInv
<1>6. CASE /\ ~OnPath(d) /\ visited[d] # 0
           /\ todo' = left
           /\ UNCHANGED <<config, unchecked, visited, path, result>>
  <2>1. d \in Done
    BY <1>6 DEF OnPath, Done, StageTypeOK
  <2>2. (StageTypeOK /\ Checked /\ DoneIsClosed /\ Orderable(Done) /\ SearchIsLast)'
    BY <1>1, <1>3, <1>6 DEF StageTypeOK, Checked, Done, DoneIsClosed, Orderable, SearchIsLast,
                           config
  <2>3. (PathIsCalls /\ PathIsChain)'
    BY <1>6 DEF PathIsCalls, PathIsChain, config
  <2>4. Followed'
    <3>1. ASSUME NEW i \in 1..Len(path)
          PROVE  /\ left[path[i]] \subseteq depends[path[i]]
                 /\ \A e \in depends[path[i]] \ left[path[i]] :
                      e \in Done \/ (i < Len(path) /\ e = path[i + 1])
      <4>1. left[path[i]] = todo[path[i]] \/ left[path[i]] = todo[path[i]] \ {d}
        BY <1>3
      <4> QED
        BY <2>1, <4>1 DEF Followed
    <3>2. Done' = Done
      BY <1>6 DEF Done
    <3> QED
      BY <1>6, <3>1, <3>2 DEF Followed, config
  <2>5. (AcceptedIsOrderable /\ CycleIsReal /\ AcceptedCanComplete)'
    BY <1>1, <1>6 DEF AcceptedIsOrderable, CycleIsReal, AcceptedCanComplete
  <2> QED
    BY <2>2, <2>3, <2>4, <2>5
<1> QED
  BY <1>4, <1>5, <1>6 DEF Follow

\* The path without its last stage.
LEMMA FrontOfPath ==
  ASSUME NEW S, NEW p \in Seq(S), NEW n \in Nat, n = Len(p) - 1
  PROVE  /\ SubSeq(p, 1, n) \in Seq(S) /\ Len(SubSeq(p, 1, n)) = n
         /\ \A i \in 1..n : SubSeq(p, 1, n)[i] = p[i]
<1>1. \A i \in 1..n : p[i] \in S
  OBVIOUS
<1>2. SubSeq(p, 1, n) \in Seq(S)
  BY <1>1
<1>3. Len(SubSeq(p, 1, n)) = n
  OBVIOUS
<1>4. \A i \in 1..n : SubSeq(p, 1, n)[i] = p[i]
  OBVIOUS
<1> QED
  BY <1>2, <1>3, <1>4

\* The innermost call returns: its stage is done, and so are its dependencies.
LEMMA LeaveKeepsInv ==
  ASSUME StageInv, Leave
  PROVE  StageInv'
<1> USE DEF StageInv
<1>1. /\ unchecked = {} /\ result = "none"
      /\ path \in Seq(stages) /\ Len(path) \in Nat /\ Len(path) >= 1
      /\ Top = path[Len(path)] /\ Top \in stages /\ stages \subseteq Names
  BY DEF Leave, Searching, Running, StageTypeOK, Top
<1>2. /\ path' \in Seq(stages) /\ Len(path') = Len(path) - 1
      /\ \A i \in 1..Len(path) - 1 : path'[i] = path[i]
  <2>1. path' = SubSeq(path, 1, Len(path) - 1)
    BY DEF Leave
  <2>2. Len(path) - 1 \in Nat
    BY <1>1
  <2> QED
    BY <1>1, <2>1, <2>2, FrontOfPath
<1>3. /\ visited' = [visited EXCEPT ![Top] = 2]
      /\ UNCHANGED <<stages, depends, faulty, required, budgetOK, unchecked, todo, result>>
  BY DEF Leave, config, Explored
<1>4. Done' = Done \cup {Top}
  BY <1>1, <1>3 DEF Done, StageTypeOK
<1>5. depends[Top] \subseteq Done
  BY <1>1 DEF Followed, Leave
<1>6. Top \notin Done
  <2>1. visited[Top] = 1
    BY <1>1 DEF PathIsCalls
  <2> QED
    BY <2>1 DEF Done
<1>7. StageTypeOK'
  BY <1>1, <1>2, <1>3 DEF StageTypeOK
<1>8. Orderable(Done)'
  <2>1. Orderable(Done \cup {Top})
    BY <1>5, <1>6, OrderableGrows DEF DoneIsClosed
  <2> QED
    BY <1>3, <1>4, <2>1 DEF Orderable
<1>9. (Checked /\ DoneIsClosed /\ SearchIsLast)'
  BY <1>1, <1>3, <1>4, <1>5 DEF Checked, DoneIsClosed, SearchIsLast
<1>10. PathIsCalls'
  <2>1. \A i \in 1..Len(path') : i \in 1..Len(path) /\ path'[i] = path[i] /\ path[i] # Top
    BY <1>1, <1>2 DEF PathIsCalls
  <2>2. ASSUME NEW t \in Names
        PROVE  visited'[t] = 1 <=> \E i \in 1..Len(path') : path'[i] = t
    <3>1. CASE t = Top
      BY <1>1, <1>3, <2>1, <3>1 DEF StageTypeOK
    <3>2. CASE t # Top
      <4>1. visited'[t] = visited[t]
        BY <1>3, <3>2 DEF StageTypeOK
      <4>2. \A i \in 1..Len(path) : path[i] = t => i \in 1..Len(path')
        BY <1>1, <1>2, <3>2
      <4>3. (\E i \in 1..Len(path') : path'[i] = t) <=> \E i \in 1..Len(path) : path[i] = t
        BY <2>1, <4>2
      <4> QED
        BY <4>1, <4>3 DEF PathIsCalls
    <3> QED
      BY <3>1, <3>2
  <2> QED
    BY <2>1, <2>2 DEF PathIsCalls
<1>11. PathIsChain'
  <2> SUFFICES ASSUME NEW i \in 1..Len(path') - 1
               PROVE  path'[i + 1] \in depends[path'[i]]
    BY <1>3 DEF PathIsChain
  <2>1. i \in 1..Len(path) - 1 /\ i + 1 \in 1..Len(path) - 1
    BY <1>1, <1>2
  <2> QED
    BY <1>2, <2>1 DEF PathIsChain
<1>12. Followed'
  <2> SUFFICES ASSUME NEW i \in 1..Len(path')
               PROVE  /\ todo[path'[i]] \subseteq depends[path'[i]]
                      /\ \A d \in depends[path'[i]] \ todo[path'[i]] :
                           d \in Done' \/ (i < Len(path') /\ d = path'[i + 1])
    BY <1>3 DEF Followed
  <2>1. i \in 1..Len(path) /\ path'[i] = path[i] /\ i < Len(path)
    BY <1>1, <1>2
  <2>2. CASE i = Len(path')
    <3>1. path[i + 1] = Top
      BY <1>1, <1>2, <2>2
    <3> QED
      BY <1>4, <2>1, <3>1 DEF Followed
  <2>3. CASE i # Len(path')
    <3>1. i < Len(path') /\ path'[i + 1] = path[i + 1]
      BY <1>1, <1>2, <2>3
    <3> QED
      BY <1>4, <2>1, <3>1 DEF Followed
  <2> QED
    BY <2>2, <2>3
<1>13. (AcceptedIsOrderable /\ CycleIsReal /\ AcceptedCanComplete)'
  BY <1>1, <1>3 DEF AcceptedIsOrderable, CycleIsReal, AcceptedCanComplete
<1> QED
  BY <1>7, <1>8, <1>9, <1>10, <1>11, <1>12, <1>13

\* Every stage has been visited and no call is active: all are done.
LEMMA FinishKeepsInv ==
  ASSUME StageInv, Finish
  PROVE  StageInv'
<1> USE DEF StageInv
<1>1. Done = stages
  <2>1. Done \subseteq stages
    BY DEF DoneIsClosed
  <2>2. ASSUME NEW s \in stages
        PROVE  s \in Done
    <3>1. s \in Names /\ visited[s] \in 0..2 /\ visited[s] # 0
      BY DEF StageTypeOK, Finish
    <3>2. Len(path) = 0
      BY DEF Finish
    <3>3. visited[s] # 1
      BY <3>1, <3>2 DEF PathIsCalls
    <3> QED
      BY <3>1, <3>3 DEF Done
  <2> QED
    BY <2>1, <2>2
<1>2. Orderable(stages)
  BY <1>1
<1>3. PICK outcome \in {"accepted", "invalid"} :
        End(outcome) /\ (outcome = "accepted" => required \subseteq stages)
  BY DEF Finish, KnownRule
<1>4. UNCHANGED <<stages, depends, faulty, required, budgetOK, unchecked, visited, path, todo>>
  BY <1>3 DEF End, config, search
<1>5. (StageTypeOK /\ Checked /\ DoneIsClosed /\ Orderable(Done) /\ SearchIsLast)'
  BY <1>3, <1>4 DEF End, StageTypeOK, Checked, Done, DoneIsClosed, Orderable, SearchIsLast
<1>6. (PathIsCalls /\ PathIsChain /\ Followed)'
  BY <1>4 DEF PathIsCalls, PathIsChain, Followed, Done
<1>7. (AcceptedIsOrderable /\ CycleIsReal)'
  BY <1>2, <1>3, <1>4 DEF End, AcceptedIsOrderable, CycleIsReal, Orderable
<1>8. AcceptedCanComplete'
  BY <1>3, <1>4 DEF End, AcceptedCanComplete, IsCompleted
<1> QED
  BY <1>5, <1>6, <1>7, <1>8
-----------------------------------------------------------------------------
LEMMA StageStep == StageInv /\ [StageNext]_stageVars => StageInv'
<1> SUFFICES ASSUME StageInv, [StageNext]_stageVars
             PROVE  StageInv'
  OBVIOUS
<1>1. ASSUME NEW s \in Names, CheckStage(s)
      PROVE  StageInv'
  BY <1>1, CheckStageKeepsInv
<1>2. ASSUME NEW s \in Names, StartAt(s)
      PROVE  StageInv'
  BY <1>2, StartAtKeepsInv
<1>3. ASSUME NEW s \in Names, Follow(s)
      PROVE  StageInv'
  BY <1>3, FollowKeepsInv
<1>4. CASE NoStages
  BY <1>4, NoStagesKeepsInv
<1>5. CASE Leave
  BY <1>5, LeaveKeepsInv
<1>6. CASE Finish
  BY <1>6, FinishKeepsInv
<1>7. CASE UNCHANGED stageVars
  BY <1>7 DEF stageVars, config, search, StageInv, StageTypeOK, Checked, Done, DoneIsClosed,
              Orderable, PathIsCalls, PathIsChain, Followed, SearchIsLast,
              AcceptedIsOrderable, CycleIsReal, AcceptedCanComplete, IsCompleted
<1> QED
  BY <1>1, <1>2, <1>3, <1>4, <1>5, <1>6, <1>7 DEF StageNext

LEMMA StageInvAlways == StageInit /\ [][StageNext]_stageVars => []StageInv
<1>1. StageInit => StageInv
  BY InitStageInv
<1>2. StageInv /\ [StageNext]_stageVars => StageInv'
  BY StageStep
<1> QED
  BY <1>1, <1>2, PTL

\* A command that renders validates first, and nothing else touches what the
\* validation works on.
LEMMA RenderingValidates == RenderingSpec => StageInit /\ [][StageNext]_stageVars
<1>1. RenderingInit => StageInit
  BY DEF RenderingInit
<1>2. [RenderingNext]_renderingVars => [StageNext]_stageVars
  BY DEF RenderingNext, renderingVars, Validate, Render, BeginWait, Look, BeginAnswer,
         OpenFile, WriteAnswer, KillAnswer
<1> QED
  BY <1>1, <1>2, PTL DEF RenderingSpec

\* Type correctness of the validation's state: the search stays within the
\* stages that the first loop has checked (config.py:166-185).
THEOREM StageTypes == StageSpec => []StageTypeOK
<1>1. StageInv => StageTypeOK
  BY DEF StageInv
<1> QED
  BY <1>1, StageInvAlways, PTL DEF StageSpec

\* No configuration with a dependency cycle is accepted, although the search
\* never enters a stage twice (config.py:178-185).
THEOREM AcceptedHasNoCycle == RenderingSpec => []AcceptedIsOrderable
<1>1. StageInv => AcceptedIsOrderable
  BY DEF StageInv
<1> QED
  BY <1>1, RenderingValidates, StageInvAlways, PTL

\* A configuration that is refused for a cycle has one (config.py:101, 175).
THEOREM ReportedCycleExists == RenderingSpec => []CycleIsReal
<1>1. StageInv => CycleIsReal
  BY DEF StageInv
<1> QED
  BY <1>1, RenderingValidates, StageInvAlways, PTL

\* With all stages approved, an accepted project is complete (config.py:137, 196).
THEOREM AcceptedCompletes == RenderingSpec => []AcceptedCanComplete
<1>1. StageInv => AcceptedCanComplete
  BY DEF StageInv
<1> QED
  BY <1>1, RenderingValidates, StageInvAlways, PTL
-----------------------------------------------------------------------------
(* The interaction file *)

FileTypes ==
  /\ file \in {Missing, Unreadable, Pending} \cup {Answered(v) : v \in Values}
  /\ waiting \in [Waits -> [step : {"idle", "looking", "answered", "error", "pending"},
                            polls : Nat, due : BOOLEAN]]
  /\ answering \in [Answers -> [step : {"idle", "empty", "write", "ok", "error", "killed"},
                                value : Values \cup {Invalid}]]
  /\ \A n \in Answers : answering[n].step \in {"empty", "write"} => answering[n].value \in Values
  /\ acknowledged \in BOOLEAN

\* An answer once given stays, and only waits that began since it are due one.
AnswerStays ==
  /\ acknowledged => file # Missing /\ file # Pending
  /\ \A w \in Waits : waiting[w].due => acknowledged

\* Unless answers clashed, whoever writes does so alone, over the empty file.
WritesAlone ==
  ~clashed => \A n \in Writing : Writing = {n} /\ file = Unreadable

FileInv == FileTypes /\ AnswerStays /\ WritesAlone /\ AnswerIsSeen /\ UnreadableIsWritten

\* The contents of the file differ.
LEMMA FilesDiffer ==
  /\ Missing # Unreadable /\ Missing # Pending /\ Unreadable # Pending
  /\ \A v \in Values : Answered(v) \notin {Missing, Unreadable, Pending}
  /\ \A v \in Values : Answered(v).status = "answered" /\ Answered(v).value = v
  /\ Missing.status # "answered" /\ Unreadable.status # "answered" /\ Pending.status # "answered"
BY DEF Missing, Unreadable, Pending, Answered

LEMMA FileInvInit == RenderingInit => FileInv
<1> SUFFICES ASSUME RenderingInit
             PROVE  FileInv
  OBVIOUS
<1> USE DEF RenderingInit
<1>1. FileTypes
  BY DEF FileTypes, NotWaiting, NotAnswering
<1>2. \A w \in Waits : waiting[w].due = FALSE
  BY DEF NotWaiting
<1>3. Writing = {}
  BY DEF Writing, NotAnswering
<1> QED
  BY <1>1, <1>2, <1>3, FilesDiffer
  DEF FileInv, AnswerStays, WritesAlone, AnswerIsSeen, UnreadableIsWritten

\* Steps of wait commands, which only read.
LEMMA WaitKeepsFileInv ==
  ASSUME FileInv, NEW w \in Waits, BeginWait(w) \/ Look(w)
  PROVE  FileInv'
<1> USE DEF FileInv
<1>1. UNCHANGED <<file, answering, acknowledged, clashed>>
  BY DEF BeginWait, Look
<1>2. waiting' \in [Waits -> [step : {"idle", "looking", "answered", "error", "pending"},
                              polls : Nat, due : BOOLEAN]]
  BY RenderingAssumption DEF BeginWait, Look, WaitGoes, Slept, FileTypes
<1>3. \A v \in Waits \ {w} : waiting'[v] = waiting[v]
  BY DEF BeginWait, Look, WaitGoes, FileTypes
<1>4. /\ waiting'[w].due => acknowledged
      /\ waiting'[w].step = "pending" => file = Pending
  BY DEF BeginWait, Look, WaitGoes, FileTypes, AnswerStays
<1>5. FileTypes' /\ AnswerStays'
  BY <1>1, <1>2, <1>3, <1>4 DEF FileTypes, AnswerStays
<1>6. AnswerIsSeen'
  BY <1>3, <1>4 DEF AnswerIsSeen, AnswerStays
<1>7. WritesAlone' /\ UnreadableIsWritten'
  BY <1>1 DEF WritesAlone, UnreadableIsWritten, Writing
<1> QED
  BY <1>5, <1>6, <1>7

\* Steps of answer commands.
LEMMA AnswerKeepsFileInv ==
  ASSUME FileInv, NEW n \in Answers,
         \/ \E v \in Values \cup {Invalid} : BeginAnswer(n, v)
         \/ OpenFile(n) \/ WriteAnswer(n) \/ KillAnswer(n)
  PROVE  FileInv'
<1> USE DEF FileInv
<1>1. waiting' = waiting
  BY DEF BeginAnswer, OpenFile, WriteAnswer, KillAnswer
<1>2. CASE \E v \in Values \cup {Invalid} : BeginAnswer(n, v)
  <2>1. PICK v \in Values \cup {Invalid} : BeginAnswer(n, v)
    BY <1>2
  <2>2. UNCHANGED <<file, waiting, acknowledged, clashed>>
    BY <2>1 DEF BeginAnswer
  <2>3. /\ answering'[n].step \in {"error", "empty"}
        /\ answering'[n].step = "empty" => v \in Values
        /\ answering'[n].value = v
        /\ \A m \in Answers \ {n} : answering'[m] = answering[m]
    BY <2>1 DEF BeginAnswer, FileTypes
  <2>4. Writing' = Writing
    BY <2>1, <2>3 DEF BeginAnswer, Writing
  <2>5. FileTypes'
    BY <2>1, <2>2, <2>3 DEF BeginAnswer, FileTypes
  <2> QED
    BY <2>2, <2>4, <2>5 DEF AnswerStays, WritesAlone, AnswerIsSeen, UnreadableIsWritten
<1>3. ASSUME NEW step \in {"write", "ok", "killed"}, AnswerGoes(n, step),
             step = "write" => answering[n].value \in Values
      PROVE  /\ answering' \in [Answers -> [step : {"idle", "empty", "write", "ok", "error", "killed"},
                                            value : Values \cup {Invalid}]]
             /\ \A m \in Answers : answering'[m].step \in {"empty", "write"} => answering'[m].value \in Values
             /\ Writing' = IF step = "write" THEN Writing \cup {n} ELSE Writing \ {n}
  BY <1>3 DEF AnswerGoes, FileTypes, Writing
<1>4. CASE OpenFile(n)
  <2>1. /\ file' = Unreadable /\ clashed' = (clashed \/ Writing # {}) /\ acknowledged' = acknowledged
        /\ answering[n].step = "empty" /\ AnswerGoes(n, "write")
    BY <1>4 DEF OpenFile, Emptied
  <2>2. Writing' = Writing \cup {n} /\ FileTypes'
    BY <1>1, <1>3, <2>1 DEF FileTypes
  <2> QED
    BY <1>1, <2>1, <2>2, FilesDiffer DEF AnswerStays, WritesAlone, AnswerIsSeen, UnreadableIsWritten
<1>5. CASE WriteAnswer(n)
  <2> DEFINE v == answering[n].value
  <2>1. /\ n \in Writing /\ file' = Written(v) /\ acknowledged' = TRUE /\ clashed' = clashed
        /\ AnswerGoes(n, "ok") /\ v \in Values
    BY <1>5 DEF WriteAnswer, Writing, FileTypes
  <2>2. file' \in {Unreadable, Answered(v)} /\ (~clashed => file' = Answered(v))
    BY <2>1, FilesDiffer DEF Written, Reply, WritesAlone
  <2>3. Writing' = Writing \ {n} /\ FileTypes'
    BY <1>1, <1>3, <2>1, <2>2 DEF FileTypes
  <2> QED
    BY <1>1, <2>1, <2>2, <2>3, FilesDiffer DEF AnswerStays, WritesAlone, AnswerIsSeen, UnreadableIsWritten
<1>6. CASE KillAnswer(n)
  <2>1. AnswerGoes(n, "killed") /\ UNCHANGED <<file, acknowledged>> /\ clashed'
    BY <1>6 DEF KillAnswer
  <2>2. FileTypes'
    BY <1>1, <1>3, <2>1 DEF FileTypes
  <2> QED
    BY <1>1, <2>1, <2>2 DEF AnswerStays, WritesAlone, AnswerIsSeen, UnreadableIsWritten
<1> QED
  BY <1>2, <1>4, <1>5, <1>6

LEMMA FileInvAlways == RenderingSpec => []FileInv
<1>1. RenderingInit => FileInv
  BY FileInvInit
<1>2. ASSUME FileInv, [RenderingNext]_renderingVars
      PROVE  FileInv'
  <2>1. CASE Validate \/ UNCHANGED renderingVars
    BY <1>2, <2>1 DEF Validate, renderingVars, interaction, FileInv, FileTypes, AnswerStays,
                      WritesAlone, AnswerIsSeen, UnreadableIsWritten, Writing
  <2>2. CASE Render
    <3>1. file = Missing /\ file' = Pending /\ UNCHANGED <<waiting, answering, acknowledged, clashed>>
      BY <2>2 DEF Render
    <3> QED
      BY <1>2, <3>1, FilesDiffer DEF FileInv, FileTypes, AnswerStays, WritesAlone, AnswerIsSeen,
                                     UnreadableIsWritten, Writing
  <2>3. ASSUME NEW w \in Waits, BeginWait(w) \/ Look(w)
        PROVE  FileInv'
    BY <1>2, <2>3, WaitKeepsFileInv
  <2>4. ASSUME NEW n \in Answers,
               \/ \E v \in Values \cup {Invalid} : BeginAnswer(n, v)
               \/ OpenFile(n) \/ WriteAnswer(n) \/ KillAnswer(n)
        PROVE  FileInv'
    BY <1>2, <2>4, AnswerKeepsFileInv
  <2> QED
    BY <1>2, <2>1, <2>2, <2>3, <2>4 DEF RenderingNext
<1> QED
  BY <1>1, <1>2, PTL DEF RenderingSpec

\* A wait that begins after an answer command has said ok does not end with
\* "pending", whatever other answers are under way (cli.py, wait and answer): it
\* ends with an answer, or in an error while another answer writes.
THEOREM AnswersAreSeen == RenderingSpec => []AnswerIsSeen
<1>1. FileInv => AnswerIsSeen
  BY DEF FileInv
<1> QED
  BY <1>1, FileInvAlways, PTL

\* A file that cannot be read is being written, unless answers clashed.
THEOREM OnlyClashesSpoil == RenderingSpec => []UnreadableIsWritten
<1>1. FileInv => UnreadableIsWritten
  BY DEF FileInv
<1> QED
  BY <1>1, FileInvAlways, PTL
=============================================================================
