---------------------------- MODULE GraphProofs ----------------------------
(***************************************************************************)
(* Proofs about ArtifactGraph: the dependency graph stays acyclic, a       *)
(* source event makes at most one version of an artifact, staleness is     *)
(* never dropped and no stale event is lost.  Then about GraphConnections: *)
(* what is left of that when several connections interleave, and that they *)
(* do what the atomic methods do unless what they read has changed.        *)
(***************************************************************************)
EXTENDS GraphConnections, SequenceTheorems, TLAPS

EdgesTyped == edges \subseteq Artifacts \X Artifacts

\* What a reaches: the smallest closed set that contains it.
Cone(a) == {x \in Artifacts : Reaches(a, x)}

\* Every artifact reaches itself.
LEMMA ReachesItself == ASSUME NEW a \in Artifacts PROVE Reaches(a, a)
  BY DEF Reaches

\* What a reaches, b of it reaches too.
LEMMA ReachesOn ==
  ASSUME NEW a \in Artifacts, NEW b \in Artifacts, NEW c \in Artifacts,
         Reaches(a, b), Reaches(b, c)
  PROVE  Reaches(a, c)
  BY DEF Reaches

\* An edge is a way from its upstream to its downstream end.
LEMMA EdgeReaches ==
  ASSUME NEW e \in edges
  PROVE  Reaches(e[1], e[2])
  BY DEF Reaches, Closed

\* The cone of a is closed under the edges.
LEMMA ConeClosed ==
  ASSUME EdgesTyped, NEW a \in Artifacts
  PROVE  Closed(Cone(a))
  <1> SUFFICES ASSUME NEW e \in edges, e[1] \in Cone(a)
               PROVE  e[2] \in Cone(a)
    BY DEF Closed
  <1>1. e[1] \in Artifacts /\ e[2] \in Artifacts
    BY DEF EdgesTyped
  <1>2. Reaches(e[1], e[2])
    BY EdgeReaches
  <1> QED BY <1>1, <1>2, ReachesOn DEF Cone

\* The walk from the direct dependents of a finds everything below a.
LEMMA WalkFindsAll ==
  ASSUME EdgesTyped, NEW a \in Artifacts, NEW d \in Artifacts,
         Reaches(a, d), d # a
  PROVE  d \in Descendants(a)
  <1> DEFINE S == {a} \cup Descendants(a)
  <1>1. Closed(S)
    <2> SUFFICES ASSUME NEW e \in edges, e[1] \in S
                 PROVE  e[2] \in Descendants(a)
      BY DEF Closed
    <2>1. e = <<e[1], e[2]>> /\ e[1] \in Artifacts /\ e[2] \in Artifacts
      BY DEF EdgesTyped
    <2>2. CASE e[1] = a
      BY <2>1, <2>2, ReachesItself DEF Descendants
    <2>3. CASE e[1] \in Descendants(a)
      <3>1. PICK c \in Artifacts : <<a, c>> \in edges /\ Reaches(c, e[1])
        BY <2>3 DEF Descendants
      <3>2. Reaches(c, e[2])
        BY <2>1, <3>1, EdgeReaches, ReachesOn
      <3> QED BY <2>1, <3>1, <3>2 DEF Descendants
    <2> QED BY <2>2, <2>3
  <1>2. S \in SUBSET Artifacts /\ a \in S
    BY DEF Descendants
  <1>3. d \in S
    BY <1>1, <1>2 DEF Reaches
  <1> QED BY <1>3

\* The cycle check of add_dependency is enough: an edge whose upstream end is
\* not below its downstream end closes no cycle.
LEMMA NewEdgeKeepsAcyclic ==
  ASSUME EdgesTyped, Acyclic,
         NEW u \in Artifacts, NEW d \in Artifacts,
         KeepsAcyclic(u, d), edges' = edges \cup {<<u, d>>}
  PROVE  Acyclic'
  <1> SUFFICES ASSUME NEW e \in edges'
               PROVE  ~Reaches(e[2], e[1])'
    BY DEF Acyclic
  <1>1. e[1] \in Artifacts /\ e[2] \in Artifacts
    BY DEF EdgesTyped
  \* It is enough to find a set, closed also under the new edge, that holds
  \* the downstream end of e and not its upstream end.
  <1>2. SUFFICES \E S \in SUBSET Artifacts :
                    /\ Closed(S)
                    /\ u \in S => d \in S
                    /\ e[2] \in S /\ e[1] \notin S
    <2> PICK S \in SUBSET Artifacts : /\ Closed(S)
                                      /\ u \in S => d \in S
                                      /\ e[2] \in S /\ e[1] \notin S
      BY <1>2
    <2>1. Closed(S)'
      BY DEF Closed
    <2> QED BY <2>1 DEF Reaches
  <1>3. u \notin Cone(d) /\ d \in Cone(d) /\ Closed(Cone(d)) /\ Cone(d) \in SUBSET Artifacts
    BY ConeClosed, ReachesItself DEF KeepsAcyclic, Cone
  <1>4. CASE e = <<u, d>>
    BY <1>3, <1>4
  <1>5. CASE e \in edges
    <2>1. Closed(Cone(e[2])) /\ e[2] \in Cone(e[2]) /\ Cone(e[2]) \in SUBSET Artifacts
      BY <1>1, ConeClosed, ReachesItself DEF Cone
    <2>2. e[1] \notin Cone(e[2])
      BY <1>5 DEF Acyclic, Cone
    <2>3. CASE u \notin Cone(e[2])
      BY <2>1, <2>2, <2>3
    <2>4. CASE u \in Cone(e[2])
      <3>1. e[1] \notin Cone(d)
        <4> SUFFICES ASSUME e[1] \in Cone(d) PROVE FALSE
          OBVIOUS
        <4>1. Reaches(d, e[1]) /\ Reaches(e[1], e[2]) /\ Reaches(e[2], u)
          BY <1>5, <2>4, EdgeReaches DEF Cone
        <4> QED BY <1>1, <1>3, <4>1, ReachesOn DEF Cone
      <3>2. Closed(Cone(e[2]) \cup Cone(d))
        BY <1>3, <2>1 DEF Closed
      <3> QED BY <1>3, <2>1, <2>2, <3>1, <3>2
    <2> QED BY <2>3, <2>4
  <1> QED BY <1>4, <1>5
-----------------------------------------------------------------------------
\* The inductive invariant.  Everything but the last conjunct holds whoever
\* acks; the stale events are only safe when no one acks without the lease.
NoticesKept == LateAnswers \/ NoLostNotice
GraphInv == /\ GraphTypeOK
            /\ Acyclic
            /\ OneVersionPerSource
            /\ SelectedExists
            /\ StaleUntilReviewed
            /\ NoticesKept

\* The dependency table is typed.
LEMMA InvEdgesTyped == GraphInv => EdgesTyped
  BY DEF GraphInv, GraphTypeOK, EdgesTyped

\* Acyclicity depends on the edges only.
LEMMA AcyclicUnchanged ==
  ASSUME Acyclic, edges' = edges
  PROVE  Acyclic'
  BY DEF Acyclic, Reaches, Closed

\* A selection and its propagation, whatever called them.
LEMMA SelectKeeps ==
  ASSUME GraphInv, NEW a \in Artifacts, NEW n \in 1..MaxVersions, Select(a, n)
  PROVE  /\ selected' = [selected EXCEPT ![a] = n]
         /\ selected' \in [Artifacts -> 0..MaxVersions]
         /\ stale' \subseteq Artifacts
         /\ notice' \in [Artifacts -> SUBSET NoticeStates]
         /\ behind' \subseteq Artifacts
         /\ unnoticed' \subseteq Artifacts
         /\ StaleUntilReviewed'
         /\ NoticesKept'
  <1> DEFINE below   == IF selected[a] = n THEN {} ELSE Descendants(a)
             changed == {d \in Artifacts : selected[a] # n /\ d # a /\ Reaches(a, d)}
  <1>1. changed \subseteq below
    BY InvEdgesTyped, WalkFindsAll
  <1>2. below \subseteq Artifacts
    BY DEF Descendants
  <1> HIDE DEF below, changed
  <1>3. /\ selected' = [selected EXCEPT ![a] = n]
        /\ stale' = stale \cup below
        /\ notice' = [d \in Artifacts |->
                        IF d \in below /\ ~NoticePending(d)
                          THEN notice[d] \cup {"waiting"} ELSE notice[d]]
        /\ behind' = behind \cup changed
        /\ unnoticed' = unnoticed \cup changed
    BY DEF Select, SelectOver, below, changed
  <1>4. /\ selected' \in [Artifacts -> 0..MaxVersions]
        /\ stale' \subseteq Artifacts
        /\ notice' \in [Artifacts -> SUBSET NoticeStates]
        /\ behind' \subseteq Artifacts
        /\ unnoticed' \subseteq Artifacts
    BY <1>1, <1>2, <1>3, GraphAssumption DEF GraphInv, GraphTypeOK, NoticeStates
  <1>5. StaleUntilReviewed'
    BY <1>1, <1>3 DEF GraphInv, StaleUntilReviewed
  <1>6. NoticesKept'
    <2> SUFFICES ASSUME ~LateAnswers, NEW d \in unnoticed'
                 PROVE  NoticePending(d)'
      BY DEF NoticesKept, NoLostNotice
    <2>1. d \in Artifacts /\ (d \in below \/ d \in unnoticed)
      BY <1>1, <1>3, <1>4
    <2>2. d \notin below => NoticePending(d)
      BY <2>1 DEF GraphInv, NoticesKept, NoLostNotice
    <2> QED BY <1>3, <2>1, <2>2 DEF NoticePending
  <1> QED BY <1>3, <1>4, <1>5, <1>6

\* put_version, with a version found for the source event or a new one.
LEMMA PutVersionKeeps ==
  ASSUME GraphInv, NEW a \in Artifacts, NEW src \in Sources \cup {NoSource},
         NEW select \in BOOLEAN, put_version(a, src, select)
  PROVE  GraphInv'
  <1>1. /\ versions \in [Artifacts -> Seq(Sources \cup {NoSource})]
        /\ \A b \in Artifacts : Len(versions[b]) <= MaxVersions
        /\ exists' = exists /\ edges' = edges
    BY DEF GraphInv, GraphTypeOK, put_version
  <1>2. Acyclic'
    BY <1>1, AcyclicUnchanged DEF GraphInv
  <1>3. CASE NoSelection /\ UNCHANGED versions
    BY <1>1, <1>2, <1>3 DEF GraphInv, NoSelection, GraphTypeOK, OneVersionPerSource,
       SelectedExists, StaleUntilReviewed, NoticesKept, NoLostNotice, NoticePending
  <1>4. ASSUME NEW n \in MadeFor(a, src), Select(a, n), UNCHANGED versions
        PROVE  GraphInv'
    <2>1. n \in 1..Len(versions[a]) /\ n \in 1..MaxVersions
      BY <1>1, <1>4, GraphAssumption DEF MadeFor
    <2>2. SelectedExists'
      <3>1. selected' = [selected EXCEPT ![a] = n]
        BY <1>4, <2>1, SelectKeeps
      <3> QED BY <1>4, <2>1, <3>1 DEF GraphInv, SelectedExists, GraphTypeOK
    <2> QED
      BY <1>1, <1>2, <1>4, <2>1, <2>2, SelectKeeps DEF GraphInv, GraphTypeOK, OneVersionPerSource
  <1>5. ASSUME src = NoSource \/ MadeFor(a, src) = {},
               Len(versions[a]) < MaxVersions,
               versions' = [versions EXCEPT ![a] = WithVersion(a, src)],
               Select(a, Len(versions[a]) + 1) \/ NoSelection
        PROVE  GraphInv'
    <2> DEFINE top == Len(versions[a]) + 1
    <2> HIDE DEF top
    <2>a. versions[a] \in Seq(Sources \cup {NoSource}) /\ Len(versions[a]) \in Nat
      BY <1>1, LenProperties
    <2>b. /\ Append(versions[a], src) \in Seq(Sources \cup {NoSource})
          /\ Len(Append(versions[a], src)) = top
          /\ \A k \in 1..Len(versions[a]) : Append(versions[a], src)[k] = versions[a][k]
          /\ Append(versions[a], src)[top] = src
      BY <2>a, AppendProperties DEF top
    <2>c. /\ DOMAIN versions[a] = 1..Len(versions[a])
          /\ DOMAIN Append(versions[a], src) = 1..top
      BY <2>a, <2>b, LenProperties
    <2>1. /\ versions' \in [Artifacts -> Seq(Sources \cup {NoSource})]
          /\ versions'[a] = Append(versions[a], src)
          /\ Len(versions'[a]) = top /\ top \in 1..MaxVersions
          /\ \A b \in Artifacts \ {a} : versions'[b] = versions[b]
      <3>1. versions' = [versions EXCEPT ![a] = Append(versions[a], src)]
        BY <1>5 DEF WithVersion
      <3>2. top \in 1..MaxVersions
        BY <1>5, <2>a, GraphAssumption DEF top
      <3> QED BY <1>1, <2>b, <3>1, <3>2
    <2>d. \A b \in Artifacts : Len(versions'[b]) <= MaxVersions
      <3> TAKE b \in Artifacts
      <3>1. CASE b = a
        BY <2>1, <3>1, GraphAssumption
      <3>2. CASE b # a
        BY <1>1, <2>1, <3>2
      <3> QED BY <3>1, <3>2
    <2>2. OneVersionPerSource'
      <3> SUFFICES ASSUME NEW b \in Artifacts,
                          NEW i \in DOMAIN versions'[b], NEW j \in DOMAIN versions'[b],
                          versions'[b][i] = versions'[b][j], versions'[b][i] # NoSource
                   PROVE  i = j
        BY DEF OneVersionPerSource
      <3>1. CASE b # a
        BY <2>1, <3>1 DEF GraphInv, OneVersionPerSource
      <3>2. CASE b = a
        <4>1. \A k \in DOMAIN versions[a] : /\ k \in DOMAIN versions'[a] /\ k < top
                                            /\ versions'[a][k] = versions[a][k]
          BY <2>a, <2>b, <2>c, <2>1 DEF top
        <4>2. versions'[a][top] = src /\ DOMAIN versions'[a] = DOMAIN versions[a] \cup {top}
          BY <2>a, <2>b, <2>c, <2>1 DEF top
        <4>3. src # NoSource => \A k \in DOMAIN versions[a] : versions[a][k] # src
          BY <1>5 DEF MadeFor
        <4> QED
          BY <3>2, <4>1, <4>2, <4>3 DEF GraphInv, OneVersionPerSource
      <3> QED BY <3>1, <3>2
    <2>3. CASE NoSelection
      <3>1. SelectedExists'
        BY <2>a, <2>1, <2>3 DEF top, NoSelection, GraphInv, SelectedExists
      <3>2. GraphTypeOK'
        BY <1>1, <2>1, <2>d, <2>3 DEF NoSelection, GraphInv, GraphTypeOK
      <3> QED
        BY <1>2, <2>2, <2>3, <3>1, <3>2 DEF NoSelection, GraphInv, StaleUntilReviewed,
           NoticesKept, NoLostNotice, NoticePending
    <2>4. CASE Select(a, top)
      <3>1. SelectedExists'
        <4>1. selected' = [selected EXCEPT ![a] = top]
          BY <2>1, <2>4, SelectKeeps
        <4> QED BY <2>1, <4>1, GraphAssumption DEF GraphInv, SelectedExists, GraphTypeOK
      <3>2. GraphTypeOK'
        BY <1>1, <2>1, <2>d, <2>4, SelectKeeps DEF GraphInv, GraphTypeOK
      <3> QED
        BY <1>2, <2>1, <2>2, <2>4, <3>1, <3>2, SelectKeeps DEF GraphInv
    <2> QED BY <1>5, <2>3, <2>4 DEF top
  <1> QED
    <2>1. CASE \E n \in MadeFor(a, src) : Select(a, n) /\ UNCHANGED versions
      BY <1>4, <2>1
    <2>2. CASE NoSelection /\ UNCHANGED versions
      BY <1>3, <2>2
    <2> QED BY <1>5, <2>1, <2>2 DEF put_version, Room

\* select_version selects a version that exists.
LEMMA SelectVersionKeeps ==
  ASSUME GraphInv, NEW a \in Artifacts, NEW n \in 1..MaxVersions,
         NEW expected \in 0..MaxVersions, select_version(a, n, expected)
  PROVE  GraphInv'
  <1>1. n \in Numbers(a) /\ Select(a, n) /\ UNCHANGED <<exists, edges, versions>>
    BY DEF select_version
  <1>2. n \in 1..Len(versions[a])
    BY <1>1 DEF Numbers, GraphInv, GraphTypeOK
  <1>3. SelectedExists'
    <2>1. selected' = [selected EXCEPT ![a] = n]
      BY <1>1, SelectKeeps
    <2> QED BY <1>1, <1>2, <2>1 DEF GraphInv, SelectedExists, GraphTypeOK
  <1>4. Acyclic'
    BY <1>1, AcyclicUnchanged DEF GraphInv
  <1> QED BY <1>1, <1>3, <1>4, SelectKeeps DEF GraphInv, GraphTypeOK, OneVersionPerSource

\* add_dependency changes the edges only, and closes no cycle.
LEMMA AddDependencyKeeps ==
  ASSUME GraphInv, NEW u \in Artifacts, NEW d \in Artifacts, add_dependency(u, d)
  PROVE  GraphInv'
  <1>1. Acyclic'
    BY InvEdgesTyped, NewEdgeKeepsAcyclic DEF GraphInv, add_dependency
  <1>2. GraphTypeOK'
    BY DEF GraphInv, GraphTypeOK, add_dependency, BothExist
  <1> QED
    BY <1>1, <1>2 DEF GraphInv, add_dependency, OneVersionPerSource, SelectedExists,
       StaleUntilReviewed, NoticesKept, NoLostNotice, NoticePending

\* The steps that leave the graph and the versions alone.
LEMMA OtherStepsKeep ==
  ASSUME GraphInv, NEW a \in Artifacts, NEW isStale \in BOOLEAN,
         \/ create(a) \/ set_status(a, isStale)
         \/ ClaimNotice(a) \/ ReturnNotice(a) \/ SettleNotice(a)
  PROVE  GraphInv'
  <1>1. /\ edges' = edges /\ UNCHANGED <<versions, selected>>
        /\ exists \subseteq exists' /\ exists' \subseteq Artifacts
    BY DEF GraphInv, GraphTypeOK, create, set_status, ClaimNotice, ReturnNotice, SettleNotice
  <1>2. Acyclic' /\ OneVersionPerSource' /\ SelectedExists'
    BY <1>1, AcyclicUnchanged DEF GraphInv, OneVersionPerSource, SelectedExists
  <1>3. GraphTypeOK' /\ StaleUntilReviewed' /\ NoticesKept'
    <2>1. CASE create(a)
      BY <1>1, <2>1 DEF create, GraphInv, GraphTypeOK, StaleUntilReviewed, NoticesKept,
         NoLostNotice, NoticePending
    <2>2. CASE set_status(a, isStale)
      BY <1>1, <2>2 DEF set_status, GraphInv, GraphTypeOK, StaleUntilReviewed, NoticesKept,
         NoLostNotice, NoticePending
    <2>3. CASE ClaimNotice(a)
      <3>1. GraphTypeOK' /\ StaleUntilReviewed'
        BY <1>1, <2>3 DEF ClaimNotice, GraphInv, GraphTypeOK, StaleUntilReviewed, NoticeStates
      <3>2. NoticesKept'
        BY <2>3 DEF ClaimNotice, GraphInv, GraphTypeOK, NoticesKept, NoLostNotice, NoticePending
      <3> QED BY <3>1, <3>2
    <2>4. CASE ReturnNotice(a)
      <3>1. GraphTypeOK' /\ StaleUntilReviewed'
        BY <1>1, <2>4 DEF ReturnNotice, GraphInv, GraphTypeOK, StaleUntilReviewed, NoticeStates
      <3>2. NoticesKept'
        BY <2>4 DEF ReturnNotice, GraphInv, GraphTypeOK, NoticesKept, NoLostNotice, NoticePending
      <3> QED BY <3>1, <3>2
    <2>5. CASE SettleNotice(a)
      <3>1. GraphTypeOK' /\ StaleUntilReviewed'
        BY <1>1, <2>5 DEF SettleNotice, GraphInv, GraphTypeOK, StaleUntilReviewed, NoticeStates
      <3>2. NoticesKept'
        BY <2>5 DEF SettleNotice, GraphInv, GraphTypeOK, NoticesKept, NoLostNotice, NoticePending
      <3> QED BY <3>1, <3>2
    <2> QED BY <2>1, <2>2, <2>3, <2>4, <2>5
  <1> QED BY <1>2, <1>3 DEF GraphInv

\* Initially there are no edges, no versions and nothing is stale.
LEMMA GraphInvInit == GraphInit => GraphInv
  <1> SUFFICES ASSUME GraphInit PROVE GraphInv
    OBVIOUS
  <1>1. GraphTypeOK
    BY GraphAssumption, EmptySeq DEF GraphInit, GraphTypeOK
  <1>2. OneVersionPerSource /\ SelectedExists
    BY DEF GraphInit, OneVersionPerSource, SelectedExists
  <1>3. Acyclic /\ StaleUntilReviewed /\ NoticesKept
    BY DEF GraphInit, Acyclic, StaleUntilReviewed, NoticesKept, NoLostNotice
  <1> QED BY <1>1, <1>2, <1>3 DEF GraphInv

\* Every step keeps the invariant.
LEMMA GraphInvNext == GraphInv /\ [GraphNext]_graphVars => GraphInv'
  <1> SUFFICES ASSUME GraphInv, [GraphNext]_graphVars PROVE GraphInv'
    OBVIOUS
  <1>1. ASSUME NEW a \in Artifacts, create(a) PROVE GraphInv'
    BY <1>1, OtherStepsKeep
  <1>2. ASSUME NEW u \in Artifacts, NEW d \in Artifacts, add_dependency(u, d) PROVE GraphInv'
    BY <1>2, AddDependencyKeeps
  <1>3. ASSUME NEW a \in Artifacts, NEW n \in 1..MaxVersions, NEW x \in 0..MaxVersions,
               select_version(a, n, x)
        PROVE GraphInv'
    BY <1>3, SelectVersionKeeps
  <1>4. ASSUME NEW a \in Artifacts, NEW src \in Sources \cup {NoSource}, NEW select \in BOOLEAN,
               put_version(a, src, select)
        PROVE GraphInv'
    BY <1>4, PutVersionKeeps
  <1>5. ASSUME NEW a \in Artifacts, NEW isStale \in BOOLEAN, set_status(a, isStale)
        PROVE GraphInv'
    BY <1>5, OtherStepsKeep
  <1>6. ASSUME NEW a \in Artifacts, ClaimNotice(a) \/ ReturnNotice(a) \/ SettleNotice(a)
        PROVE GraphInv'
    BY <1>6, OtherStepsKeep
  <1>7. CASE UNCHANGED graphVars
    <2>1. Acyclic'
      BY <1>7, AcyclicUnchanged DEF GraphInv, graphVars
    <2> QED
      BY <1>7, <2>1 DEF graphVars, GraphInv, GraphTypeOK, OneVersionPerSource, SelectedExists,
         StaleUntilReviewed, NoticesKept, NoLostNotice, NoticePending
  <1> QED BY <1>1, <1>2, <1>3, <1>4, <1>5, <1>6, <1>7 DEF GraphNext

\* GraphInv holds of every reachable state.
THEOREM GraphInvHolds == GraphSpec => []GraphInv
  BY GraphInvInit, GraphInvNext, PTL DEF GraphSpec

\* Type correctness of the artifact tables.
THEOREM GraphTypes == GraphSpec => []GraphTypeOK
  <1>1. GraphInv => GraphTypeOK
    BY DEF GraphInv
  <1> QED BY <1>1, GraphInvHolds, PTL

\* Calls of add_dependency in any order never close a cycle in the graph.
THEOREM GraphStaysAcyclic == GraphSpec => []Acyclic
  <1>1. GraphInv => Acyclic
    BY DEF GraphInv
  <1> QED BY <1>1, GraphInvHolds, PTL

\* put_version is idempotent in the source event.
THEOREM VersionsAreIdempotent == GraphSpec => []OneVersionPerSource
  <1>1. GraphInv => OneVersionPerSource
    BY DEF GraphInv
  <1> QED BY <1>1, GraphInvHolds, PTL

\* A selected version is a version of its artifact.
THEOREM SelectionsExist == GraphSpec => []SelectedExists
  <1>1. GraphInv => SelectedExists
    BY DEF GraphInv
  <1> QED BY <1>1, GraphInvHolds, PTL

\* Stale propagation reaches everything below a changed selection.
THEOREM StalenessKept == GraphSpec => []StaleUntilReviewed
  <1>1. GraphInv => StaleUntilReviewed
    BY DEF GraphInv
  <1> QED BY <1>1, GraphInvHolds, PTL

\* Without late answers no stale event is lost to the duplicate check.
THEOREM NoticesNotLost ==
  ASSUME ~LateAnswers
  PROVE  GraphSpec => []NoLostNotice
  <1>1. GraphInv => NoLostNotice
    BY DEF GraphInv, NoticesKept
  <1> QED BY <1>1, GraphInvHolds, PTL

\* No step changes or removes a version.
THEOREM VersionsImmutable == GraphSpec => VersionsKept
  <1> DEFINE Kept == \A a \in Artifacts :
                       /\ Len(versions'[a]) >= Len(versions[a])
                       /\ \A n \in DOMAIN versions[a] : versions'[a][n] = versions[a][n]
  <1>1. GraphInv /\ [GraphNext]_graphVars => [Kept]_graphVars
    <2> SUFFICES ASSUME GraphInv, GraphNext PROVE Kept
      OBVIOUS
    <2>1. versions \in [Artifacts -> Seq(Sources \cup {NoSource})]
      BY DEF GraphInv, GraphTypeOK
    <2>2. CASE UNCHANGED versions
      BY <2>1, <2>2, LenProperties
    <2>3. CASE \E a \in Artifacts, src \in Sources \cup {NoSource} :
                 versions' = [versions EXCEPT ![a] = WithVersion(a, src)]
      <3> PICK a \in Artifacts, src \in Sources \cup {NoSource} :
                 versions' = [versions EXCEPT ![a] = Append(versions[a], src)]
        BY <2>3 DEF WithVersion
      <3> SUFFICES ASSUME NEW b \in Artifacts
                   PROVE  /\ Len(versions'[b]) >= Len(versions[b])
                          /\ \A n \in DOMAIN versions[b] : versions'[b][n] = versions[b][n]
        OBVIOUS
      <3>1. Len(versions[b]) \in Nat /\ DOMAIN versions[b] = 1..Len(versions[b])
        BY <2>1, LenProperties
      <3>2. CASE a = b
        <4>1. /\ Len(Append(versions[b], src)) = Len(versions[b]) + 1
              /\ \A n \in 1..Len(versions[b]) : Append(versions[b], src)[n] = versions[b][n]
          BY <2>1, AppendProperties
        <4>2. versions'[b] = Append(versions[b], src)
          BY <2>1, <3>2
        <4> QED BY <3>1, <4>1, <4>2
      <3>3. CASE a # b
        BY <2>1, <3>1, <3>3
      <3> QED BY <3>2, <3>3
    <2> QED
      BY <2>2, <2>3 DEF GraphNext, create, add_dependency, select_version, put_version,
         set_status, ClaimNotice, ReturnNotice, SettleNotice
  <1> QED BY <1>1, GraphInvHolds, PTL DEF GraphSpec, VersionsKept
-----------------------------------------------------------------------------
(* Several connections *)

\* The locals of a method, from its arguments on.
LocalType ==
  [artifact : Artifacts \cup {NoArtifact}, src : Sources \cup {NoSource}, select : BOOLEAN,
   n : Nat, expected : Nat, old : Nat,
   up : Artifacts \cup {NoArtifact}, down : Artifacts \cup {NoArtifact},
   made : SUBSET Nat, links : SUBSET (Artifacts \X Artifacts)]

\* Along the edges in E nothing leads from d to u.
NoPath(E, d, u) ==
  \E S \in SUBSET Artifacts : (\A e \in E : e[1] \in S => e[2] \in S) /\ d \in S /\ u \notin S

\* That is what the cycle check finds.
LEMMA CheckedPath ==
  ASSUME NEW u \in Artifacts, NEW d \in Artifacts
  PROVE  KeepsAcyclic(u, d) <=> NoPath(edges, d, u)
  BY DEF KeepsAcyclic, Reaches, Closed, NoPath

\* What a connection has looked up and nobody can take back: rows that exist, a
\* version number that is there or was the next one, no version of the source event
\* among those it found, no way back along the edges it walked.
Sound(rows, vs, step, l) ==
  /\ step \in {"number", "insert", "read", "write"} => l.artifact \in rows
  /\ step = "insert" => l.n \in 1..(Len(vs[l.artifact]) + 1)
  /\ step \in {"read", "write"} => l.n \in 1..Len(vs[l.artifact])
  /\ step \in {"number", "insert"} /\ l.src # NoSource => l.made = {}
  /\ step = "link" => /\ l.up # l.down /\ {l.up, l.down} \subseteq rows
                      /\ NoPath(l.links, l.down, l.up)

\* The inductive invariant of the tables and the locals.  It says nothing of
\* cycles, source events and staleness, which several connections can break.
ConnInv == /\ GraphTypeOK
           /\ SelectedExists
           /\ pc \in [Conns -> Steps]
           /\ local \in [Conns -> LocalType]
           /\ \A c \in Conns : Sound(exists, versions, pc[c], local[c])

\* A step of c that changes no table.
Reads(c) == \/ \E a \in Artifacts, src \in Sources \cup {NoSource}, select \in BOOLEAN :
                 StartPut(c, a, src, select)
            \/ ReadNumber(c)
            \/ \E a \in Artifacts, n \in 1..MaxVersions, expected \in 0..MaxVersions :
                 StartSelect(c, a, n, expected)
            \/ ReadSelection(c)
            \/ \E u, d \in Artifacts : StartLink(c, u, d)
            \/ Die(c)
Writes(c) == InsertVersion(c) \/ WriteSelection(c) \/ InsertLink(c) \/ OneStatement(c)

\* A step of the specification is one of these, or none.
LEMMA ConnStepCases ==
  ASSUME [ConnNext]_connVars
  PROVE  (\E c \in Conns : Reads(c) \/ Writes(c)) \/ UNCHANGED connVars
  BY DEF ConnNext, Reads, Writes

\* Nothing a connection has looked up goes away: rows stay, versions are added.
Grows == /\ exists \subseteq exists'
         /\ \A a \in Artifacts : Len(versions[a]) <= Len(versions'[a])

\* So what was sound stays so, whoever writes.
LEMMA SoundStays ==
  ASSUME GraphTypeOK, GraphTypeOK', Grows, NEW step, NEW l, Sound(exists, versions, step, l)
  PROVE  Sound(exists', versions', step, l)
  <1>1. \A a \in exists : /\ a \in exists' /\ a \in Artifacts
                          /\ Len(versions[a]) \in Nat /\ Len(versions'[a]) \in Nat
                          /\ Len(versions[a]) <= Len(versions'[a])
    BY LenProperties DEF Grows, GraphTypeOK
  <1>2. exists \subseteq exists'
    BY DEF Grows
  <1> QED BY <1>1, <1>2 DEF Sound

\* A step of c that goes on with sound locals keeps the invariant of all.
LEMMA StepKeeps ==
  ASSUME ConnInv, Grows, GraphTypeOK', SelectedExists', NEW c \in Conns,
         NEW step \in Steps, NEW l \in LocalType, Goto(c, step, l),
         Sound(exists', versions', step, l)
  PROVE  ConnInv'
  <1>1. /\ pc' \in [Conns -> Steps] /\ local' \in [Conns -> LocalType]
        /\ pc'[c] = step /\ local'[c] = l
        /\ \A x \in Conns \ {c} : pc'[x] = pc[x] /\ local'[x] = local[x]
    BY DEF ConnInv, Goto
  <1>2. \A x \in Conns : Sound(exists', versions', pc'[x], local'[x])
    <2> TAKE x \in Conns
    <2>1. Sound(exists, versions, pc[x], local[x])
      BY DEF ConnInv
    <2>2. Sound(exists', versions', pc[x], local[x])
      BY <2>1, SoundStays DEF ConnInv
    <2> QED BY <1>1, <2>2
  <1> QED BY <1>1, <1>2 DEF ConnInv

\* The arguments a method begins with, and what it looks up, are locals.
LEMMA NumberLocals ==
  ASSUME NEW l \in LocalType, NEW n \in Nat
  PROVE  /\ [l EXCEPT !.n = n] \in LocalType /\ [l EXCEPT !.n = n].artifact = l.artifact
         /\ [l EXCEPT !.n = n].n = n
         /\ [l EXCEPT !.n = n].src = l.src /\ [l EXCEPT !.n = n].made = l.made
  BY DEF LocalType

\* The same, for the selection that select_version reads.
LEMMA SelectionLocals ==
  ASSUME NEW l \in LocalType, NEW n \in Nat
  PROVE  /\ [l EXCEPT !.old = n] \in LocalType /\ [l EXCEPT !.old = n].artifact = l.artifact
         /\ [l EXCEPT !.old = n].n = l.n
  BY DEF LocalType

\* put_version begins with the SELECT of a version made for the source event.
LEMMA PutStarts ==
  ASSUME NEW c \in Conns, NEW a \in Artifacts, NEW src \in Sources \cup {NoSource},
         NEW select \in BOOLEAN, StartPut(c, a, src, select), MadeFor(a, src) \subseteq Nat
  PROVE  /\ a \in exists /\ UNCHANGED graphVars
         /\ \E l \in LocalType :
              /\ l.artifact = a
              /\ \/ Goto(c, "number", l) /\ (l.src # NoSource => l.made = {})
                 \/ l.n \in MadeFor(a, src) /\ Goto(c, "read", l)
  <1> DEFINE args == [NoLocals EXCEPT !.artifact = a, !.src = src, !.select = select,
                                      !.made = MadeFor(a, src)]
             Begins == \E l \in LocalType :
                         /\ l.artifact = a
                         /\ \/ Goto(c, "number", l) /\ (l.src # NoSource => l.made = {})
                            \/ l.n \in MadeFor(a, src) /\ Goto(c, "read", l)
  <1>1. args \in LocalType /\ args.artifact = a /\ args.src = src /\ args.made = MadeFor(a, src)
    BY DEF NoLocals, LocalType
  <1>2. /\ a \in exists /\ UNCHANGED graphVars
        /\ \/ Goto(c, "number", args) /\ (src = NoSource \/ MadeFor(a, src) = {})
           \/ \E n \in MadeFor(a, src) : Goto(c, "read", [args EXCEPT !.n = n])
    BY Zenon DEF StartPut
  <1> HIDE DEF args
  <1>3. ASSUME NEW n \in MadeFor(a, src), Goto(c, "read", [args EXCEPT !.n = n])
        PROVE  Begins
    <2> DEFINE l == [args EXCEPT !.n = n]
    <2>1. l \in LocalType /\ l.artifact = a /\ l.n = n
      BY <1>1, MadeFor(a, src) \subseteq Nat DEF LocalType
    <2>2. Goto(c, "read", l)
      BY <1>3
    <2> HIDE DEF l
    <2> QED BY <2>1, <2>2
  <1>4. ASSUME Goto(c, "number", args), src = NoSource \/ MadeFor(a, src) = {} PROVE Begins
    BY <1>1, <1>4
  <1> HIDE DEF Begins
  <1>5. Begins
    BY <1>2, <1>3, <1>4, Zenon
  <1> QED BY <1>2, <1>5 DEF Begins

\* What a SELECT returns is sound when it returns.
LEMMA ReadsGoOn ==
  ASSUME ConnInv, NEW c \in Conns, Reads(c)
  PROVE  /\ UNCHANGED graphVars
         /\ \E step \in Steps, l \in LocalType :
              Goto(c, step, l) /\ Sound(exists, versions, step, l)
  <1> DEFINE GoesOn == \E step \in Steps, l \in LocalType :
                         Goto(c, step, l) /\ Sound(exists, versions, step, l)
  <1>0. ASSUME NEW step \in Steps, NEW l \in LocalType, Goto(c, step, l),
               Sound(exists, versions, step, l)
        PROVE  GoesOn
    BY <1>0
  <1> HIDE DEF GoesOn
  <1>2. /\ local[c] \in LocalType /\ Sound(exists, versions, pc[c], local[c])
        /\ {"idle", "number", "insert", "read", "write", "link"} \subseteq Steps
        /\ exists \subseteq Artifacts
        /\ \A a \in Artifacts : /\ versions[a] \in Seq(Sources \cup {NoSource})
                                /\ Len(versions[a]) \in Nat
                                /\ DOMAIN versions[a] = 1..Len(versions[a])
                                /\ selected[a] \in Nat
    BY GraphAssumption, LenProperties DEF ConnInv, GraphTypeOK, Steps
  <1>3. ASSUME NEW a \in Artifacts, NEW src \in Sources \cup {NoSource},
               NEW select \in BOOLEAN, StartPut(c, a, src, select)
        PROVE  UNCHANGED graphVars /\ GoesOn
    <2>1. MadeFor(a, src) \subseteq Nat /\ MadeFor(a, src) \subseteq 1..Len(versions[a])
      BY <1>2 DEF MadeFor
    <2>2. a \in exists /\ UNCHANGED graphVars
      BY <1>3, <2>1, PutStarts
    <2>3. PICK l \in LocalType :
            /\ l.artifact = a
            /\ \/ Goto(c, "number", l) /\ (l.src # NoSource => l.made = {})
               \/ l.n \in MadeFor(a, src) /\ Goto(c, "read", l)
      BY <1>3, <2>1, PutStarts
    <2>4. CASE Goto(c, "number", l) /\ (l.src # NoSource => l.made = {})
      <3>1. Sound(exists, versions, "number", l)
        BY <2>2, <2>3, <2>4 DEF Sound
      <3> QED BY <1>0, <1>2, <2>2, <2>4, <3>1
    <2>5. CASE l.n \in MadeFor(a, src) /\ Goto(c, "read", l)
      <3>1. Sound(exists, versions, "read", l)
        BY <2>1, <2>2, <2>3, <2>5 DEF Sound
      <3> QED BY <1>0, <1>2, <2>2, <2>5, <3>1
    <2> QED BY <2>3, <2>4, <2>5
  <1>4. ASSUME ReadNumber(c) PROVE GoesOn
    <2>1. local[c].artifact \in exists /\ (local[c].src # NoSource => local[c].made = {})
      BY <1>2, <1>4 DEF ReadNumber, At, Sound
    <2>2. PICK top \in Nat : /\ top = Len(versions[local[c].artifact]) + 1
                             /\ top \in 1..(Len(versions[local[c].artifact]) + 1)
      BY <1>2, <2>1
    <2>3. PICK l \in LocalType : /\ l = [local[c] EXCEPT !.n = top]
                                 /\ l.artifact = local[c].artifact /\ l.n = top
                                 /\ l.src = local[c].src /\ l.made = local[c].made
      BY <1>2, NumberLocals
    <2>4. Goto(c, "insert", l)
      BY <1>4, <2>2, <2>3 DEF ReadNumber
    <2>5. Sound(exists, versions, "insert", l)
      BY <2>1, <2>2, <2>3 DEF Sound
    <2> QED BY <1>0, <1>2, <2>4, <2>5
  <1>5. ASSUME NEW a \in Artifacts, NEW n \in 1..MaxVersions, NEW expected \in 0..MaxVersions,
               StartSelect(c, a, n, expected)
        PROVE  GoesOn
    <2>0. n \in Nat /\ expected \in Nat
      BY GraphAssumption
    <2>1. PICK l \in LocalType :
            /\ l = [NoLocals EXCEPT !.artifact = a, !.n = n, !.expected = expected]
            /\ l.artifact = a /\ l.n = n
      <3> [NoLocals EXCEPT !.artifact = a, !.n = n, !.expected = expected] \in LocalType
        BY <2>0 DEF NoLocals, LocalType
      <3> QED BY DEF NoLocals
    <2>2. Goto(c, "read", l) /\ a \in exists /\ n \in 1..Len(versions[a])
      BY <1>2, <1>5, <2>1 DEF StartSelect, Numbers
    <2>3. Sound(exists, versions, "read", l)
      BY <2>1, <2>2 DEF Sound
    <2> QED BY <1>0, <1>2, <2>2, <2>3
  <1>6. Sound(exists, versions, "idle", NoLocals) /\ NoLocals \in LocalType
    BY DEF Sound, NoLocals, LocalType
  <1>7. ASSUME ReadSelection(c) PROVE GoesOn
    <2>1. local[c].artifact \in exists /\ local[c].n \in 1..Len(versions[local[c].artifact])
      BY <1>2, <1>7 DEF ReadSelection, At, Sound
    <2>2. PICK seen \in Nat : seen = selected[local[c].artifact]
      BY <1>2, <2>1
    <2>3. PICK l \in LocalType : /\ l = [local[c] EXCEPT !.old = seen]
                                 /\ l.artifact = local[c].artifact /\ l.n = local[c].n
      BY <1>2, SelectionLocals
    <2>4. Goto(c, "write", l) \/ Goto(c, "idle", NoLocals)
      BY <1>7, <2>2, <2>3 DEF ReadSelection, Return
    <2>5. Sound(exists, versions, "write", l)
      BY <2>1, <2>3 DEF Sound
    <2> QED BY <1>0, <1>2, <1>6, <2>4, <2>5
  <1>8. ASSUME NEW u \in Artifacts, NEW d \in Artifacts, StartLink(c, u, d) PROVE GoesOn
    <2>1. PICK l \in LocalType : /\ l = [NoLocals EXCEPT !.up = u, !.down = d, !.links = edges]
                                 /\ l.up = u /\ l.down = d /\ l.links = edges
      <3>1. edges \subseteq Artifacts \X Artifacts
        BY DEF ConnInv, GraphTypeOK
      <3> [NoLocals EXCEPT !.up = u, !.down = d, !.links = edges] \in LocalType
        BY <3>1 DEF NoLocals, LocalType
      <3> QED BY DEF NoLocals
    <2>2. Goto(c, "link", l) /\ u # d /\ {u, d} \subseteq exists /\ NoPath(l.links, d, u)
      BY <1>8, <2>1, CheckedPath DEF StartLink, LinkAllowed, BothExist
    <2>3. Sound(exists, versions, "link", l)
      BY <2>1, <2>2 DEF Sound
    <2> QED BY <1>0, <1>2, <2>2, <2>3
  <1>9. ASSUME Die(c) PROVE GoesOn
    BY <1>0, <1>2, <1>6, <1>9 DEF Die, Return
  <1>10. GoesOn
    BY <1>3, <1>4, <1>5, <1>7, <1>8, <1>9 DEF Reads
  <1>11. UNCHANGED graphVars
    <2>1. CASE \E a \in Artifacts, src \in Sources \cup {NoSource}, select \in BOOLEAN :
                 StartPut(c, a, src, select)
      BY <1>3, <2>1
    <2>2. CASE \E a \in Artifacts, n \in 1..MaxVersions, expected \in 0..MaxVersions :
                 StartSelect(c, a, n, expected)
      BY <2>2 DEF StartSelect
    <2>3. CASE \E u, d \in Artifacts : StartLink(c, u, d)
      BY <2>3 DEF StartLink
    <2>4. CASE ReadNumber(c) \/ ReadSelection(c) \/ Die(c)
      BY <2>4 DEF ReadNumber, ReadSelection, Die
    <2> QED BY <2>1, <2>2, <2>3, <2>4 DEF Reads
  <1> QED BY <1>10, <1>11 DEF GoesOn

\* The INSERT of a number that is not taken yet adds a row at the end.
LEMMA RowIsAppended ==
  ASSUME GraphTypeOK, NEW a \in Artifacts, NEW src \in Sources \cup {NoSource}
  PROVE  WithRow(a, Len(versions[a]) + 1, src) = Append(versions[a], src)
  <1> DEFINE v == versions[a]
  <1>1. /\ v \in Seq(Sources \cup {NoSource}) /\ Len(v) \in Nat /\ DOMAIN v = 1..Len(v)
    BY LenProperties DEF GraphTypeOK
  <1>2. Append(v, src) = [i \in 1..(Len(v) + 1) |-> IF i = Len(v) + 1 THEN src ELSE v[i]]
    <2> DEFINE l == Len(v)
               longer == Append(v, src)
    <2>1. /\ longer \in Seq(Sources \cup {NoSource}) /\ Len(longer) = l + 1
          /\ \A i \in 1..l : longer[i] = v[i]
          /\ longer[l + 1] = src
      BY <1>1, AppendProperties
    <2>2. DOMAIN longer = 1..(l + 1) /\ longer = [i \in DOMAIN longer |-> longer[i]]
      BY <2>1, LenProperties
    <2>3. \A i \in 1..(l + 1) : longer[i] = IF i = l + 1 THEN src ELSE v[i]
      BY <1>1, <2>1
    <2> HIDE DEF l, longer
    <2> QED BY <2>2, <2>3 DEF l, longer
  <1>3. WithRow(a, Len(v) + 1, src)
          = [i \in 1..(Len(v) + 1) |-> IF i = Len(v) + 1 THEN src ELSE v[i]]
    <2> DEFINE l == Len(v)
    <2>1. 1..l \cup {l + 1} = 1..(l + 1)
      BY <1>1
    <2>2. DOMAIN versions[a] \cup {l + 1} = 1..(l + 1)
      BY <1>1, <2>1
    <2> QED BY <2>2, Zenon DEF WithRow
  <1> QED BY <1>1, <1>2, <1>3

\* A row added at the end is typed and moves no other.
LEMMA RowAdded ==
  ASSUME GraphTypeOK, NEW a \in Artifacts, NEW src \in Sources \cup {NoSource},
         Len(versions[a]) < MaxVersions,
         versions' = [versions EXCEPT ![a] = Append(versions[a], src)]
  PROVE  /\ versions' \in [Artifacts -> Seq(Sources \cup {NoSource})]
         /\ Len(versions'[a]) = Len(versions[a]) + 1
         /\ \A b \in Artifacts : /\ Len(versions'[b]) <= MaxVersions
                                 /\ Len(versions[b]) <= Len(versions'[b])
                                 /\ Len(versions[b]) \in Nat /\ Len(versions'[b]) \in Nat
                                 /\ \A n \in DOMAIN versions[b] :
                                      versions'[b][n] = versions[b][n]
  <1>1. /\ versions \in [Artifacts -> Seq(Sources \cup {NoSource})]
        /\ \A b \in Artifacts : Len(versions[b]) \in Nat /\ DOMAIN versions[b] = 1..Len(versions[b])
        /\ \A b \in Artifacts : Len(versions[b]) <= MaxVersions
    BY LenProperties DEF GraphTypeOK
  <1>2. /\ Append(versions[a], src) \in Seq(Sources \cup {NoSource})
        /\ Len(Append(versions[a], src)) = Len(versions[a]) + 1
        /\ \A k \in 1..Len(versions[a]) : Append(versions[a], src)[k] = versions[a][k]
    BY <1>1, AppendProperties
  <1>3. /\ versions' \in [Artifacts -> Seq(Sources \cup {NoSource})]
        /\ versions'[a] = Append(versions[a], src)
        /\ \A b \in Artifacts \ {a} : versions'[b] = versions[b]
    BY <1>1, <1>2
  <1>4. ASSUME NEW b \in Artifacts
        PROVE  /\ Len(versions'[b]) <= MaxVersions
               /\ Len(versions[b]) <= Len(versions'[b])
               /\ Len(versions[b]) \in Nat /\ Len(versions'[b]) \in Nat
               /\ \A n \in DOMAIN versions[b] : versions'[b][n] = versions[b][n]
    <2>1. CASE b = a
      <3> DEFINE m == Len(versions[a])
      <3>1. Len(versions'[b]) = m + 1 /\ m \in Nat /\ m < MaxVersions
        BY <1>1, <1>2, <1>3, <2>1
      <3>2. \A n \in DOMAIN versions[b] : versions'[b][n] = versions[b][n]
        BY <1>1, <1>2, <1>3, <2>1
      <3> HIDE DEF m
      <3>3. m + 1 <= MaxVersions /\ m <= m + 1 /\ m + 1 \in Nat
        BY <3>1, GraphAssumption
      <3> QED BY <2>1, <3>1, <3>2, <3>3 DEF m
    <2>2. CASE b # a
      BY <1>1, <1>3, <2>2
    <2> QED BY <2>1, <2>2
  <1> QED BY <1>2, <1>3, <1>4

\* The transaction of select_version, whatever selection was read before it.
LEMMA SelectionWritten ==
  ASSUME GraphTypeOK, SelectedExists, NEW a \in Artifacts, NEW n \in 1..Len(versions[a]),
         NEW old, SelectOver(a, n, old), UNCHANGED <<exists, edges, versions>>
  PROVE  GraphTypeOK' /\ SelectedExists'
  <1> DEFINE below == IF old = n THEN {} ELSE Descendants(a)
             changed == {d \in Artifacts : selected[a] # n /\ d # a /\ Reaches(a, d)}
  <1>1. below \subseteq Artifacts /\ changed \subseteq Artifacts
    BY DEF Descendants
  <1> HIDE DEF below, changed
  <1>2. /\ selected' = [selected EXCEPT ![a] = n]
        /\ stale' = stale \cup below
        /\ notice' = [d \in Artifacts |->
                        IF d \in below /\ ~NoticePending(d)
                          THEN notice[d] \cup {"waiting"} ELSE notice[d]]
        /\ behind' = behind \cup changed
        /\ unnoticed' = unnoticed \cup changed
    BY Zenon DEF SelectOver, below, changed
  <1>3. n \in 1..MaxVersions
    <2>1. Len(versions[a]) \in Nat /\ Len(versions[a]) <= MaxVersions
      BY LenProperties DEF GraphTypeOK
    <2> QED BY <2>1, GraphAssumption
  <1>4. GraphTypeOK'
    <2>1. selected' \in [Artifacts -> 0..MaxVersions]
      BY <1>2, <1>3, GraphAssumption DEF GraphTypeOK
    <2>2. notice' \in [Artifacts -> SUBSET NoticeStates]
      BY <1>2 DEF GraphTypeOK, NoticeStates
    <2> QED BY <1>1, <1>2, <2>1, <2>2 DEF GraphTypeOK
  <1>5. SelectedExists'
    BY <1>2 DEF GraphTypeOK, SelectedExists
  <1> QED BY <1>4, <1>5

\* What INSERT adds is the next version of an artifact that exists: between the
\* SELECT and the INSERT another connection may have taken the number, never skipped
\* one.
LEMMA InsertAppends ==
  ASSUME ConnInv, NEW c \in Conns, InsertVersion(c)
  PROVE  LET a == local[c].artifact
             src == local[c].src IN
         /\ a \in exists /\ a \in Artifacts /\ src \in Sources \cup {NoSource}
         /\ \/ Return(c) /\ UNCHANGED graphVars
            \/ /\ Return(c) \/ Goto(c, "read", local[c])
               /\ Room(a)
               /\ versions' = [versions EXCEPT ![a] = Append(versions[a], src)]
               /\ UNCHANGED <<exists, edges>> /\ NoSelection
  <1> DEFINE a == local[c].artifact
             src == local[c].src
  <1>1. /\ a \in exists /\ a \in Artifacts /\ src \in Sources \cup {NoSource}
        /\ local[c].n \in 1..(Len(versions[a]) + 1)
    BY DEF ConnInv, GraphTypeOK, InsertVersion, At, Sound, LocalType
  <1>2. CASE Taken(a, local[c].n) /\ Return(c) /\ UNCHANGED versions
    BY <1>1, <1>2 DEF InsertVersion, graphVars
  <1>3. CASE ~Taken(a, local[c].n) /\ Room(a)
             /\ versions' = [versions EXCEPT ![a] = WithRow(a, local[c].n, src)]
             /\ (Return(c) \/ Goto(c, "read", local[c]))
    <2>1. Len(versions[a]) \in Nat /\ DOMAIN versions[a] = 1..Len(versions[a])
      BY <1>1, LenProperties DEF ConnInv, GraphTypeOK
    <2>2. local[c].n = Len(versions[a]) + 1
      BY <1>1, <1>3, <2>1 DEF Taken
    <2>3. WithRow(a, local[c].n, src) = Append(versions[a], src)
      BY <1>1, <2>2, RowIsAppended DEF ConnInv
    <2> QED BY <1>1, <1>3, <2>3 DEF InsertVersion, NoSelection
  <1> QED BY <1>1, <1>2, <1>3 DEF InsertVersion

\* A method that returns leaves nothing behind.
LEMMA IdleIsSound ==
  /\ NoLocals \in LocalType /\ "idle" \in Steps /\ "read" \in Steps
  /\ \A rows, vs : Sound(rows, vs, "idle", NoLocals)
  BY DEF NoLocals, LocalType, Steps, Sound

\* The statements that write keep the invariant: the INSERT of a version,
LEMMA InsertKeeps ==
  ASSUME ConnInv, NEW c \in Conns, InsertVersion(c)
  PROVE  ConnInv'
  <1> DEFINE a == local[c].artifact
             src == local[c].src
             l == local[c]
  <1>1. /\ a \in exists /\ a \in Artifacts /\ src \in Sources \cup {NoSource}
        /\ l \in LocalType /\ l.n \in 1..(Len(versions[a]) + 1)
    BY DEF ConnInv, GraphTypeOK, InsertVersion, At, Sound, LocalType
  <1>2. CASE Return(c) /\ UNCHANGED graphVars
    <2>1. GraphTypeOK' /\ SelectedExists' /\ Grows
      BY <1>2, LenProperties DEF graphVars, ConnInv, GraphTypeOK, SelectedExists, Grows
    <2> QED BY <1>2, <2>1, IdleIsSound, StepKeeps DEF Return
  <1>3. CASE /\ Return(c) \/ Goto(c, "read", l)
             /\ Len(versions[a]) < MaxVersions
             /\ versions' = [versions EXCEPT ![a] = Append(versions[a], src)]
             /\ UNCHANGED <<exists, edges>> /\ NoSelection
    <2>1. /\ versions' \in [Artifacts -> Seq(Sources \cup {NoSource})]
          /\ Len(versions'[a]) = Len(versions[a]) + 1
          /\ \A b \in Artifacts : /\ Len(versions'[b]) <= MaxVersions
                                  /\ Len(versions[b]) <= Len(versions'[b])
                                  /\ Len(versions[b]) \in Nat /\ Len(versions'[b]) \in Nat
      BY <1>1, <1>3, RowAdded DEF ConnInv
    <2>2. GraphTypeOK'
      BY <1>3, <2>1 DEF ConnInv, GraphTypeOK, NoSelection
    <2>3. SelectedExists'
      BY <1>3, <2>1 DEF ConnInv, SelectedExists, NoSelection
    <2>4. Grows
      BY <1>3, <2>1 DEF Grows
    <2>5. Sound(exists', versions', "read", l)
      BY <1>1, <1>3, <2>1 DEF Sound
    <2> HIDE DEF a, src, l
    <2>6. CASE Return(c)
      BY <2>2, <2>3, <2>4, <2>6, IdleIsSound, StepKeeps DEF Return
    <2>7. CASE Goto(c, "read", l)
      BY <1>1, <2>2, <2>3, <2>4, <2>5, <2>7, IdleIsSound, StepKeeps
    <2> QED BY <1>3, <2>6, <2>7
  <1> QED BY <1>2, <1>3, InsertAppends DEF Room

\* the transaction of select_version,
LEMMA WriteSelectionKeeps ==
  ASSUME ConnInv, NEW c \in Conns, WriteSelection(c)
  PROVE  ConnInv'
  <1>1. /\ local[c].artifact \in Artifacts
        /\ local[c].n \in 1..Len(versions[local[c].artifact])
        /\ SelectOver(local[c].artifact, local[c].n, local[c].old)
        /\ UNCHANGED <<exists, edges, versions>> /\ Return(c)
    BY DEF ConnInv, GraphTypeOK, WriteSelection, At, Sound
  <1>2. GraphTypeOK' /\ SelectedExists'
    BY <1>1, SelectionWritten DEF ConnInv
  <1>3. Grows
    BY <1>1, LenProperties DEF ConnInv, GraphTypeOK, Grows
  <1> QED BY <1>1, <1>2, <1>3, IdleIsSound, StepKeeps DEF Return

\* the INSERT of an edge,
LEMMA InsertLinkKeeps ==
  ASSUME ConnInv, NEW c \in Conns, InsertLink(c)
  PROVE  ConnInv'
  <1>1. {local[c].up, local[c].down} \subseteq exists /\ Return(c)
    BY DEF ConnInv, InsertLink, At, Sound
  <1>2. GraphTypeOK' /\ SelectedExists'
    BY <1>1 DEF ConnInv, GraphTypeOK, SelectedExists, InsertLink
  <1>3. Grows
    BY LenProperties DEF ConnInv, GraphTypeOK, Grows, InsertLink
  <1> QED BY <1>1, <1>2, <1>3, IdleIsSound, StepKeeps DEF Return

\* and the methods that are one statement.
LEMMA OneStatementKeeps ==
  ASSUME ConnInv, NEW c \in Conns, OneStatement(c)
  PROVE  ConnInv'
  <1>1. /\ UNCHANGED <<versions, selected, edges, pc, local>>
        /\ exists \subseteq exists' /\ exists' \subseteq Artifacts
    BY DEF ConnInv, GraphTypeOK, OneStatement, create, set_status
  <1>2. GraphTypeOK' /\ SelectedExists'
    <2>1. SelectedExists'
      BY <1>1 DEF ConnInv, SelectedExists
    <2>2. GraphTypeOK'
      BY <1>1 DEF ConnInv, GraphTypeOK, OneStatement, create, set_status
    <2> QED BY <2>1, <2>2
  <1>3. Grows
    BY <1>1, LenProperties DEF ConnInv, GraphTypeOK, Grows
  <1>4. \A x \in Conns : Sound(exists', versions', pc[x], local[x])
    BY <1>2, <1>3, SoundStays DEF ConnInv
  <1> QED BY <1>1, <1>2, <1>4 DEF ConnInv

\* Every step keeps the invariant.
LEMMA ConnInvNext == ConnInv /\ [ConnNext]_connVars => ConnInv'
  <1> SUFFICES ASSUME ConnInv, [ConnNext]_connVars PROVE ConnInv'
    OBVIOUS
  <1>1. ASSUME NEW c \in Conns, Reads(c) PROVE ConnInv'
    <2>1. UNCHANGED graphVars
      BY <1>1, ReadsGoOn
    <2>2. PICK step \in Steps, l \in LocalType : Goto(c, step, l) /\ Sound(exists, versions, step, l)
      BY <1>1, ReadsGoOn
    <2>3. GraphTypeOK' /\ SelectedExists' /\ Grows
      BY <2>1, LenProperties DEF graphVars, ConnInv, GraphTypeOK, SelectedExists, Grows
    <2>4. Sound(exists', versions', step, l)
      BY <2>1, <2>2 DEF graphVars
    <2> QED BY <2>2, <2>3, <2>4, StepKeeps
  <1>2. ASSUME NEW c \in Conns, Writes(c) PROVE ConnInv'
    BY <1>2, InsertKeeps, WriteSelectionKeeps, InsertLinkKeeps, OneStatementKeeps DEF Writes
  <1>3. CASE UNCHANGED connVars
    BY <1>3 DEF connVars, graphVars, ConnInv, GraphTypeOK, SelectedExists
  <1> QED BY <1>1, <1>2, <1>3, ConnStepCases

\* It holds before the first statement.
LEMMA ConnInvInit == ConnInit => ConnInv
  <1> SUFFICES ASSUME ConnInit PROVE ConnInv
    OBVIOUS
  <1>1. GraphTypeOK /\ SelectedExists
    BY GraphInvInit DEF ConnInit, GraphInv
  <1> QED BY <1>1, IdleIsSound DEF ConnInit, ConnInv

\* The invariant of the connections holds of every reachable state.
THEOREM ConnInvHolds == ConnSpec => []ConnInv
  BY ConnInvInit, ConnInvNext, PTL DEF ConnSpec

\* The INSERT of a version is put_version, or adds nothing, unless what the lookup
\* of the source event found has changed.
LEMMA InsertRefines ==
  ASSUME ConnInv, NEW c \in Conns, InsertVersion(c)
  PROVE  UNCHANGED graphVars \/ GraphNext \/ (pc'[c] # pc[c] /\ ActsOnOldReading(c))
  <1> DEFINE a == local[c].artifact
             src == local[c].src
  <1>1. /\ a \in exists /\ a \in Artifacts /\ src \in Sources \cup {NoSource}
        /\ pc[c] = "insert" /\ pc'[c] # "insert" /\ (src # NoSource => local[c].made = {})
    BY InsertAppends DEF ConnInv, InsertVersion, At, Return, Goto, Sound
  <1>2. CASE src # NoSource /\ MadeFor(a, src) # {}
    BY <1>1, <1>2 DEF ActsOnOldReading, At
  <1>3. CASE /\ src = NoSource \/ MadeFor(a, src) = {}
             /\ Room(a)
             /\ versions' = [versions EXCEPT ![a] = Append(versions[a], src)]
             /\ UNCHANGED <<exists, edges>> /\ NoSelection
    <2>1. put_version(a, src, FALSE)
      BY <1>1, <1>3 DEF put_version, WithVersion
    <2> QED BY <1>1, <2>1 DEF GraphNext
  <1> HIDE DEF a, src
  <1> QED BY <1>2, <1>3, InsertAppends DEF a, src

\* So is the transaction of select_version, unless the selection has moved on,
LEMMA WriteSelectionRefines ==
  ASSUME ConnInv, NEW c \in Conns, WriteSelection(c)
  PROVE  GraphNext \/ (pc'[c] # pc[c] /\ ActsOnOldReading(c))
  <1> DEFINE a == local[c].artifact
             n == local[c].n
  <1>1. /\ a \in exists /\ a \in Artifacts /\ n \in 1..Len(versions[a])
        /\ SelectOver(a, n, local[c].old) /\ UNCHANGED <<exists, edges, versions>>
        /\ pc[c] = "write" /\ pc'[c] = "idle"
    BY DEF ConnInv, GraphTypeOK, WriteSelection, At, Sound, Return, Goto
  <1>2. CASE selected[a] # local[c].old
    BY <1>1, <1>2 DEF ActsOnOldReading, At
  <1>3. CASE selected[a] = local[c].old
    <2>1. n \in DOMAIN versions[a] /\ n \in 1..MaxVersions /\ 0 \in 0..MaxVersions
      <3>1. /\ Len(versions[a]) \in Nat /\ Len(versions[a]) <= MaxVersions
            /\ DOMAIN versions[a] = 1..Len(versions[a])
        BY <1>1, LenProperties DEF ConnInv, GraphTypeOK
      <3> QED BY <1>1, <3>1, GraphAssumption
    <2>2. select_version(a, n, 0)
      BY <1>1, <1>3, <2>1 DEF select_version, Select, Numbers
    <2> QED BY <1>1, <2>1, <2>2 DEF GraphNext
  <1> QED BY <1>2, <1>3

\* and the INSERT of an edge, unless there are others than the check has walked.
LEMMA InsertLinkRefines ==
  ASSUME ConnInv, NEW c \in Conns, InsertLink(c)
  PROVE  GraphNext \/ (pc'[c] # pc[c] /\ ActsOnOldReading(c))
  <1> DEFINE u == local[c].up
             d == local[c].down
  <1>1. /\ u # d /\ {u, d} \subseteq exists /\ u \in Artifacts /\ d \in Artifacts
        /\ pc[c] = "link" /\ pc'[c] = "idle" /\ NoPath(local[c].links, d, u)
    BY DEF ConnInv, GraphTypeOK, InsertLink, At, Sound, Return, Goto
  <1>2. CASE edges # local[c].links
    BY <1>1, <1>2 DEF ActsOnOldReading, At
  <1>3. CASE edges = local[c].links
    <2>1. KeepsAcyclic(u, d)
      BY <1>1, <1>3, CheckedPath
    <2>2. add_dependency(u, d)
      BY <1>1, <2>1 DEF add_dependency, BothExist, InsertLink
    <2> QED BY <1>1, <2>2 DEF GraphNext
  <1> QED BY <1>2, <1>3

\* The statements of several connections implement the atomic methods, but for
\* the steps of a connection whose reading no longer holds.
THEOREM ConnectionsImplementGraph == ConnSpec => ImplementsGraph
  <1> DEFINE Races == \E c \in Conns : pc'[c] # pc[c] /\ ActsOnOldReading(c)
  <1>1. ConnInv /\ [ConnNext]_connVars => [GraphNext \/ Races]_graphVars
    <2> SUFFICES ASSUME ConnInv, [ConnNext]_connVars
                 PROVE  UNCHANGED graphVars \/ GraphNext \/ Races
      OBVIOUS
    <2>1. ASSUME NEW c \in Conns, Reads(c) PROVE UNCHANGED graphVars
      BY <2>1, ReadsGoOn
    <2>2. ASSUME NEW c \in Conns, Writes(c)
          PROVE  UNCHANGED graphVars \/ GraphNext \/ Races
      <3>1. OneStatement(c) => GraphNext
        BY DEF OneStatement, GraphNext
      <3> QED BY <2>2, <3>1, InsertRefines, WriteSelectionRefines, InsertLinkRefines DEF Writes
    <2>3. UNCHANGED connVars => UNCHANGED graphVars
      BY DEF connVars
    <2> QED BY <2>1, <2>2, <2>3, ConnStepCases
  <1>2. ConnInit => GraphInit
    BY DEF ConnInit
  <1> QED BY <1>1, <1>2, ConnInvHolds, PTL DEF ConnSpec, ImplementsGraph

\* Whatever the connections interleave, a selected version exists.
THEOREM SelectionsExistForAll == ConnSpec => []SelectedExists
  <1>1. ConnInv => SelectedExists
    BY DEF ConnInv
  <1> QED BY <1>1, ConnInvHolds, PTL

\* Whatever the connections interleave, no step changes or removes a version:
\* of two INSERTs of one number the second is rejected.
THEOREM VersionsImmutableForAll == ConnSpec => VersionsKept
  <1> DEFINE Kept == \A a \in Artifacts :
                       /\ Len(versions'[a]) >= Len(versions[a])
                       /\ \A n \in DOMAIN versions[a] : versions'[a][n] = versions[a][n]
  <1>1. ConnInv /\ [ConnNext]_connVars => [Kept]_graphVars
    <2> SUFFICES ASSUME ConnInv, [ConnNext]_connVars PROVE Kept \/ UNCHANGED graphVars
      OBVIOUS
    <2>1. UNCHANGED versions => Kept
      BY LenProperties DEF ConnInv, GraphTypeOK
    <2>2. ASSUME NEW c \in Conns, InsertVersion(c) PROVE Kept
      <3> DEFINE a == local[c].artifact
                 src == local[c].src
      <3>1. /\ a \in Artifacts /\ src \in Sources \cup {NoSource}
            /\ \/ UNCHANGED versions
               \/ /\ Len(versions[a]) < MaxVersions
                  /\ versions' = [versions EXCEPT ![a] = Append(versions[a], src)]
        BY <2>2, InsertAppends DEF graphVars, Room
      <3> HIDE DEF a, src
      <3>2. CASE /\ Len(versions[a]) < MaxVersions
                 /\ versions' = [versions EXCEPT ![a] = Append(versions[a], src)]
        BY <3>1, <3>2, RowAdded DEF ConnInv
      <3> QED BY <2>1, <3>1, <3>2
    <2>3. ASSUME NEW c \in Conns, Reads(c) PROVE UNCHANGED graphVars
      BY <2>3, ReadsGoOn
    <2>4. ASSUME NEW c \in Conns, Writes(c), ~InsertVersion(c) PROVE UNCHANGED versions
      BY <2>4 DEF Writes, WriteSelection, InsertLink, OneStatement, create, set_status
    <2>5. UNCHANGED connVars => UNCHANGED graphVars
      BY DEF connVars
    <2> HIDE DEF Kept
    <2> QED BY <2>1, <2>2, <2>3, <2>4, <2>5, ConnStepCases
  <1> QED BY <1>1, ConnInvHolds, PTL DEF ConnSpec, VersionsKept
=============================================================================
