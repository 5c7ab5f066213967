-------------------------- MODULE GraphConnections --------------------------
(***************************************************************************)
(* ArtifactGraph when several Store instances share the database file: a   *)
(* worker process opens one of its own (worker.py), so do the supervisor,  *)
(* the board and every "surface store" command.  The RLock excludes the    *)
(* threads of one instance only.  A method of the graph decides on what    *)
(* its SELECTs returned and writes in a transaction of its own; pc says    *)
(* between which two of them a connection is.                              *)
(*                                                                         *)
(* Consecutive SELECTs of rows that never change once they are there       *)
(* (versions) are one step with the SELECT before them, and so is the      *)
(* breadth-first walk of the cycle check.                                  *)
(***************************************************************************)
EXTENDS ArtifactGraph

CONSTANTS Conns,       \* the connections to the database
          NoArtifact   \* an unset artifact argument

VARIABLES pc,      \* pc[c]: the next statement of connection c
          local    \* local[c]: the Python locals of the method c is running

connVars == <<graphVars, pc, local>>

\* artifact, src, select: arguments; n: the version number it works on;
\* expected, old: the selection the caller saw and the one the method read;
\* up, down: the arguments of add_dependency.  made, links: what the lookup of the
\* source event found and the edges that the cycle check walked.
NoLocals == [artifact |-> NoArtifact, src |-> NoSource, select |-> FALSE, n |-> 0,
             expected |-> 0, old |-> 0, up |-> NoArtifact, down |-> NoArtifact,
             made |-> {}, links |-> {}]
Steps == {"idle", "number", "insert", "read", "write", "link"}

ConnInit == /\ GraphInit
            /\ pc = [c \in Conns |-> "idle"]
            /\ local = [c \in Conns |-> NoLocals]

At(c, step) == pc[c] = step
Goto(c, step, locals) == /\ pc' = [pc EXCEPT ![c] = step]
                         /\ local' = [local EXCEPT ![c] = locals]
Return(c) == Goto(c, "idle", NoLocals)
-----------------------------------------------------------------------------
\* A broken variant of LinkAllowed, for the mutation checks: a new edge checked
\* against itself only.
LinkUnlessSelf(u, d) == u # d

(* put_version *)
StartPut(c, a, src, select) ==
  LET args == [NoLocals EXCEPT !.artifact = a, !.src = src, !.select = select,
                               !.made = MadeFor(a, src)] IN
  /\ At(c, "idle")
  /\ a \in exists
  /\ \/ /\ src = NoSource \/ MadeFor(a, src) = {}
        /\ Goto(c, "number", args)
     \/ /\ src # NoSource
        /\ \E n \in MadeFor(a, src) :
             /\ select /\ selected[a] # n
             /\ Goto(c, "read", [args EXCEPT !.n = n])
  /\ UNCHANGED graphVars

\* SELECT MAX(n)
ReadNumber(c) ==
  /\ At(c, "number")
  /\ Room(local[c].artifact)
  /\ Goto(c, "insert", [local[c] EXCEPT !.n = Len(versions[local[c].artifact]) + 1])
  /\ UNCHANGED graphVars

\* The INSERT: UNIQUE(artifact_id, n) rejects a number that is taken by now.
Taken(a, n) == n \in DOMAIN versions[a]
WithRow(a, n, src) ==
  [i \in DOMAIN versions[a] \cup {n} |-> IF i = n THEN src ELSE versions[a][i]]

InsertVersion(c) ==
  LET a == local[c].artifact IN
  /\ At(c, "insert")
  /\ \/ /\ Taken(a, local[c].n)
        /\ Return(c)
        /\ UNCHANGED versions
     \/ /\ ~Taken(a, local[c].n)
        /\ Room(a)
        /\ versions' = [versions EXCEPT ![a] = WithRow(a, local[c].n, local[c].src)]
        /\ IF local[c].select THEN Goto(c, "read", local[c]) ELSE Return(c)
  /\ UNCHANGED <<exists, edges, selected, stale, notice, behind, unnoticed>>

(* select_version *)
StartSelect(c, a, n, expected) ==
  /\ At(c, "idle")
  /\ a \in exists
  /\ n \in Numbers(a)
  /\ Goto(c, "read", [NoLocals EXCEPT !.artifact = a, !.n = n, !.expected = expected])
  /\ UNCHANGED graphVars

\* get_artifact, and the comparison with what the caller saw (0: not given).
AsExpected(c, seen) == local[c].expected \in {0, seen}
ReadSelection(c) ==
  LET seen == selected[local[c].artifact] IN
  /\ At(c, "read")
  /\ IF AsExpected(c, seen)
       THEN Goto(c, "write", [local[c] EXCEPT !.old = seen])
       ELSE Return(c)
  /\ UNCHANGED graphVars

WriteSelection(c) ==
  /\ At(c, "write")
  /\ SelectOver(local[c].artifact, local[c].n, local[c].old)
  /\ Return(c)
  /\ UNCHANGED <<exists, edges, versions>>

(* add_dependency *)
LinkAllowed(u, d) == u # d /\ BothExist(u, d) /\ KeepsAcyclic(u, d)

StartLink(c, u, d) ==
  /\ At(c, "idle")
  /\ LinkAllowed(u, d)
  /\ Goto(c, "link", [NoLocals EXCEPT !.up = u, !.down = d, !.links = edges])
  /\ UNCHANGED graphVars

InsertLink(c) ==
  /\ At(c, "link")
  /\ edges' = edges \cup {<<local[c].up, local[c].down>>}
  /\ Return(c)
  /\ UNCHANGED <<exists, versions, selected, stale, notice, behind, unnoticed>>

\* Methods that are one statement: as in ArtifactGraph.  What becomes of the stale
\* events in the inbox is left to ArtifactGraph.
OneStatement(c) ==
  /\ At(c, "idle")
  /\ \/ \E a \in Artifacts : create(a)
     \/ \E a \in Artifacts, isStale \in BOOLEAN : set_status(a, isStale)
  /\ UNCHANGED <<pc, local>>

\* The process of a connection dies; sqlite3 rolls back what is not committed.
Die(c) ==
  /\ ~At(c, "idle")
  /\ Return(c)
  /\ UNCHANGED graphVars

ConnNext ==
  \/ \E c \in Conns, a \in Artifacts, src \in Sources \cup {NoSource}, select \in BOOLEAN :
       StartPut(c, a, src, select)
  \/ \E c \in Conns : ReadNumber(c)
  \/ \E c \in Conns : InsertVersion(c)
  \/ \E c \in Conns, a \in Artifacts, n \in 1..MaxVersions, expected \in 0..MaxVersions :
       StartSelect(c, a, n, expected)
  \/ \E c \in Conns : ReadSelection(c)
  \/ \E c \in Conns : WriteSelection(c)
  \/ \E c \in Conns, u, d \in Artifacts : StartLink(c, u, d)
  \/ \E c \in Conns : InsertLink(c)
  \/ \E c \in Conns : OneStatement(c)
  \/ \E c \in Conns : Die(c)

ConnSpec == ConnInit /\ [][ConnNext]_connVars
-----------------------------------------------------------------------------
\* Connection c writes on the strength of a reading that has changed since: the
\* versions its lookup of the source event found, the selection it took for the old
\* one, the edges its cycle check walked.
ActsOnOldReading(c) ==
  LET l == local[c] IN
  \/ At(c, "insert") /\ l.src # NoSource /\ MadeFor(l.artifact, l.src) # l.made
  \/ At(c, "write") /\ selected[l.artifact] # l.old
  \/ At(c, "link") /\ edges # l.links

\* The statements of several connections, with crashes between them, do what
\* the atomic methods of ArtifactGraph may do, except in a step that acts on a
\* reading which no longer holds: whatever was read and still holds is enough for
\* the write, and of two connections with the same next number one is turned away.
ImplementsGraph ==
  GraphInit /\ [][GraphNext \/ \E c \in Conns : pc'[c] # pc[c] /\ ActsOnOldReading(c)]_graphVars
=============================================================================
