-------------------------- MODULE GraphUndo_proofs --------------------------
(***************************************************************************)
(* Any graph, members, clients and number of requests, restarts and        *)
(* database failures: who awaits is served, a warm copy mirrors the rows,  *)
(* a deletion leaves no edge hanging, the rows change as the store says    *)
(* they may, every audit entry stands for a write, and the inverse of an   *)
(* undo entry changes the graph once.                                      *)
(***************************************************************************)
EXTENDS GraphUndo, SequenceTheorems, FiniteSetTheorems, TLAPS

Requests == [pc : PCs, op : NodeOps \cup EdgeOps \cup {"read", "pop"}, on : Entities,
             base : Nat, todo : SUBSET Entries, held : SUBSET Nat,
             entry : SUBSET Entries, trim : SUBSET Nat]

\* An operation on nodes is asked of nodes, one on edges of edges.
Fits(op, x) == (op \in NodeOps => x \in Nodes) /\ (op \in EdgeOps => x \in Edges)
FitsAll(S)  == \A e \in S : Fits(e.op, e.on)

\* What a request is about fits what it does; only what can be undone is pushed.
RequestOK(r) == /\ Fits(r.op, r.on) /\ FitsAll(r.todo) /\ FitsAll(r.entry)
                /\ r.pc \in {"reread", "insert"} => r.op \in Undoable

\* TypeOK and RequestOK, less what is about the writer.
Side ==
  /\ who \in [Clients -> Users]
  /\ req \in [Clients -> Requests] /\ \A c \in Clients : RequestOK(req[c])
  /\ undo \in [Users -> SUBSET Entries] /\ \A u \in Users : FitsAll(undo[u])
  /\ audited \in [Entities -> Nat]
  /\ clock \in Nat /\ begun \in 0..MaxRequests /\ restarts \in 0..MaxRestarts /\ applied \in SUBSET Nat

\* A pending future has one command, in the queue or in hand, and no other has
\* any; only a request that waits has a future.
Queued(c) == \E i \in 1..Len(queue) : queue[i].by = c
InHand(c) == hand # NoCommand /\ hand.by = c
Served ==
  /\ \A i, j \in 1..Len(queue) : queue[i].by = queue[j].by => i = j
  /\ \A c \in Clients :
       /\ future[c] = "pending" <=> Queued(c) \/ InHand(c)
       /\ ~(Queued(c) /\ InHand(c))
       /\ future[c] # "none" => req[c].pc \in {"wait", "apply"}

\* What is being created is not there yet, and nobody else is creating it.
Creates    == {"createNode", "createEdge"}
Creator(c) == req[c].pc \in {"check", "wait"} /\ req[c].op \in Creates
Creating(m) == /\ row[m.on] = NoRow
               /\ req[m.by].pc = "wait" /\ req[m.by].op = m.op /\ req[m.by].on = m.on
Creations ==
  /\ \A c, d \in Clients : c # d /\ Creator(c) /\ Creator(d) => req[c].on # req[d].on
  /\ \A c \in Clients : Creator(c) /\ req[c].pc = "check" => row[req[c].on] = NoRow
  /\ \A i \in 1..Len(queue) : queue[i].op \in Creates => Creating(queue[i])
  /\ hand # NoCommand /\ ~done /\ hand.op \in Creates => Creating(hand)

\* The rows a deletion marks in the copy.
Scope == IF hand.op = "deleteNode" THEN {hand.on} \cup Touches(hand.on) ELSE {hand.on}

\* What the copy says of x once the command in hand has been applied to it.
After(x) ==
  IF x \notin Scope THEN memory[x]
  ELSE IF hand.op \notin {"deleteNode", "deleteEdge"} THEN row[x]
  ELSE IF memory[x] # NoRow THEN [memory[x] EXCEPT !.live = FALSE] ELSE NoRow

\* A cold copy is empty and what was loaded meanwhile is what is there; a warm
\* one mirrors the rows, but for the command in hand between its two halves.
Mirror ==
  /\ done => hand # NoCommand
  /\ hand # NoCommand => warm
  /\ ~warm => /\ \A x \in Entities : memory[x] = NoRow
              /\ \A c \in Clients :
                   /\ load[c].step = "nodes" => \A n \in Nodes : load[c].seen[n] = row[n]
                   /\ load[c].step = "edges" => \A x \in Entities : load[c].seen[x] = row[x]
  /\ warm /\ ~late => \A x \in Entities : row[x] = IF done THEN After(x) ELSE memory[x]

\* What was never written has no past.
Past == \A x \in Entities : row[x] = NoRow => history[x] = <<>>

\* The part about the writer, and the whole.
WInv == WriterTypeOK /\ Mirror /\ Past /\ CascadeHolds
IInv == Side /\ Served /\ Creations /\ WInv

USE GraphAssumption, CommandAssumption, UndoAssumption

-----------------------------------------------------------------------------
(* Commands and commits.                                                   *)

\* What a command is made of.
LEMMA CommandShape ==
  ASSUME NEW m \in Command
  PROVE  /\ m.by \in Clients /\ m.on \in Entities /\ m.label \in Labels
         /\ m.op \in NodeOps \cup EdgeOps /\ Fits(m.op, m.on)
         /\ m # NoCommand
BY DEF Command, Fits, Entities, NodeOps, EdgeOps

LEMMA CommandMade ==
  ASSUME NEW c \in Clients, NEW op \in NodeOps \cup EdgeOps, NEW x, NEW l \in Labels, Fits(op, x)
  PROVE  LET m == [op |-> op, on |-> x, label |-> l, by |-> c]
         IN  m \in Command /\ m.op = op /\ m.on = x /\ m.by = c
BY DEF Command, Fits, NodeOps, EdgeOps

\* The ends of an edge are nodes, and an edge is no node.
LEMMA EndsAreNodes ==
  ASSUME NEW e \in Edges, NEW i \in 1..2
  PROVE  Ends[e][i] \in Nodes /\ Ends[e][i] \notin Edges /\ e \notin Nodes
<1>1. Ends[e] \in Nodes \X Nodes
  OBVIOUS
<1>2. Ends[e][1] \in Nodes /\ Ends[e][2] \in Nodes
  BY <1>1
<1>3. i = 1 \/ i = 2
  OBVIOUS
<1> QED
  BY <1>2, <1>3

\* A commit gives the entities of S their new values and no other any.
LEMMA CommitFacts ==
  ASSUME WriterTypeOK, Past, NEW S \in SUBSET Entities, NEW new,
         \A x \in S : new[x] \in Value, Commit(S, new)
  PROVE  /\ WriterTypeOK' /\ Past'
         /\ \A x \in Entities : row'[x] = IF x \in S THEN new[x] ELSE row[x]
<1>1. row' = Changed(S, new) /\ \A x \in Entities : row'[x] = IF x \in S THEN new[x] ELSE row[x]
  BY DEF Commit, Changed
<1>2. row' \in [Entities -> Value \cup {NoRow}]
  BY <1>1 DEF Changed, WriterTypeOK
<1>3. ASSUME NEW x \in Entities
      PROVE  history'[x] \in Seq(Value) /\ (row'[x] = NoRow => history'[x] = <<>>)
  <2>1. history[x] \in Seq(Value) /\ row[x] \in Value \cup {NoRow}
    BY DEF WriterTypeOK
  <2>2. CASE x \in Recorded(S)
    <3>1. x \in S /\ row[x] \in Value /\ history'[x] = Append(history[x], row[x])
      BY <2>1, <2>2 DEF Recorded, Commit
    <3>2. row'[x] \in Value
      BY <1>1, <3>1
    <3> QED
      BY <2>1, <3>1, <3>2, AppendProperties
  <2>3. CASE x \notin Recorded(S)
    <3>1. history'[x] = history[x]
      BY <2>3 DEF Commit
    <3>2. x \in S => row'[x] \in Value
      BY <1>1
    <3> QED
      BY <1>1, <2>1, <3>1, <3>2 DEF Past
  <2> QED
    BY <2>2, <2>3
<1>4. history' = [x \in Entities |-> history'[x]]
  BY DEF Commit
<1>5. history' \in [Entities -> Seq(Value)]
  BY <1>3, <1>4
<1>6. stamp' \in [Entities -> Nat]
  BY DEF Commit, WriterTypeOK
<1>7. restored' \in SUBSET Entities
  BY DEF Commit, WriterTypeOK
<1>8. WriterTypeOK'
  BY <1>2, <1>5, <1>6, <1>7 DEF Commit, WriterTypeOK, memoryVars
<1>9. Past'
  BY <1>3 DEF Past
<1> QED
  BY <1>1, <1>8, <1>9
-----------------------------------------------------------------------------
(* The handlers.                                                           *)

\* A handler that fails leaves rows and copy alone.
LEMMA FailStep ==
  ASSUME WInv, hand # NoCommand, ~done, NEW why \in Outcome, Fail(why)
  PROVE  WInv'
<1>1. hand \in Command
  BY DEF WInv, WriterTypeOK
<1>2. WriterTypeOK'
  BY <1>1, CommandShape DEF WInv, WriterTypeOK, Fail, Resolve, rowVars, memoryVars
<1>3. Mirror'
  BY DEF WInv, Mirror, Fail, rowVars, memoryVars
<1>4. Past' /\ CascadeHolds'
  BY DEF WInv, Past, CascadeHolds, Live, Fail, rowVars
<1> QED
  BY <1>2, <1>3, <1>4 DEF WInv

\* A commit of exactly what the copy will be told next.
LEMMA CommitStep ==
  ASSUME WInv, hand # NoCommand, ~done, NEW S \in SUBSET Entities, NEW new,
         \A x \in S : new[x] \in Value, Commit(S, new),
         warm /\ ~late => \A x \in Entities : row'[x] = After(x)',
         CascadeHolds'
  PROVE  WInv'
<1>1. WriterTypeOK' /\ Past'
  BY CommitFacts DEF WInv
<1>2. Mirror'
  BY DEF WInv, Mirror, Commit, memoryVars
<1> QED
  BY <1>1, <1>2 DEF WInv

\* One entity gets a value, by anything but a deletion.
LEMMA SetStep ==
  ASSUME WInv, hand # NoCommand, ~done, NEW v \in Value, Commit({hand.on}, On(v)),
         hand.op \notin {"deleteNode", "deleteEdge"}, CascadeHolds'
  PROVE  WInv'
<1>1. hand \in Command /\ hand.on \in Entities
  BY CommandShape DEF WInv, WriterTypeOK
<1>2. \A x \in {hand.on} : On(v)[x] \in Value
  BY DEF On
<1>3. \A x \in Entities : row'[x] = IF x = hand.on THEN v ELSE row[x]
  BY <1>1, <1>2, CommitFacts DEF WInv, On
<1>4. hand' = hand /\ memory' = memory /\ Scope' = {hand.on}
  BY DEF Commit, memoryVars, Scope
<1>5. warm /\ ~late => \A x \in Entities : row'[x] = After(x)'
  BY <1>3, <1>4 DEF After, WInv, Mirror
<1> QED
  BY <1>1, <1>2, <1>5, CommitStep

\* No edge that is alive loses an end: what is written is alive, or an undo.
LEMMA CascadeSurvives ==
  ASSUME WInv, hand # NoCommand, NEW v \in Value, Commit({hand.on}, On(v)),
         \/ v.live /\ hand.on \in Nodes
         \/ v.live /\ hand.on \in Edges /\ \A i \in 1..2 : Live(Ends[hand.on][i])
         \/ hand.op \in {"undoNode", "undoEdge"}
  PROVE  CascadeHolds'
<1>1. hand \in Command /\ hand.on \in Entities
  BY CommandShape DEF WInv, WriterTypeOK
<1>2. \A x \in Entities : row'[x] = IF x = hand.on THEN v ELSE row[x]
  BY <1>1, CommitFacts DEF WInv, On
<1>3. restored' = IF hand.op \in {"undoNode", "undoEdge"} THEN restored \cup {hand.on}
                                                       ELSE restored \ {hand.on}
  BY DEF Commit
<1>4. v # NoRow
  OBVIOUS
<1>5. ASSUME NEW e \in Edges, NEW i \in 1..2, Live(e)'
      PROVE  Live(Ends[e][i])' \/ {e, Ends[e][i]} \cap restored' # {}
  <2> DEFINE n == Ends[e][i]
  <2>1. n \in Nodes /\ n \notin Edges /\ e \notin Nodes /\ e \in Entities /\ n \in Entities
    BY EndsAreNodes DEF Entities
  <2> HIDE DEF n
  <2>2. Live(e) => Live(n) \/ e \in restored \/ n \in restored
    BY DEF WInv, CascadeHolds, n
  <2>3. CASE hand.op \in {"undoNode", "undoEdge"}
    <3>1. CASE hand.on \in {e, n}
      BY <1>3, <2>3, <3>1 DEF n
    <3>2. CASE hand.on \notin {e, n}
      BY <1>2, <1>3, <1>5, <2>1, <2>2, <2>3, <3>2 DEF Live, n
    <3> QED
      BY <3>1, <3>2
  <2>4. CASE v.live /\ hand.on \in Nodes /\ hand.op \notin {"undoNode", "undoEdge"}
    <3>1. Live(e) /\ (e \in restored => e \in restored')
      BY <1>2, <1>3, <1>5, <2>1, <2>4 DEF Live
    <3>2. Live(n) => Live(n)'
      BY <1>2, <1>4, <2>1, <2>4 DEF Live
    <3>3. n = hand.on => Live(n)'
      BY <1>2, <1>4, <2>1, <2>4 DEF Live
    <3>4. n # hand.on /\ n \in restored => n \in restored'
      BY <1>3, <2>4
    <3> QED
      BY <2>2, <3>1, <3>2, <3>3, <3>4 DEF n
  <2>5. CASE /\ v.live /\ hand.on \in Edges /\ \A j \in 1..2 : Live(Ends[hand.on][j])
             /\ hand.op \notin {"undoNode", "undoEdge"}
    <3>1. n # hand.on /\ (Live(n) => Live(n)') /\ (n \in restored => n \in restored')
      BY <1>2, <1>3, <2>1, <2>5 DEF Live
    <3>2. CASE e = hand.on
      BY <2>5, <3>1, <3>2 DEF n
    <3>3. CASE e # hand.on
      BY <1>2, <1>3, <1>5, <2>1, <2>2, <2>5, <3>1, <3>3 DEF Live, n
    <3> QED
      BY <3>2, <3>3
  <2> QED
    BY <2>3, <2>4, <2>5
<1> QED
  BY <1>5 DEF CascadeHolds

\* The handlers that give one entity a value.
LEMMA SetHandlers ==
  ASSUME WInv, \/ HandleCreateNode \/ HandleUpdateNode \/ HandleCreateEdge
               \/ HandleUndoNode \/ HandleUndoEdge
  PROVE  WInv'
<1> DEFINE v == [label |-> hand.label, live |-> TRUE]
<1>1. hand # NoCommand /\ ~done /\ hand \in Command
  BY DEF WInv, WriterTypeOK, HandleCreateNode, HandleUpdateNode, HandleCreateEdge,
         HandleUndoNode, HandleUndoEdge, Handling
<1>2. hand.on \in Entities /\ v \in Value /\ v.live /\ Fits(hand.op, hand.on)
  BY <1>1, CommandShape DEF Value
<1> HIDE DEF v
<1>3. \A why \in Outcome : Fail(why) => WInv'
  BY <1>1, FailStep
<1>4. CASE HandleCreateNode \/ HandleUpdateNode
  <2>1. hand.op \in {"createNode", "updateNode"} /\ hand.on \in Nodes
    BY <1>2, <1>4 DEF HandleCreateNode, HandleUpdateNode, Handling, Fits, NodeOps
  <2>2. Commit({hand.on}, On(v)) \/ Fail("notFound")
    BY <1>4 DEF HandleCreateNode, HandleUpdateNode, v
  <2> QED
    BY <1>1, <1>2, <1>3, <2>1, <2>2, SetStep, CascadeSurvives DEF Outcome
<1>5. CASE HandleCreateEdge
  <2>1. hand.op = "createEdge" /\ hand.on \in Edges
    BY <1>2, <1>5 DEF HandleCreateEdge, Handling, Fits, EdgeOps
  <2>2. \/ Commit({hand.on}, On(v)) /\ \A i \in 1..2 : Live(Ends[hand.on][i])
        \/ Fail("notFound") \/ Fail("duplicate")
    BY <1>5 DEF HandleCreateEdge, v
  <2> QED
    BY <1>1, <1>2, <1>3, <2>1, <2>2, SetStep, CascadeSurvives DEF Outcome
<1>6. CASE HandleUndoNode \/ HandleUndoEdge
  <2>1. hand.op \in {"undoNode", "undoEdge"} /\ PutBack
    BY <1>6 DEF HandleUndoNode, HandleUndoEdge, Handling
  <2>2. \/ Commit({hand.on}, On(Prior(hand.on))) /\ history[hand.on] # <<>>
        \/ Fail("notFound") \/ Fail("noHistory") \/ Fail("error")
    BY <2>1 DEF PutBack
  <2>3. history[hand.on] # <<>> => Prior(hand.on) \in Value
    <3>1. history[hand.on] \in Seq(Value)
      BY <1>2 DEF WInv, WriterTypeOK
    <3> QED
      BY <3>1, LenProperties, EmptySeq DEF Prior
  <2> QED
    BY <1>1, <1>2, <1>3, <2>1, <2>2, <2>3, SetStep, CascadeSurvives DEF Outcome
<1> QED
  BY <1>4, <1>5, <1>6

LEMMA MarkedDead ==
  ASSUME NEW v \in Value
  PROVE  [v EXCEPT !.live = FALSE] \in Value /\ [v EXCEPT !.live = FALSE].live = FALSE
BY DEF Value

\* A deletion marks S dead, and the copy's Scope holds S and only dead rows besides.
LEMMA DeleteStep ==
  ASSUME WInv, hand # NoCommand, ~done, hand.op \in {"deleteNode", "deleteEdge"},
         NEW S \in SUBSET Entities, S \subseteq Scope, \A x \in S : Live(x),
         \A x \in Scope \ S : ~Live(x),
         Commit(S, [x \in S |-> [row[x] EXCEPT !.live = FALSE]]),
         CascadeHolds'
  PROVE  WInv'
<1> DEFINE new == [x \in S |-> [row[x] EXCEPT !.live = FALSE]]
<1>1. \A x \in Entities : row[x] \in Value \cup {NoRow}
  BY DEF WInv, WriterTypeOK
<1>2. \A x \in S : new[x] \in Value
  BY <1>1 DEF Live, Value
<1>3. \A x \in Entities : row'[x] = IF x \in S THEN new[x] ELSE row[x]
  BY <1>2, CommitFacts DEF WInv
<1>4. hand' = hand /\ memory' = memory
  BY DEF Commit, memoryVars
<1>5. Scope' = Scope
  BY <1>4 DEF Scope
<1>6. ASSUME warm, ~late, NEW x \in Entities
      PROVE  row'[x] = After(x)'
  <2>1. row[x] = memory[x]
    BY <1>6 DEF WInv, Mirror
  <2>2. CASE x \in S
    BY <1>3, <1>4, <1>5, <2>1, <2>2 DEF After, Live
  <2>3. CASE x \in Scope \ S
    <3>1. row'[x] = row[x] /\ ~Live(x)
      BY <1>3, <2>3
    <3>2. row[x] # NoRow => row[x] = [row[x] EXCEPT !.live = FALSE]
      BY <1>1, <3>1 DEF Live, Value
    <3> QED
      BY <1>4, <1>5, <2>1, <2>3, <3>1, <3>2 DEF After
  <2>4. CASE x \notin Scope
    BY <1>3, <1>4, <1>5, <2>1, <2>4 DEF After
  <2> QED
    BY <2>2, <2>3, <2>4
<1> QED
  BY <1>2, <1>6, CommitStep

\* A node takes its live edges along.
LEMMA DeleteNodeStep ==
  ASSUME WInv, HandleSoftDeleteNode
  PROVE  WInv'
<1>1. hand # NoCommand /\ ~done /\ hand \in Command /\ hand.op = "deleteNode"
  BY DEF WInv, WriterTypeOK, HandleSoftDeleteNode, Handling
<1>2. hand.on \in Nodes
  BY <1>1, CommandShape DEF Fits, NodeOps
<1>3. CASE ~Live(hand.on)
  BY <1>1, <1>3, FailStep DEF HandleSoftDeleteNode, Outcome
<1>4. CASE Live(hand.on)
  <2> DEFINE gone == {hand.on} \cup Incident(hand.on)
             new  == [x \in gone |-> [row[x] EXCEPT !.live = FALSE]]
  <2>1. Commit(gone, new)
    BY <1>4 DEF HandleSoftDeleteNode
  <2>2. gone \in SUBSET Entities
    BY <1>2 DEF Incident, Touches, Entities
  <2>3. gone \subseteq Scope /\ \A x \in gone : Live(x)
    BY <1>1, <1>4 DEF Scope, Incident
  <2>4. \A x \in Scope \ gone : ~Live(x)
    BY <1>1 DEF Scope, Incident
  <2>5. \A x \in gone : new[x] \in Value /\ ~new[x].live
    <3>1. \A x \in gone : row[x] \in Value
      BY <2>2, <2>3 DEF WInv, WriterTypeOK, Live
    <3> QED
      BY <3>1, MarkedDead
  <2> HIDE DEF new
  <2>6. \A x \in Entities : row'[x] = IF x \in gone THEN new[x] ELSE row[x]
    <3>1. WriterTypeOK /\ Past /\ \A x \in gone : new[x] \in Value
      BY <2>5 DEF WInv
    <3> HIDE DEF gone
    <3> QED
      BY <2>1, <2>2, <3>1, CommitFacts
  <2>7. restored' = restored \ gone
    BY <1>1, <2>1 DEF Commit
  <2>8. ASSUME NEW e \in Edges, NEW i \in 1..2, Live(e)'
        PROVE  Live(Ends[e][i])' \/ {e, Ends[e][i]} \cap restored' # {}
    <3> DEFINE n == Ends[e][i]
    <3>1. n \in Nodes /\ n \notin Edges /\ e \in Entities /\ n \in Entities
      BY EndsAreNodes DEF Entities
    <3>2. e \notin gone /\ Live(e)
      BY <2>5, <2>6, <2>8, <3>1 DEF Live
    <3>3. n # hand.on
      BY <3>2 DEF Incident, Touches
    <3>4. n \notin gone
      BY <3>1, <3>3 DEF Incident, Touches
    <3> HIDE DEF n, gone
    <3>5. Live(n) => Live(n)'
      BY <2>6, <3>1, <3>4 DEF Live
    <3>6. Live(n) \/ e \in restored \/ n \in restored
      BY <3>2 DEF WInv, CascadeHolds, n
    <3> QED
      BY <2>7, <3>2, <3>4, <3>5, <3>6 DEF n
  <2>9. CascadeHolds'
    BY <2>8 DEF CascadeHolds
  <2> QED
    BY <1>1, <2>1, <2>2, <2>3, <2>4, <2>9, DeleteStep DEF new
<1> QED
  BY <1>3, <1>4

LEMMA DeleteEdgeStep ==
  ASSUME WInv, HandleSoftDeleteEdge
  PROVE  WInv'
<1>1. hand # NoCommand /\ ~done /\ hand \in Command /\ hand.op = "deleteEdge"
  BY DEF WInv, WriterTypeOK, HandleSoftDeleteEdge, Handling
<1>2. hand.on \in Edges /\ hand.on \in Entities
  BY <1>1, CommandShape DEF Fits, EdgeOps
<1>3. CASE ~Live(hand.on)
  BY <1>1, <1>3, FailStep DEF HandleSoftDeleteEdge, Outcome
<1>4. CASE Live(hand.on)
  <2> DEFINE S   == {hand.on}
             new == [x \in S |-> [row[x] EXCEPT !.live = FALSE]]
  <2>1. On([row[hand.on] EXCEPT !.live = FALSE]) = new
    BY DEF On
  <2>2. Commit(S, new)
    BY <1>4, <2>1 DEF HandleSoftDeleteEdge
  <2>3. /\ S \in SUBSET Entities /\ S \subseteq Scope
        /\ (\A x \in S : Live(x)) /\ (\A x \in Scope \ S : ~Live(x))
    BY <1>1, <1>2, <1>4 DEF Scope
  <2>4. \A x \in S : new[x] \in Value /\ ~new[x].live
    <3>1. \A x \in S : row[x] \in Value
      BY <1>2, <1>4 DEF WInv, WriterTypeOK, Live
    <3> QED
      BY <3>1, MarkedDead
  <2>5. hand.on \in S /\ \A x \in S : x = hand.on
    OBVIOUS
  <2> HIDE DEF new, S
  <2>6. \A x \in Entities : row'[x] = IF x \in S THEN new[x] ELSE row[x]
    BY <2>2, <2>3, <2>4, CommitFacts DEF WInv
  <2>7. restored' = restored \ S
    BY <1>1, <2>2 DEF Commit
  <2>8. ASSUME NEW e \in Edges, NEW i \in 1..2, Live(e)'
        PROVE  Live(Ends[e][i])' \/ {e, Ends[e][i]} \cap restored' # {}
    <3> DEFINE n == Ends[e][i]
    <3>1. n \in Nodes /\ n \notin Edges /\ e \in Entities /\ n \in Entities
      BY EndsAreNodes DEF Entities
    <3>2. e # hand.on /\ n # hand.on
      BY <1>2, <2>4, <2>6, <2>8, <2>5, <3>1 DEF Live
    <3>3. Live(e) /\ (Live(n) => Live(n)')
      BY <2>6, <2>8, <2>5, <3>1, <3>2 DEF Live
    <3> HIDE DEF n
    <3>4. Live(n) \/ e \in restored \/ n \in restored
      BY <3>3 DEF WInv, CascadeHolds, n
    <3> QED
      BY <2>7, <2>5, <3>2, <3>3, <3>4 DEF n
  <2>9. CascadeHolds'
    BY <2>8 DEF CascadeHolds
  <2> QED
    BY <1>1, <2>2, <2>3, <2>9, DeleteStep DEF new
<1> QED
  BY <1>3, <1>4
-----------------------------------------------------------------------------
(* The consumer around the handlers, the readers, the queue, the end.      *)

LEMMA TakeStep ==
  ASSUME WInv, Take
  PROVE  WInv'
<1>1. queue \in Seq(Command) /\ hand' \in Command /\ queue' \in Seq(Command)
  BY HeadTailProperties DEF Take, WInv, WriterTypeOK
<1>2. hand' # NoCommand /\ ~done /\ done' = FALSE /\ warm' = TRUE
  BY <1>1, CommandShape DEF Take, WInv, Mirror
<1>3. memory' = Warmed /\ memory' \in [Entities -> Value \cup {NoRow}]
  BY DEF Take, Warmed, WInv, WriterTypeOK
<1>4. WriterTypeOK'
  BY <1>1, <1>3 DEF Take, WInv, WriterTypeOK, rowVars
<1>5. ~late => \A x \in Entities : memory'[x] = row[x]
  BY <1>2, <1>3 DEF Warmed, WInv, Mirror
<1>6. Mirror'
  BY <1>2, <1>5 DEF Take, Mirror, rowVars
<1>7. Past' /\ CascadeHolds'
  BY DEF Take, WInv, Past, CascadeHolds, Live, rowVars
<1> QED
  BY <1>4, <1>6, <1>7 DEF WInv

\* What the consumer does to the copy is what After says.
LEMMA ApplyStep ==
  ASSUME WInv, Apply
  PROVE  WInv'
<1>1. hand \in Command /\ hand # NoCommand /\ done /\ warm
  BY DEF Apply, WInv, WriterTypeOK, Mirror
<1>2. hand.by \in Clients /\ hand.on \in Entities
  BY <1>1, CommandShape
<1>3. memory \in [Entities -> Value \cup {NoRow}] /\ row \in [Entities -> Value \cup {NoRow}]
  BY DEF WInv, WriterTypeOK
<1>4. \A S \in SUBSET Entities : /\ Dead(S) \in [Entities -> Value \cup {NoRow}]
                                 /\ \A x \in Entities : Dead(S)[x] =
                                      IF x \in S /\ memory[x] # NoRow
                                        THEN [memory[x] EXCEPT !.live = FALSE] ELSE memory[x]
  <2>1. \A x \in Entities : memory[x] # NoRow => [memory[x] EXCEPT !.live = FALSE] \in Value
    BY <1>3, MarkedDead
  <2> QED
    BY <1>3, <2>1 DEF Dead
<1>5. {hand.on} \in SUBSET Entities /\ ({hand.on} \cup Touches(hand.on)) \in SUBSET Entities
  BY <1>2 DEF Touches, Entities
<1>6. memory' \in [Entities -> Value \cup {NoRow}] /\ \A x \in Entities : memory'[x] = After(x)
  <2>1. CASE hand.op = "deleteNode"
    <3>1. memory' = Dead({hand.on} \cup Touches(hand.on))
      BY <2>1 DEF Apply
    <3> QED
      BY <1>4, <1>5, <2>1, <3>1 DEF After, Scope
  <2>2. CASE hand.op = "deleteEdge"
    <3>1. memory' = Dead({hand.on})
      BY <2>2 DEF Apply
    <3> QED
      BY <1>4, <1>5, <2>2, <3>1 DEF After, Scope
  <2>3. CASE hand.op \notin {"deleteNode", "deleteEdge"}
    <3>1. memory' = [memory EXCEPT ![hand.on] = row[hand.on]]
      BY <2>3 DEF Apply
    <3> QED
      BY <1>2, <1>3, <2>3, <3>1 DEF After, Scope
  <2> QED
    BY <2>1, <2>2, <2>3
<1>7. WriterTypeOK'
  BY <1>2, <1>6 DEF Apply, Resolve, WInv, WriterTypeOK, rowVars, Outcome
<1>8. Mirror'
  BY <1>1, <1>6 DEF Apply, WInv, Mirror, rowVars
<1>9. Past' /\ CascadeHolds'
  BY DEF Apply, WInv, Past, CascadeHolds, Live, rowVars
<1> QED
  BY <1>7, <1>8, <1>9 DEF WInv

\* What a reader has seen: the entities of S as they are, the others as before.
LEMMA SeenFacts ==
  ASSUME WriterTypeOK, NEW c \in Clients, NEW S
  PROVE  /\ Seen(c, S) \in [Entities -> Value \cup {NoRow}]
         /\ \A x \in Entities : Seen(c, S)[x] = IF x \in S THEN row[x] ELSE load[c].seen[x]
BY DEF WriterTypeOK, Seen

LEMMA LoadStep ==
  ASSUME WInv, NEW c \in Clients, StartLoad(c) \/ LoadEdges(c) \/ Install(c)
  PROVE  WInv' /\ UNCHANGED <<row, queue, hand, done, future>>
<1>1. WriterTypeOK /\ load[c].seen \in [Entities -> Value \cup {NoRow}]
  BY DEF WInv, WriterTypeOK
<1>2. UNCHANGED <<row, history, stamp, restored, queue, hand, done, future>>
  BY DEF StartLoad, LoadEdges, Install, rowVars
<1>3. Past' /\ CascadeHolds'
  BY <1>2 DEF WInv, Past, CascadeHolds, Live
<1>4. CASE StartLoad(c)
  <2>1. load' = [load EXCEPT ![c] = [step |-> "nodes", seen |-> Seen(c, Nodes)]]
        /\ UNCHANGED <<memory, warm, late>>
    BY <1>4 DEF StartLoad
  <2>2. WriterTypeOK'
    BY <1>1, <1>2, <2>1, SeenFacts DEF WriterTypeOK
  <2>3. /\ load'[c].step = "nodes" /\ load'[c].seen = Seen(c, Nodes)
        /\ \A d \in Clients \ {c} : load'[d] = load[d]
    BY <1>1, <2>1 DEF WriterTypeOK
  <2>4. \A n \in Nodes : load'[c].seen[n] = row[n]
    BY <1>1, <2>3, SeenFacts DEF Entities
  <2>5. Mirror'
    BY <1>2, <2>1, <2>4, <2>3 DEF WInv, Mirror, After, Scope
  <2> QED
    BY <1>2, <1>3, <2>2, <2>5 DEF WInv
<1>5. CASE LoadEdges(c)
  <2>1. load' = [load EXCEPT ![c] = [step |-> "edges", seen |-> Seen(c, Edges)]]
        /\ UNCHANGED <<memory, warm, late>> /\ load[c].step = "nodes"
    BY <1>5 DEF LoadEdges
  <2>2. WriterTypeOK'
    BY <1>1, <1>2, <2>1, SeenFacts DEF WriterTypeOK
  <2>3. /\ load'[c].step = "edges" /\ load'[c].seen = Seen(c, Edges)
        /\ \A d \in Clients \ {c} : load'[d] = load[d]
    BY <1>1, <2>1 DEF WriterTypeOK
  <2>4. ~warm => \A x \in Entities : load'[c].seen[x] = row[x]
    BY <1>1, <2>1, <2>3, SeenFacts DEF WInv, Mirror, Entities
  <2>5. Mirror'
    BY <1>2, <2>1, <2>4, <2>3 DEF WInv, Mirror, After, Scope
  <2> QED
    BY <1>2, <1>3, <2>2, <2>5 DEF WInv
<1>6. CASE Install(c)
  <2>1. /\ load[c].step = "edges" /\ warm' = TRUE
        /\ late' = (late \/ \E x \in Entities : load[c].seen[x] \notin {NoRow, row[x]})
        /\ load' = [load EXCEPT ![c] = NoLoad]
    BY <1>6 DEF Install
  <2>2. /\ memory' \in [Entities -> Value \cup {NoRow}]
        /\ \A x \in Entities : memory'[x] = IF load[c].seen[x] # NoRow THEN load[c].seen[x]
                                                                     ELSE memory[x]
    BY <1>1, <1>6 DEF Install, WriterTypeOK
  <2>3. NoLoad \in [step : {"none", "nodes", "edges"}, seen : [Entities -> Value \cup {NoRow}]]
    BY DEF NoLoad
  <2>4. WriterTypeOK'
    BY <1>1, <1>2, <2>1, <2>2, <2>3 DEF WriterTypeOK
  <2>5. ASSUME ~late', NEW x \in Entities
        PROVE  row[x] = IF done THEN After(x)' ELSE memory'[x]
    <3>1. ~late /\ load[c].seen[x] \in {NoRow, row[x]}
      BY <2>1, <2>5
    <3>2. CASE ~warm
      BY <2>1, <2>2, <3>2 DEF WInv, Mirror
    <3>3. CASE warm /\ ~done
      BY <2>2, <3>1, <3>3 DEF WInv, Mirror
    <3>4. CASE warm /\ done
      <4>1. row[x] = After(x) /\ Scope' = Scope /\ hand' = hand /\ row' = row
        BY <1>2, <3>1, <3>4 DEF WInv, Mirror, Scope
      <4>2. memory'[x] = memory[x] \/ (memory'[x] = row[x] /\ row[x] # NoRow)
        BY <2>2, <3>1
      <4>3. row[x] \in Value \cup {NoRow} /\ memory[x] \in Value \cup {NoRow}
        BY <1>1 DEF WriterTypeOK
      <4>4. CASE memory'[x] = memory[x]
        BY <3>4, <4>1, <4>4 DEF After
      <4>5. CASE memory'[x] = row[x] /\ row[x] # NoRow
        <5>1. CASE x \in Scope /\ hand.op \in {"deleteNode", "deleteEdge"}
          <6>1. row[x] = [memory[x] EXCEPT !.live = FALSE] /\ memory[x] \in Value
            BY <4>1, <4>3, <4>5, <5>1 DEF After
          <6>2. row[x] = [row[x] EXCEPT !.live = FALSE]
            BY <6>1 DEF Value
          <6> QED
            BY <3>4, <4>1, <4>5, <5>1, <6>2 DEF After
        <5>2. CASE ~(x \in Scope /\ hand.op \in {"deleteNode", "deleteEdge"})
          BY <3>4, <4>1, <4>5, <5>2 DEF After
        <5> QED
          BY <5>1, <5>2
      <4> QED
        BY <4>2, <4>4, <4>5
    <3> QED
      BY <3>2, <3>3, <3>4
  <2>6. Mirror'
    BY <1>2, <2>1, <2>5 DEF WInv, Mirror
  <2> QED
    BY <1>2, <1>3, <2>4, <2>6 DEF WInv
<1> QED
  BY <1>4, <1>5, <1>6

LEMMA EnqueueStep ==
  ASSUME WInv, NEW c \in Clients, NEW op \in NodeOps \cup EdgeOps, NEW x, NEW l \in Labels,
         Fits(op, x), Enqueue(c, op, x, l)
  PROVE  WInv'
<1>1. queue' \in Seq(Command)
  BY CommandMade, AppendProperties DEF Enqueue, WInv, WriterTypeOK
<1>2. WriterTypeOK'
  BY <1>1 DEF Enqueue, Resolve, WInv, WriterTypeOK, rowVars, memoryVars, Outcome
<1>3. Mirror'
  BY DEF Enqueue, WInv, Mirror, After, Scope, rowVars, memoryVars
<1>4. Past' /\ CascadeHolds'
  BY DEF Enqueue, WInv, Past, CascadeHolds, Live, rowVars
<1> QED
  BY <1>2, <1>3, <1>4 DEF WInv

LEMMA StopStep ==
  ASSUME WInv, Stop
  PROVE  WInv'
<1>1. WriterTypeOK'
  BY EmptySeq DEF Stop, Forget, NoLoad, WInv, WriterTypeOK, rowVars, Outcome
<1>2. Mirror'
  BY DEF Stop, Forget, NoLoad, WInv, Mirror, rowVars
<1>3. Past' /\ CascadeHolds'
  BY DEF Stop, WInv, Past, CascadeHolds, Live, rowVars
<1> QED
  BY <1>1, <1>2, <1>3 DEF WInv

\* What the client awaited is read: the future is gone.
LEMMA AwaitStep ==
  ASSUME WInv, NEW c \in Clients, Await(c),
         UNCHANGED <<rowVars, memoryVars, queue, hand, done>>
  PROVE  WInv'
<1>1. WriterTypeOK'
  BY DEF Await, WInv, WriterTypeOK, rowVars, memoryVars, Outcome
<1>2. Mirror'
  BY DEF WInv, Mirror, After, Scope, rowVars, memoryVars
<1>3. Past' /\ CascadeHolds'
  BY DEF WInv, Past, CascadeHolds, Live, rowVars
<1> QED
  BY <1>1, <1>2, <1>3 DEF WInv

LEMMA WriterSame ==
  ASSUME WInv, UNCHANGED writerVars
  PROVE  WInv'
<1>1. UNCHANGED <<row, history, stamp, restored, memory, warm, load, late, queue, hand, done, future>>
  BY DEF writerVars, rowVars, memoryVars
<1>2. WriterTypeOK' /\ Mirror'
  BY <1>1 DEF WInv, WriterTypeOK, Mirror, After, Scope
<1>3. Past' /\ CascadeHolds'
  BY <1>1 DEF WInv, Past, CascadeHolds, Live
<1> QED
  BY <1>2, <1>3 DEF WInv
-----------------------------------------------------------------------------
(* Commands and requests.                                                  *)

RInv == WriterTypeOK /\ req \in [Clients -> Requests] /\ Served /\ Creations

\* The requests are where they were and about what they were.
SameRequests ==
  \A c \in Clients : /\ req'[c].pc = req[c].pc /\ req'[c].op = req[c].op /\ req'[c].on = req[c].on
                     /\ req'[c].todo = req[c].todo /\ req'[c].entry = req[c].entry

\* A command in the queue is one, and its client is one.
LEMMA QueuedShape ==
  ASSUME WriterTypeOK
  PROVE  /\ Len(queue) \in Nat
         /\ \A i \in 1..Len(queue) : queue[i] \in Command /\ queue[i].by \in Clients
                                    /\ queue[i].on \in Entities
         /\ hand # NoCommand => hand \in Command /\ hand.by \in Clients /\ hand.on \in Entities
<1>1. queue \in Seq(Command) /\ hand \in Command \cup {NoCommand}
  BY DEF WriterTypeOK
<1>2. Len(queue) \in Nat /\ \A i \in 1..Len(queue) : queue[i] \in Command
  BY <1>1, LenProperties, ElementOfSeq
<1> QED
  BY <1>1, <1>2, CommandShape

\* A request without a command moves on, to create something new at most.
LEMMA MoveStep ==
  ASSUME RInv, NEW c \in Clients, NEW r \in Requests, req' = [req EXCEPT ![c] = r],
         future[c] = "none", UNCHANGED <<row, queue, hand, done, future>>,
         r.pc \in {"check", "wait"} /\ r.op \in Creates
           => /\ row[r.on] = NoRow
              /\ \A d \in Clients \ {c} : Creator(d) => req[d].on # r.on
  PROVE  Served' /\ Creations'
<1>1. req'[c] = r /\ \A d \in Clients \ {c} : req'[d] = req[d]
  BY DEF RInv
<1>2. \A d \in Clients : (Queued(d)' <=> Queued(d)) /\ (InHand(d)' <=> InHand(d))
  BY DEF Queued, InHand
<1>3. Served'
  BY <1>1, <1>2 DEF RInv, Served
<1>4. ~Queued(c) /\ ~InHand(c)
  BY DEF RInv, Served
<1>5. \A i \in 1..Len(queue) : queue[i].by \in Clients \ {c}
  BY <1>4, QueuedShape DEF RInv, Queued
<1>6. hand # NoCommand => hand.by \in Clients \ {c}
  BY <1>4, QueuedShape DEF RInv, InHand
<1>7. \A d \in Clients \ {c} : Creator(d)' <=> Creator(d)
  BY <1>1 DEF Creator
<1>8. Creator(c)' => /\ row[req'[c].on] = NoRow
                     /\ \A d \in Clients \ {c} : Creator(d) => req[d].on # req'[c].on
  BY <1>1 DEF Creator
<1>9. Creations'
  <2>1. \A d, e \in Clients : d # e /\ Creator(d)' /\ Creator(e)' => req'[d].on # req'[e].on
    BY <1>1, <1>7, <1>8 DEF RInv, Creations
  <2>2. \A d \in Clients : Creator(d)' /\ req'[d].pc = "check" => row'[req'[d].on] = NoRow
    BY <1>1, <1>7, <1>8 DEF RInv, Creations
  <2>3. \A i \in 1..Len(queue) : queue[i].op \in Creates => Creating(queue[i])'
    BY <1>1, <1>5 DEF RInv, Creations, Creating
  <2>4. hand # NoCommand /\ ~done /\ hand.op \in Creates => Creating(hand)'
    BY <1>1, <1>6 DEF RInv, Creations, Creating
  <2> QED
    BY <2>1, <2>2, <2>3, <2>4 DEF Creations
<1> QED
  BY <1>3, <1>9

\* A request without a command submits one.
LEMMA SubmitStep ==
  ASSUME RInv, NEW c \in Clients, NEW r \in Requests, req' = [req EXCEPT ![c] = r],
         NEW op \in NodeOps \cup EdgeOps, NEW x, NEW l \in Labels,
         Fits(op, x), Enqueue(c, op, x, l), future[c] = "none", r.pc \in {"wait", "apply"},
         op \in Creates => /\ r.pc = "wait" /\ r.op = op /\ r.on = x /\ row[x] = NoRow
                           /\ \A d \in Clients \ {c} : Creator(d) => req[d].on # x,
         r.pc = "wait" => r.op = op
  PROVE  Served' /\ Creations'
<1> DEFINE m == [op |-> op, on |-> x, label |-> l, by |-> c]
           n == Len(queue)
<1>1. req'[c] = r /\ \A d \in Clients \ {c} : req'[d] = req[d]
  BY DEF RInv
<1>2. m \in Command /\ m.op = op /\ m.on = x /\ m.by = c /\ n \in Nat /\ queue \in Seq(Command)
  BY CommandMade, QueuedShape DEF RInv, WriterTypeOK
<1>3. queue' = Append(queue, m)
  BY DEF Enqueue
<1> HIDE DEF m, n
<1>4. Len(queue') = n + 1 /\ (\A i \in 1..n : queue'[i] = queue[i]) /\ queue'[n + 1] = m
  BY <1>2, <1>3, AppendProperties DEF n
<1>5. UNCHANGED <<row, hand, done>> /\ future' = [future EXCEPT ![c] = "pending"]
  BY DEF Enqueue, Resolve, rowVars
<1>6. ~Queued(c) /\ ~InHand(c)
  BY DEF RInv, Served
<1>7. \A i \in 1..n : queue[i].by \in Clients \ {c}
  BY <1>6, QueuedShape DEF RInv, Queued, n
<1>8. hand # NoCommand => hand.by \in Clients \ {c}
  BY <1>6, QueuedShape DEF RInv, InHand
<1>9. \A i \in 1..(n + 1) : i = n + 1 \/ i \in 1..n
  BY <1>2
<1>10. Served'
  <2>1. \A i, j \in 1..Len(queue') : queue'[i].by = queue'[j].by => i = j
    BY <1>2, <1>4, <1>7, <1>9 DEF RInv, Served, n
  <2>2. Queued(c)' /\ \A d \in Clients \ {c} : Queued(d)' <=> Queued(d)
    <3>1. n + 1 \in 1..(n + 1) /\ 1..n \subseteq 1..(n + 1)
      BY <1>2
    <3> QED
      BY <1>2, <1>4, <1>9, <3>1 DEF Queued, n
  <2>3. \A d \in Clients : InHand(d)' <=> InHand(d)
    BY <1>5 DEF InHand
  <2>4. future'[c] = "pending" /\ \A d \in Clients \ {c} : future'[d] = future[d]
    BY <1>5 DEF RInv, WriterTypeOK
  <2> QED
    BY <1>1, <1>6, <2>1, <2>2, <2>3, <2>4 DEF RInv, Served
<1>11. \A d \in Clients \ {c} : Creator(d)' <=> Creator(d)
  BY <1>1 DEF Creator
<1>12. Creator(c)' => /\ req'[c].pc = "wait" /\ req'[c].on = x
                      /\ \A d \in Clients \ {c} : Creator(d) => req[d].on # x
  BY <1>1 DEF Creator
<1>13. Creations'
  <2>1. \A d, e \in Clients : d # e /\ Creator(d)' /\ Creator(e)' => req'[d].on # req'[e].on
    BY <1>1, <1>11, <1>12 DEF RInv, Creations
  <2>2. \A d \in Clients : Creator(d)' /\ req'[d].pc = "check" => row'[req'[d].on] = NoRow
    BY <1>1, <1>5, <1>11, <1>12 DEF RInv, Creations
  <2>3. (\A i \in 1..Len(queue) : queue[i].op \in Creates => Creating(queue[i]))'
    <3>1. ASSUME NEW i \in 1..n, NEW k, k = queue[i], k.op \in Creates
          PROVE  Creating(k)'
      BY <1>1, <1>5, <1>7, <3>1 DEF RInv, Creations, Creating, n
    <3>2. \A k : k = m /\ m.op \in Creates => Creating(k)'
      BY <1>1, <1>2, <1>5 DEF Creating
    <3> QED
      BY <1>4, <1>9, <3>1, <3>2 DEF Creating
  <2>4. hand # NoCommand /\ ~done /\ hand.op \in Creates => Creating(hand)'
    BY <1>1, <1>5, <1>8 DEF RInv, Creations, Creating
  <2> QED
    BY <1>5, <2>1, <2>2, <2>3, <2>4 DEF Creations
<1> QED
  BY <1>10, <1>13

\* A request that has its answer reads it and goes on.
LEMMA AnsweredStep ==
  ASSUME RInv, NEW c \in Clients, NEW r \in Requests, req' = [req EXCEPT ![c] = r],
         future[c] # "pending", Await(c), UNCHANGED <<row, queue, hand, done>>,
         r.pc \notin {"check", "wait"}
  PROVE  Served' /\ Creations'
<1>1. req'[c] = r /\ \A d \in Clients \ {c} : req'[d] = req[d]
  BY DEF RInv
<1>2. future'[c] = "none" /\ \A d \in Clients \ {c} : future'[d] = future[d]
  BY DEF RInv, WriterTypeOK, Await
<1>3. \A d \in Clients : (Queued(d)' <=> Queued(d)) /\ (InHand(d)' <=> InHand(d))
  BY DEF Queued, InHand
<1>4. Served'
  BY <1>1, <1>2, <1>3 DEF RInv, Served
<1>5. ~Queued(c) /\ ~InHand(c)
  BY DEF RInv, Served
<1>6. \A i \in 1..Len(queue) : queue[i].by \in Clients \ {c}
  BY <1>5, QueuedShape DEF RInv, Queued
<1>7. hand # NoCommand => hand.by \in Clients \ {c}
  BY <1>5, QueuedShape DEF RInv, InHand
<1>8. ~Creator(c)' /\ \A d \in Clients \ {c} : Creator(d)' <=> Creator(d)
  BY <1>1 DEF Creator
<1>9. Creations'
  <2>1. \A d, e \in Clients : d # e /\ Creator(d)' /\ Creator(e)' => req'[d].on # req'[e].on
    BY <1>1, <1>8 DEF RInv, Creations
  <2>2. \A d \in Clients : Creator(d)' /\ req'[d].pc = "check" => row'[req'[d].on] = NoRow
    BY <1>1, <1>8 DEF RInv, Creations
  <2>3. \A i \in 1..Len(queue) : queue[i].op \in Creates => Creating(queue[i])'
    BY <1>1, <1>6 DEF RInv, Creations, Creating
  <2>4. hand # NoCommand /\ ~done /\ hand.op \in Creates => Creating(hand)'
    BY <1>1, <1>7 DEF RInv, Creations, Creating
  <2> QED
    BY <2>1, <2>2, <2>3, <2>4 DEF Creations
<1> QED
  BY <1>4, <1>9

\* The consumer answers, as a command fails or has been applied.
LEMMA ResolveStep ==
  ASSUME RInv, SameRequests, hand # NoCommand, NEW how, how \notin {"none", "pending"},
         Resolve(hand.by, how), hand' = NoCommand, UNCHANGED <<row, queue>>
  PROVE  Served' /\ Creations'
<1> DEFINE c == hand.by
<1>1. c \in Clients
  BY QueuedShape DEF RInv
<1>2. future'[c] = how /\ \A d \in Clients \ {c} : future'[d] = future[d]
  BY <1>1 DEF RInv, WriterTypeOK, Resolve
<1>3. \A d \in Clients : /\ Queued(d)' <=> Queued(d)
                         /\ ~InHand(d)' /\ (InHand(d) <=> d = c)
  BY DEF Queued, InHand
<1>4. future[c] = "pending" /\ ~Queued(c) /\ req[c].pc \in {"wait", "apply"}
  BY <1>1, <1>3 DEF RInv, Served
<1> HIDE DEF c
<1>5. Served'
  BY <1>1, <1>2, <1>3, <1>4 DEF RInv, Served, SameRequests
<1>6. \A d \in Clients : Creator(d)' <=> Creator(d)
  BY DEF Creator, SameRequests
<1>7. \A m : m.by \in Clients => (Creating(m)' <=> Creating(m))
  BY DEF Creating, SameRequests
<1>8. Creations'
  BY <1>6, <1>7, QueuedShape DEF RInv, Creations, SameRequests
<1> QED
  BY <1>5, <1>8

\* The consumer commits: only what is being created comes to be.
LEMMA CommittedStep ==
  ASSUME RInv, SameRequests, hand # NoCommand, ~done, done' = TRUE,
         UNCHANGED <<queue, hand, future>>,
         \A x \in Entities : row[x] = NoRow /\ row'[x] # NoRow => x = hand.on /\ hand.op \in Creates
  PROVE  Served' /\ Creations'
<1>1. \A d \in Clients : (Queued(d)' <=> Queued(d)) /\ (InHand(d)' <=> InHand(d))
  BY DEF Queued, InHand
<1>2. Served'
  BY <1>1 DEF RInv, Served, SameRequests
<1>3. \A d \in Clients : Creator(d)' <=> Creator(d)
  BY DEF Creator, SameRequests
<1>4. hand.by \in Clients /\ hand.on \in Entities
      /\ \A d \in Clients : req[d] \in Requests /\ req[d].on \in Entities
  BY QueuedShape DEF RInv, Requests
<1>5. ASSUME NEW d \in Clients, d # hand.by, Creator(d), row[req[d].on] = NoRow
      PROVE  row'[req[d].on] = NoRow
  <2>1. hand.op \in Creates => /\ Creator(hand.by) /\ req[hand.by].on = hand.on
    BY DEF RInv, Creations, Creating, Creator
  <2> QED
    BY <1>4, <1>5, <2>1 DEF RInv, Creations
<1>6. req[hand.by].pc # "check"
  BY <1>4 DEF RInv, Served, InHand
<1>7. \A i \in 1..Len(queue) : queue[i].by \in Clients /\ queue[i].by # hand.by
  BY <1>4, QueuedShape DEF RInv, Served, Queued, InHand
<1>8. Creations'
  <2>1. \A d, e \in Clients : d # e /\ Creator(d)' /\ Creator(e)' => req'[d].on # req'[e].on
    BY <1>3 DEF RInv, Creations, SameRequests
  <2>2. \A d \in Clients : Creator(d)' /\ req'[d].pc = "check" => row'[req'[d].on] = NoRow
    BY <1>3, <1>5, <1>6 DEF RInv, Creations, SameRequests
  <2>3. ASSUME NEW i \in 1..Len(queue), queue[i].op \in Creates
        PROVE  Creating(queue[i])'
    <3>1. Creating(queue[i]) /\ Creator(queue[i].by)
      BY <2>3 DEF RInv, Creations, Creating, Creator
    <3> QED
      BY <1>5, <1>7, <3>1 DEF Creating, SameRequests
  <2> QED
    BY <2>1, <2>2, <2>3 DEF Creations
<1> QED
  BY <1>2, <1>8

\* The consumer takes the first command of the queue.
LEMMA TakenStep ==
  ASSUME RInv, SameRequests, Take
  PROVE  Served' /\ Creations'
<1> DEFINE n == Len(queue)
<1>1. /\ hand = NoCommand /\ queue \in Seq(Command) /\ queue # <<>>
      /\ hand' = Head(queue) /\ queue' = Tail(queue) /\ UNCHANGED <<row, future>>
  BY DEF Take, rowVars, RInv, WriterTypeOK
<1>2. n \in Nat /\ n # 0
  BY <1>1, LenProperties, EmptySeq
<1>3. Head(queue) = queue[1] /\ Len(queue') = n - 1 /\ \A i \in 1..(n - 1) : queue'[i] = queue[i + 1]
  BY <1>1, HeadTailProperties
<1>4. \A i \in 1..n : queue[i] # NoCommand /\ queue[i].by \in Clients
  BY QueuedShape, CommandShape DEF RInv
<1> HIDE DEF n
<1>5. /\ 1 \in 1..n /\ \A i \in 1..(n - 1) : i + 1 \in 1..n /\ i + 1 # 1
      /\ \A i \in 1..n : i # 1 => i - 1 \in 1..(n - 1) /\ (i - 1) + 1 = i
  BY <1>2
<1>6. \A i, j \in 1..n : queue[i].by = queue[j].by => i = j
  BY DEF RInv, Served, n
<1>7. \A d \in Clients : /\ InHand(d)' <=> d = queue[1].by
                         /\ Queued(d)' <=> \E i \in 1..(n - 1) : queue[i + 1].by = d
                         /\ Queued(d) <=> \E i \in 1..n : queue[i].by = d
  BY <1>1, <1>3, <1>4, <1>5 DEF InHand, Queued, n
<1>8. ASSUME NEW d \in Clients
      PROVE  (Queued(d) <=> Queued(d)' \/ InHand(d)') /\ ~(Queued(d)' /\ InHand(d)')
  <2>1. (\E i \in 1..n : queue[i].by = d)
          <=> (\E i \in 1..(n - 1) : queue[i + 1].by = d) \/ d = queue[1].by
    BY <1>5
  <2>2. ~((\E i \in 1..(n - 1) : queue[i + 1].by = d) /\ d = queue[1].by)
    BY <1>5, <1>6
  <2> QED
    BY <1>7, <2>1, <2>2
<1>9. \A d \in Clients : ~InHand(d)
  BY <1>1 DEF InHand
<1>10. \A i, j \in 1..Len(queue') : queue'[i].by = queue'[j].by => i = j
  <2>1. \A i, j \in 1..(n - 1) : i + 1 = j + 1 => i = j
    BY <1>2
  <2> QED
    BY <1>3, <1>5, <1>6, <2>1
<1>11. Served'
  BY <1>1, <1>8, <1>9, <1>10 DEF RInv, Served, SameRequests
<1>12. \A d \in Clients : Creator(d)' <=> Creator(d)
  BY DEF Creator, SameRequests
<1>13. ASSUME NEW i \in 1..n, NEW k, k = queue[i], k.op \in Creates
       PROVE  Creating(k)'
  BY <1>1, <1>4, <1>13 DEF RInv, Creations, Creating, SameRequests, n
<1>14. Creations'
  <2>1. \A d, e \in Clients : d # e /\ Creator(d)' /\ Creator(e)' => req'[d].on # req'[e].on
    BY <1>12 DEF RInv, Creations, SameRequests
  <2>2. \A d \in Clients : Creator(d)' /\ req'[d].pc = "check" => row'[req'[d].on] = NoRow
    BY <1>1, <1>12 DEF RInv, Creations, SameRequests
  <2>3. (\A i \in 1..Len(queue) : queue[i].op \in Creates => Creating(queue[i]))'
    BY <1>3, <1>5, <1>13 DEF Creating
  <2>4. (hand # NoCommand /\ ~done /\ hand.op \in Creates => Creating(hand))'
    BY <1>1, <1>3, <1>5, <1>13 DEF Creating
  <2> QED
    BY <2>1, <2>2, <2>3, <2>4 DEF Creations
<1> QED
  BY <1>11, <1>14
-----------------------------------------------------------------------------
(* Requests, entries and stacks.                                           *)

LEMMA IdleShape == Idle \in Requests /\ RequestOK(Idle)
<1>1. (CHOOSE n \in Nodes : TRUE) \in Nodes
  OBVIOUS
<1> QED
  BY <1>1 DEF Idle, Requests, RequestOK, Fits, FitsAll, PCs, Entities, NodeOps, EdgeOps, Undoable

\* A request takes a step of its own.
LEMMA GoSide ==
  ASSUME Side, NEW c \in Clients, NEW r \in Requests, RequestOK(r), Go(c, r), UNCHANGED who,
         begun' \in 0..MaxRequests, UNCHANGED <<restarts, applied>>, clock' \in Nat,
         audited' \in [Entities -> Nat],
         undo' \in [Users -> SUBSET Entries], \A u \in Users : FitsAll(undo'[u])
  PROVE  Side' /\ req' = [req EXCEPT ![c] = r]
<1>1. req' = [req EXCEPT ![c] = r]
  BY DEF Go
<1>2. req' \in [Clients -> Requests] /\ \A d \in Clients : RequestOK(req'[d])
  BY <1>1 DEF Side
<1> QED
  BY <1>1, <1>2 DEF Side

LEMMA RequestShape ==
  ASSUME Side, NEW c \in Clients
  PROVE  /\ req[c] \in Requests /\ RequestOK(req[c]) /\ who[c] \in Users
         /\ req[c].on \in Entities /\ req[c].base \in Nat /\ req[c].todo \in SUBSET Entries
         /\ req[c].entry \in SUBSET Entries /\ undo[who[c]] \in SUBSET Entries /\ FitsAll(undo[who[c]])
BY DEF Side, Requests

LEMMA EntryShape ==
  ASSUME NEW e \in Entries
  PROVE  /\ e.id \in Nat /\ e.op \in Undoable /\ e.on \in Entities
         /\ \A b \in BOOLEAN : /\ [e EXCEPT !.undone = e.undone \/ b] \in Entries
                              /\ [e EXCEPT !.undone = e.undone \/ b].op = e.op
                              /\ [e EXCEPT !.undone = e.undone \/ b].on = e.on
BY DEF Entries

\* The inverse of an operation on an entity is one on it too.
LEMMA InverseFits ==
  ASSUME NEW op \in Undoable, NEW x, Fits(op, x)
  PROVE  /\ InverseOp[op] \in NodeOps \cup EdgeOps /\ InverseOp[op] \notin Creates
         /\ Fits(InverseOp[op], x)
BY DEF Undoable, InverseOp, NodeOps, EdgeOps, Creates, Fits

LEMMA Moved ==
  ASSUME IInv, NEW c \in Clients, NEW r \in Requests, RequestOK(r), Go(c, r), UNCHANGED who,
         begun' \in 0..MaxRequests, UNCHANGED <<restarts, applied>>, clock' \in Nat,
         audited' \in [Entities -> Nat],
         undo' \in [Users -> SUBSET Entries], \A u \in Users : FitsAll(undo'[u]),
         req[c].pc \notin {"wait", "apply"}, UNCHANGED writerVars,
         r.pc \in {"check", "wait"} /\ r.op \in Creates
           => /\ row[r.on] = NoRow
              /\ \A d \in Clients \ {c} : Creator(d) => req[d].on # r.on
  PROVE  IInv'
<1>1. Side' /\ req' = [req EXCEPT ![c] = r]
  BY GoSide DEF IInv
<1>2. RInv /\ future[c] = "none"
  BY DEF IInv, RInv, Side, WInv, Served
<1>3. WInv'
  BY WriterSame DEF IInv
<1>4. UNCHANGED <<row, queue, hand, done, future>>
  BY DEF writerVars, rowVars
<1> QED
  BY <1>1, <1>2, <1>3, <1>4, MoveStep DEF IInv

-----------------------------------------------------------------------------
(* The steps of requests.                                                  *)

LEMMA SubmitAction ==
  ASSUME IInv, NEW c \in Clients, NEW op \in (NodeOps \cup EdgeOps) \ {"createEdge"},
         NEW x \in Entities, Fits(op, x), NEW l \in Labels, Submit(c, op, x, l)
  PROVE  IInv'
<1> DEFINE r == [Idle EXCEPT !.pc = "wait", !.op = op, !.on = x]
<1>1. /\ r \in Requests /\ r.pc = "wait" /\ r.op = op /\ r.on = x /\ RequestOK(r)
  BY IdleShape DEF Requests, RequestOK, PCs
<1>2. Go(c, r) /\ req[c].pc = "idle" /\ Enqueue(c, op, x, l) /\ UNCHANGED <<who, restarts>>
      /\ UNCHANGED <<undo, audited, clock, applied>> /\ begun < MaxRequests /\ begun' = begun + 1
  BY DEF Submit, Begin, stackVars
<1> HIDE DEF r
<1>3. begun' \in 0..MaxRequests
  BY <1>2 DEF IInv, Side
<1>4. Side' /\ req' = [req EXCEPT ![c] = r]
  BY <1>1, <1>2, <1>3, GoSide DEF IInv, Side
<1>5. WInv'
  BY <1>2, EnqueueStep DEF IInv
<1>6. RInv /\ future[c] = "none"
  BY <1>2 DEF IInv, RInv, Side, WInv, Served
<1>7. op \in Creates => /\ row[x] = NoRow
                        /\ \A d \in Clients \ {c} : Creator(d) => req[d].on # x
  BY DEF Submit, Fresh, Creates, Creator
<1>8. Served' /\ Creations'
  BY <1>1, <1>2, <1>4, <1>6, <1>7, SubmitStep
<1> QED
  BY <1>4, <1>5, <1>8 DEF IInv

LEMMA AskAction ==
  ASSUME IInv, NEW c \in Clients, NEW op, NEW x \in Entities,
         op = "read" \/ (op = "createEdge" /\ x \in Edges), AskGraph(c, op, x)
  PROVE  IInv'
<1> DEFINE r == [Idle EXCEPT !.pc = "check", !.op = op, !.on = x]
<1>1. r \in Requests /\ r.pc = "check" /\ r.op = op /\ r.on = x /\ RequestOK(r)
  BY IdleShape DEF Requests, RequestOK, PCs, Fits, NodeOps, EdgeOps
<1>2. Go(c, r) /\ req[c].pc = "idle" /\ UNCHANGED <<who, restarts>> /\ UNCHANGED writerVars
      /\ UNCHANGED <<undo, audited, clock, applied>> /\ begun < MaxRequests /\ begun' = begun + 1
  BY DEF AskGraph, Begin, stackVars
<1> HIDE DEF r
<1>3. begun' \in 0..MaxRequests
  BY <1>2 DEF IInv, Side
<1>4. op \in Creates => row[x] = NoRow /\ \A d \in Clients \ {c} : Creator(d) => req[d].on # x
  BY DEF AskGraph, Fresh, Creates, Creator
<1> QED
  BY <1>1, <1>2, <1>3, <1>4, Moved DEF IInv, Side

LEMMA LoadAction ==
  ASSUME IInv, NEW c \in Clients, Load(c)
  PROVE  IInv'
<1>1. WInv' /\ UNCHANGED <<row, queue, hand, done, future>>
  BY LoadStep DEF Load, IInv
<1>2. UNCHANGED <<who, req, undo, audited, clock, begun, restarts, applied>>
  BY DEF Load, requestVars
<1>3. Side'
  BY <1>2 DEF IInv, Side
<1>4. Served' /\ Creations'
  BY <1>1, <1>2 DEF IInv, Served, Queued, InHand, Creations, Creator, Creating
<1> QED
  BY <1>1, <1>3, <1>4 DEF IInv

LEMMA ReadGraphAction ==
  ASSUME IInv, NEW c \in Clients, ReadGraph(c)
  PROVE  IInv'
<1>1. req[c].pc = "check" /\ UNCHANGED <<who, begun, restarts, undo, audited, clock, applied>>
  BY DEF ReadGraph, bounds, stackVars
<1>2. CASE req[c].op = "createEdge" /\ EndsInCopy(req[c].on)
  <2> DEFINE r == [req[c] EXCEPT !.pc = "wait"]
  <2>1. Go(c, r) /\ Enqueue(c, "createEdge", req[c].on, AnyLabel)
    BY <1>2 DEF ReadGraph
  <2>2. r \in Requests /\ RequestOK(r) /\ r.pc = "wait" /\ r.op = "createEdge" /\ r.on = req[c].on
    BY <1>2, RequestShape DEF IInv, Requests, RequestOK, PCs
  <2>3. AnyLabel \in Labels /\ Fits("createEdge", req[c].on) /\ "createEdge" \in NodeOps \cup EdgeOps
    BY <1>2, RequestShape DEF IInv, RequestOK, AnyLabel, EdgeOps
  <2> HIDE DEF r
  <2>4. Side' /\ req' = [req EXCEPT ![c] = r]
    BY <1>1, <2>1, <2>2, GoSide DEF IInv, Side
  <2>5. WInv'
    BY <2>1, <2>3, EnqueueStep DEF IInv
  <2>6. RInv /\ future[c] = "none"
    BY <1>1 DEF IInv, RInv, Side, WInv, Served
  <2>7. row[req[c].on] = NoRow /\ \A d \in Clients \ {c} : Creator(d) => req[d].on # req[c].on
    BY <1>1, <1>2 DEF IInv, Creations, Creator, Creates
  <2>8. Served' /\ Creations'
    BY <2>1, <2>2, <2>3, <2>4, <2>6, <2>7, SubmitStep
  <2> QED
    BY <2>4, <2>5, <2>8 DEF IInv
<1>3. CASE ~(req[c].op = "createEdge" /\ EndsInCopy(req[c].on))
  <2>1. Go(c, Idle) /\ UNCHANGED writerVars
    BY <1>3 DEF ReadGraph, End, Go
  <2>2. Idle.pc = "idle"
    BY DEF Idle
  <2> QED
    BY <1>1, <2>1, <2>2, IdleShape, Moved DEF IInv, Side
<1> QED
  BY <1>2, <1>3

LEMMA ReplyAction ==
  ASSUME IInv, NEW c \in Clients, Reply(c)
  PROVE  IInv'
<1> DEFINE s == [req[c] EXCEPT !.pc = IF req[c].op \in {"deleteNode", "deleteEdge"}
                                        THEN "reread" ELSE "insert"]
<1>1. /\ req[c].pc = "wait" /\ future[c] # "pending" /\ Await(c)
      /\ UNCHANGED <<rowVars, memoryVars, queue, hand, done>>
      /\ UNCHANGED <<who, begun, restarts, undo, audited, clock, applied>>
  BY DEF Reply, Answered, bounds, stackVars
<1>2. \/ req[c].op \in Undoable /\ Go(c, s)
      \/ Go(c, Idle)
  BY DEF Reply, Go, End
<1>3. req[c].op \in Undoable => s \in Requests /\ RequestOK(s) /\ s.pc \in {"reread", "insert"}
  BY RequestShape DEF IInv, Requests, RequestOK, PCs
<1>4. Idle \in Requests /\ RequestOK(Idle) /\ Idle.pc = "idle"
  BY IdleShape DEF Idle
<1> HIDE DEF s
<1>5. PICK r \in Requests : RequestOK(r) /\ Go(c, r) /\ r.pc \notin {"check", "wait"}
  BY <1>2, <1>3, <1>4
<1>6. Side' /\ req' = [req EXCEPT ![c] = r]
  BY <1>1, <1>5, GoSide DEF IInv, Side
<1>7. WInv'
  BY <1>1, AwaitStep DEF IInv
<1>8. RInv /\ UNCHANGED row
  BY <1>1 DEF IInv, RInv, Side, WInv, rowVars
<1>9. Served' /\ Creations'
  BY <1>1, <1>5, <1>6, <1>8, AnsweredStep
<1> QED
  BY <1>6, <1>7, <1>9 DEF IInv

\* A request that is not asking, waiting or applying goes on to one that is not
\* asking or waiting: nothing about commands changes.
LEMMA MovedOn ==
  ASSUME IInv, NEW c \in Clients, NEW r \in Requests, RequestOK(r), Go(c, r), UNCHANGED bounds,
         UNCHANGED applied, clock' \in Nat, audited' \in [Entities -> Nat],
         undo' \in [Users -> SUBSET Entries], \A u \in Users : FitsAll(undo'[u]),
         req[c].pc \notin {"wait", "apply"}, UNCHANGED writerVars,
         r.pc \notin {"check", "wait"}
  PROVE  IInv'
BY Moved DEF IInv, Side, bounds

LEMMA ReReadAction ==
  ASSUME IInv, NEW c \in Clients, ReRead(c)
  PROVE  IInv'
<1> DEFINE r == [req[c] EXCEPT !.pc = "insert", !.base = stamp[req[c].on]]
<1>1. req[c].pc = "reread" /\ Go(c, r) /\ UNCHANGED <<writerVars, bounds>>
      /\ UNCHANGED <<undo, audited, clock, applied>>
  BY DEF ReRead, stackVars
<1>2. stamp[req[c].on] \in Nat
  BY RequestShape DEF IInv, WInv, WriterTypeOK
<1>3. r \in Requests /\ RequestOK(r) /\ r.pc = "insert"
  BY <1>1, <1>2, RequestShape DEF IInv, Requests, RequestOK, PCs
<1> HIDE DEF r
<1> QED
  BY <1>1, <1>3, MovedOn DEF IInv, Side

LEMMA InsertAction ==
  ASSUME IInv, NEW c \in Clients, Insert(c)
  PROVE  IInv'
<1> DEFINE e == Entry(clock + 1, req[c].op, req[c].on, req[c].base)
           trim == {f.id : f \in Overflow(Active(who[c]) \cup {e})}
           r == [req[c] EXCEPT !.pc = "push", !.entry = {e}, !.trim = trim]
<1>1. req[c].pc = "insert" /\ Go(c, r) /\ clock' = clock + 1 /\ UNCHANGED <<writerVars, bounds>>
      /\ UNCHANGED <<undo, audited, applied>>
  BY DEF Insert
<1>2. clock \in Nat /\ req[c].op \in Undoable
  BY <1>1, RequestShape DEF IInv, Side, RequestOK
<1>3. e \in Entries /\ e.op = req[c].op /\ e.on = req[c].on
  BY <1>2, RequestShape DEF IInv, Entry, Entries
<1>4. FitsAll({e})
  BY <1>3, RequestShape DEF IInv, RequestOK, FitsAll
<1> HIDE DEF e
<1>5. trim \in SUBSET Nat
  <2>1. Overflow(Active(who[c]) \cup {e}) \in SUBSET Entries
    BY <1>3, RequestShape DEF IInv, Overflow, Active
  <2> QED
    BY <2>1, EntryShape
<1> HIDE DEF trim
<1>6. r \in Requests /\ RequestOK(r) /\ r.pc = "push"
  BY <1>3, <1>4, <1>5, RequestShape DEF IInv, Requests, RequestOK, PCs
<1> HIDE DEF r
<1> QED
  BY <1>1, <1>2, <1>6, MovedOn DEF IInv, Side

LEMMA PushAction ==
  ASSUME IInv, NEW c \in Clients, Push(c)
  PROVE  IInv'
<1> DEFINE S == req[c].entry \cup {e \in undo[who[c]] : e.id \notin req[c].trim}
<1>1. req[c].pc = "push" /\ Go(c, Idle) /\ UNCHANGED <<writerVars, bounds>>
      /\ UNCHANGED <<clock, applied>> /\ undo' = [undo EXCEPT ![who[c]] = S]
      /\ audited' = [audited EXCEPT ![req[c].on] = audited[req[c].on] + 1]
  BY DEF Push, End, Go
<1>2. S \in SUBSET Entries /\ FitsAll(S)
  BY RequestShape DEF IInv, RequestOK, FitsAll
<1> HIDE DEF S
<1>3. undo' \in [Users -> SUBSET Entries] /\ \A u \in Users : FitsAll(undo'[u])
  BY <1>1, <1>2, RequestShape DEF IInv, Side
<1>4. audited' \in [Entities -> Nat]
  BY <1>1, RequestShape DEF IInv, Side
<1>5. Idle.pc = "idle"
  BY DEF Idle
<1> QED
  BY <1>1, <1>3, <1>4, <1>5, IdleShape, MovedOn DEF IInv, Side

LEMMA StartPopAction ==
  ASSUME IInv, NEW c \in Clients, StartPop(c)
  PROVE  IInv'
<1> DEFINE r == [Idle EXCEPT !.pc = "walk", !.op = "pop", !.todo = Active(who[c])]
<1>1. req[c].pc = "idle" /\ Go(c, r) /\ UNCHANGED <<writerVars, who, restarts>>
      /\ UNCHANGED <<undo, audited, clock, applied>> /\ begun < MaxRequests /\ begun' = begun + 1
  BY DEF StartPop, Begin, stackVars
<1>2. Active(who[c]) \in SUBSET Entries /\ FitsAll(Active(who[c]))
  BY RequestShape DEF IInv, Active, FitsAll
<1>3. r \in Requests /\ RequestOK(r) /\ r.pc = "walk"
  BY <1>2, IdleShape DEF Requests, RequestOK, PCs, Fits, NodeOps, EdgeOps
<1> HIDE DEF r
<1>4. begun' \in 0..MaxRequests
  BY <1>1 DEF IInv, Side
<1> QED
  BY <1>1, <1>3, <1>4, Moved DEF IInv, Side

\* To drop an entry leads back to the walk, or ends the request.
LEMMA DropMoves ==
  ASSUME Side, NEW c \in Clients, NEW e \in Entries, Drop(c, e)
  PROVE  \E r \in Requests : RequestOK(r) /\ Go(c, r) /\ r.pc \in {"walk", "idle"}
<1> DEFINE s == [req[c] EXCEPT !.pc = "walk", !.todo = req[c].todo \ {e},
                               !.held = req[c].held \cup {e.id}]
<1>1. Go(c, s) \/ Go(c, Idle)
  BY DEF Drop, End, Go
<1>2. e.id \in Nat /\ FitsAll(req[c].todo \ {e})
  BY RequestShape, EntryShape DEF RequestOK, FitsAll
<1>3. s \in Requests /\ RequestOK(s) /\ s.pc = "walk"
  BY <1>2, RequestShape DEF Requests, RequestOK, PCs
<1>4. Idle \in Requests /\ RequestOK(Idle) /\ Idle.pc = "idle"
  BY IdleShape DEF Idle
<1> HIDE DEF s
<1> QED
  BY <1>1, <1>3, <1>4

LEMMA DropStaleAction ==
  ASSUME IInv, NEW c \in Clients, DropStale(c)
  PROVE  IInv'
<1>1. PICK e \in req[c].todo : req[c].pc = "walk" /\ Drop(c, e)
      /\ UNCHANGED <<writerVars, bounds>> /\ UNCHANGED <<undo, audited, clock, applied>>
  BY DEF DropStale, stackVars
<1>2. e \in Entries
  BY RequestShape DEF IInv
<1>3. PICK r \in Requests : RequestOK(r) /\ Go(c, r) /\ r.pc \in {"walk", "idle"}
  BY <1>1, <1>2, DropMoves DEF IInv
<1> QED
  BY <1>1, <1>3, MovedOn DEF IInv, Side

LEMMA StartInverseAction ==
  ASSUME IInv, NEW c \in Clients, StartInverse(c)
  PROVE  IInv'
<1>1. PICK e \in req[c].todo : /\ req[c].pc = "walk"
                              /\ Go(c, [req[c] EXCEPT !.pc = "apply", !.entry = {e}])
                              /\ Enqueue(c, InverseOp[e.op], e.on, AnyLabel)
                              /\ UNCHANGED <<bounds, undo, audited, clock, applied>>
  BY DEF StartInverse, stackVars
<1> DEFINE r == [req[c] EXCEPT !.pc = "apply", !.entry = {e}]
<1>2. e \in Entries /\ e.op \in Undoable /\ Fits(e.op, e.on)
  BY RequestShape, EntryShape DEF IInv, RequestOK, FitsAll
<1>3. r \in Requests /\ RequestOK(r) /\ r.pc = "apply"
  BY <1>2, RequestShape DEF IInv, Requests, RequestOK, PCs, FitsAll
<1>4. AnyLabel \in Labels
  BY DEF AnyLabel
<1>5. Go(c, r)
  BY <1>1
<1> HIDE DEF r
<1>6. Side' /\ req' = [req EXCEPT ![c] = r]
  BY <1>1, <1>3, <1>5, GoSide DEF IInv, Side, bounds
<1>7. /\ InverseOp[e.op] \in NodeOps \cup EdgeOps /\ InverseOp[e.op] \notin Creates
      /\ Fits(InverseOp[e.op], e.on)
  BY <1>2, InverseFits
<1>8. WInv'
  BY <1>1, <1>4, <1>7, EnqueueStep DEF IInv
<1>9. RInv /\ future[c] = "none"
  BY <1>1 DEF IInv, RInv, Side, WInv, Served
<1>10. Served' /\ Creations'
  BY <1>1, <1>3, <1>4, <1>6, <1>7, <1>9, SubmitStep
<1> QED
  BY <1>6, <1>8, <1>10 DEF IInv

LEMMA MarkShape ==
  ASSUME IInv, NEW c \in Clients, NEW ids, MarkUndone(c, ids)
  PROVE  undo' \in [Users -> SUBSET Entries] /\ \A u \in Users : FitsAll(undo'[u])
<1> DEFINE S == {[e EXCEPT !.undone = e.undone \/ e.id \in ids] : e \in undo[who[c]]}
<1>1. undo' = [undo EXCEPT ![who[c]] = S]
  BY DEF MarkUndone
<1>2. S \in SUBSET Entries /\ FitsAll(S)
  <2>1. ASSUME NEW e \in undo[who[c]]
        PROVE  LET f == [e EXCEPT !.undone = e.undone \/ e.id \in ids]
               IN  f \in Entries /\ Fits(f.op, f.on)
    <3>1. e \in Entries /\ Fits(e.op, e.on) /\ (e.id \in ids) \in BOOLEAN
      BY RequestShape DEF IInv, FitsAll
    <3> QED
      BY <3>1, EntryShape
  <2> QED
    BY <2>1 DEF FitsAll
<1> HIDE DEF S
<1> QED
  BY <1>1, <1>2, RequestShape DEF IInv, Side

LEMMA EndInverseAction ==
  ASSUME IInv, NEW c \in Clients, EndInverse(c)
  PROVE  IInv'
<1>1. PICK e \in req[c].entry :
        /\ req[c].pc = "apply" /\ future[c] # "pending" /\ Await(c)
        /\ \/ /\ \/ MarkUndone(c, req[c].held \cup {e.id})
                    /\ audited' = [audited EXCEPT ![e.on] = audited[e.on] + 1]
                 \/ UNCHANGED <<undo, audited>>
              /\ End(c)
           \/ Drop(c, e) /\ UNCHANGED <<undo, audited>>
        /\ UNCHANGED <<rowVars, memoryVars, queue, hand, done, bounds, clock, applied>>
  BY DEF EndInverse, Answered
<1>2. e \in Entries /\ e.on \in Entities
  BY RequestShape, EntryShape DEF IInv
<1>3. /\ undo' \in [Users -> SUBSET Entries] /\ \A u \in Users : FitsAll(undo'[u])
      /\ audited' \in [Entities -> Nat]
  <2>1. CASE UNCHANGED <<undo, audited>>
    BY <2>1 DEF IInv, Side
  <2>2. CASE /\ MarkUndone(c, req[c].held \cup {e.id})
             /\ audited' = [audited EXCEPT ![e.on] = audited[e.on] + 1]
    <3>1. audited' \in [Entities -> Nat]
      BY <1>2, <2>2 DEF IInv, Side
    <3> QED
      BY <2>2, <3>1, MarkShape
  <2> QED
    BY <1>1, <2>1, <2>2
<1>4. PICK r \in Requests : RequestOK(r) /\ Go(c, r) /\ r.pc \in {"walk", "idle"}
  <2>1. CASE End(c)
    <3>1. Go(c, Idle) /\ Idle.pc = "idle"
      BY <2>1 DEF End, Go, Idle
    <3> QED
      BY <3>1, IdleShape
  <2>2. CASE Drop(c, e)
    BY <1>2, <2>2, DropMoves DEF IInv
  <2> QED
    BY <1>1, <2>1, <2>2
<1>5. Side' /\ req' = [req EXCEPT ![c] = r]
  BY <1>1, <1>3, <1>4, GoSide DEF IInv, Side, bounds
<1>6. WInv'
  BY <1>1, AwaitStep DEF IInv
<1>7. RInv /\ UNCHANGED row
  BY <1>1 DEF IInv, RInv, Side, WInv, rowVars
<1>8. Served' /\ Creations'
  BY <1>1, <1>4, <1>5, <1>7, AnsweredStep
<1> QED
  BY <1>5, <1>6, <1>8 DEF IInv

LEMMA EndPopAction ==
  ASSUME IInv, NEW c \in Clients, EndPop(c)
  PROVE  IInv'
<1>1. req[c].pc = "walk" /\ MarkUndone(c, req[c].held) /\ Go(c, Idle)
      /\ UNCHANGED <<writerVars, bounds, audited, clock, applied>>
  BY DEF EndPop, End, Go
<1>2. undo' \in [Users -> SUBSET Entries] /\ \A u \in Users : FitsAll(undo'[u])
  BY <1>1, MarkShape
<1>3. Idle.pc = "idle"
  BY DEF Idle
<1> QED
  BY <1>1, <1>2, <1>3, IdleShape, MovedOn DEF IInv, Side

-----------------------------------------------------------------------------
(* The steps of the consumer, and the end of the process.                  *)

Handler == \/ HandleCreateNode \/ HandleUpdateNode \/ HandleSoftDeleteNode
           \/ HandleCreateEdge \/ HandleSoftDeleteEdge \/ HandleUndoNode \/ HandleUndoEdge

\* A commit of rows that exist, or of the one that is being created.
LEMMA CommitCreates ==
  ASSUME NEW S \in SUBSET Entities, NEW new, Commit(S, new),
         \A x \in S : row[x] = NoRow => x = hand.on /\ hand.op \in Creates
  PROVE  /\ done' = TRUE /\ UNCHANGED <<queue, hand, future>>
         /\ \A x \in Entities : row[x] = NoRow /\ row'[x] # NoRow => x = hand.on /\ hand.op \in Creates
BY DEF Commit, Changed

\* A handler fails with an answer, or commits.
LEMMA HandlerEnds ==
  ASSUME WInv, Handler
  PROVE  /\ hand # NoCommand /\ ~done
         /\ \/ \E why \in Outcome \ {"none", "pending"} : Fail(why)
            \/ /\ done' = TRUE /\ UNCHANGED <<queue, hand, future>>
               /\ \A x \in Entities : row[x] = NoRow /\ row'[x] # NoRow
                                       => x = hand.on /\ hand.op \in Creates
<1>1. hand # NoCommand /\ ~done
  BY DEF Handler, HandleCreateNode, HandleUpdateNode, HandleSoftDeleteNode, HandleCreateEdge,
         HandleSoftDeleteEdge, HandleUndoNode, HandleUndoEdge, Handling
<1>2. hand.on \in Entities /\ {hand.on} \in SUBSET Entities
  BY <1>1, CommandShape DEF WInv, WriterTypeOK
<1>3. {"notFound", "noHistory", "duplicate", "error"} \subseteq Outcome \ {"none", "pending"}
  BY DEF Outcome
<1>4. CASE HandleCreateNode
  <2>1. \E new : Commit({hand.on}, new) /\ hand.op \in Creates
    BY <1>4 DEF HandleCreateNode, Handling, Creates
  <2> QED
    BY <1>1, <1>2, <2>1, CommitCreates
<1>5. CASE HandleCreateEdge
  <2>1. \/ Fail("notFound") \/ Fail("duplicate")
        \/ \E new : Commit({hand.on}, new) /\ hand.op \in Creates
    BY <1>5 DEF HandleCreateEdge, Handling, Creates
  <2> QED
    BY <1>1, <1>2, <1>3, <2>1, CommitCreates
<1>6. CASE HandleUpdateNode \/ HandleSoftDeleteEdge
  <2>1. \/ Fail("notFound")
        \/ \E new : Commit({hand.on}, new) /\ row[hand.on] # NoRow
    BY <1>6 DEF HandleUpdateNode, HandleSoftDeleteEdge, Live
  <2> QED
    BY <1>1, <1>2, <1>3, <2>1, CommitCreates
<1>7. CASE HandleSoftDeleteNode
  <2> DEFINE gone == {hand.on} \cup Incident(hand.on)
  <2>1. \/ Fail("notFound")
        \/ (\E new : Commit(gone, new)) /\ \A x \in gone : row[x] # NoRow
    BY <1>7 DEF HandleSoftDeleteNode, Incident, Live
  <2>2. gone \in SUBSET Entities
    BY <1>2 DEF Incident, Touches, Entities
  <2> QED
    BY <1>1, <1>3, <2>1, <2>2, CommitCreates
<1>8. CASE HandleUndoNode \/ HandleUndoEdge
  <2>1. \/ Fail("notFound") \/ Fail("noHistory") \/ Fail("error")
        \/ \E new : Commit({hand.on}, new) /\ row[hand.on] # NoRow
    BY <1>8 DEF HandleUndoNode, HandleUndoEdge, PutBack
  <2> QED
    BY <1>1, <1>2, <1>3, <2>1, CommitCreates
<1> QED
  BY <1>4, <1>5, <1>6, <1>7, <1>8 DEF Handler

\* The consumer touches base of the client it answers, and nothing else of it.
LEMMA ConsumeSide ==
  ASSUME IInv, Consume
  PROVE  Side' /\ SameRequests
<1>1. UNCHANGED <<who, begun, restarts, undo, audited, clock>>
  BY DEF Consume, bounds
<1>2. /\ req' \in [Clients -> Requests] /\ SameRequests
      /\ \A c \in Clients : RequestOK(req'[c])
  <2>1. CASE req' = req
    BY <2>1 DEF IInv, Side, SameRequests
  <2>2. CASE hand # NoCommand /\ req' = [req EXCEPT ![hand.by].base = stamp[hand.on]]
    <3> DEFINE r == [req[hand.by] EXCEPT !.base = stamp[hand.on]]
    <3>1. hand.by \in Clients /\ stamp[hand.on] \in Nat
      BY <2>2, QueuedShape DEF IInv, WInv, WriterTypeOK
    <3>2. r \in Requests /\ RequestOK(r)
          /\ r.pc = req[hand.by].pc /\ r.op = req[hand.by].op /\ r.on = req[hand.by].on
          /\ r.todo = req[hand.by].todo /\ r.entry = req[hand.by].entry
      BY <3>1, RequestShape DEF IInv, Requests, RequestOK
    <3>3. req' = [req EXCEPT ![hand.by] = r]
      BY <2>2
    <3> HIDE DEF r
    <3> QED
      BY <3>1, <3>2, <3>3 DEF IInv, Side, SameRequests
  <2> QED
    BY <2>1, <2>2 DEF Consume
<1>3. applied' \in SUBSET Nat
  <2>1. CASE applied' = applied
    BY <2>1 DEF IInv, Side
  <2>2. CASE hand # NoCommand /\ applied' = applied \cup {e.id : e \in req[hand.by].entry}
    <3>1. hand.by \in Clients
      BY <2>2, QueuedShape DEF IInv, WInv
    <3>2. \A e \in req[hand.by].entry : e.id \in Nat
      BY <3>1, RequestShape, EntryShape DEF IInv
    <3>3. {e.id : e \in req[hand.by].entry} \in SUBSET Nat /\ applied \in SUBSET Nat
      BY <3>2 DEF IInv, Side
    <3> QED
      BY <2>2, <3>3
  <2>3. applied' = applied \/ (row' # row /\ applied' = applied \cup {e.id : e \in req[hand.by].entry})
    BY DEF Consume
  <2>4. row' # row => hand # NoCommand
    BY DEF Consume, ConsumerStep, Take, Apply, rowVars, HandleCreateNode, HandleUpdateNode,
           HandleSoftDeleteNode, HandleCreateEdge, HandleSoftDeleteEdge, HandleUndoNode,
           HandleUndoEdge, Handling
  <2> QED
    BY <2>1, <2>2, <2>3, <2>4
<1> QED
  BY <1>1, <1>2, <1>3 DEF IInv, Side

LEMMA ConsumeAction ==
  ASSUME IInv, Consume
  PROVE  IInv'
<1>1. Side' /\ SameRequests /\ RInv
  BY ConsumeSide DEF IInv, RInv, Side, WInv
<1>2. Take \/ Apply \/ Handler
  BY DEF Consume, ConsumerStep, Handler
<1>3. CASE Take
  BY <1>1, <1>3, TakeStep, TakenStep DEF IInv
<1>4. CASE Apply
  <2>1. hand # NoCommand /\ Resolve(hand.by, "ok") /\ hand' = NoCommand /\ UNCHANGED <<row, queue>>
    BY <1>4 DEF Apply, rowVars
  <2> QED
    BY <1>1, <1>4, <2>1, ApplyStep, ResolveStep DEF IInv
<1>5. CASE Handler
  <2>1. WInv'
    BY <1>5, SetHandlers, DeleteNodeStep, DeleteEdgeStep DEF IInv, Handler
  <2>2. hand # NoCommand /\ ~done
    BY <1>5, HandlerEnds DEF IInv
  <2>3. ASSUME NEW why \in Outcome \ {"none", "pending"}, Fail(why)
        PROVE  Served' /\ Creations'
    <3>1. Resolve(hand.by, why) /\ hand' = NoCommand /\ UNCHANGED <<row, queue>>
      BY <2>3 DEF Fail, rowVars
    <3> QED
      BY <1>1, <2>2, <2>3, <3>1, ResolveStep
  <2>4. Served' /\ Creations'
    BY <1>1, <1>5, <2>2, <2>3, HandlerEnds, CommittedStep DEF IInv
  <2> QED
    BY <1>1, <2>1, <2>4 DEF IInv
<1> QED
  BY <1>2, <1>3, <1>4, <1>5

LEMMA FailsAction ==
  ASSUME IInv, DatabaseFails
  PROVE  IInv'
<1>1. /\ hand # NoCommand /\ ~done /\ Fail("error")
      /\ UNCHANGED <<who, req, undo, audited, clock, begun, restarts, applied>>
  BY DEF DatabaseFails, HandlerFails, requestVars
<1>2. Side' /\ SameRequests /\ RInv
  BY <1>1 DEF IInv, Side, SameRequests, RInv, WInv
<1>3. Resolve(hand.by, "error") /\ hand' = NoCommand /\ UNCHANGED <<row, queue>>
  BY <1>1 DEF Fail, rowVars
<1> QED
  BY <1>1, <1>2, <1>3, FailStep, ResolveStep DEF IInv, Outcome

LEMMA RestartAction ==
  ASSUME IInv, Restart
  PROVE  IInv'
<1>1. /\ Stop /\ req' = [c \in Clients |-> Idle] /\ restarts < MaxRestarts /\ restarts' = restarts + 1
      /\ UNCHANGED <<who, undo, audited, clock, begun, applied>>
  BY DEF Restart, stackVars
<1>2. \A c \in Clients : req'[c] = Idle
  BY <1>1
<1>3. Side'
  BY <1>1, <1>2, IdleShape DEF IInv, Side
<1>4. WInv'
  BY <1>1, StopStep DEF IInv
<1>5. Len(queue') = 0 /\ hand' = NoCommand /\ \A c \in Clients : future'[c] = "none"
  BY <1>1 DEF Stop, Forget
<1>6. \A i \in 1..Len(queue') : FALSE
  BY <1>5
<1>7. Idle.pc = "idle"
  BY DEF Idle
<1>8. Served'
  BY <1>5, <1>6 DEF Served, Queued, InHand
<1>9. Creations'
  BY <1>2, <1>5, <1>6, <1>7 DEF Creations, Creator
<1> QED
  BY <1>3, <1>4, <1>8, <1>9 DEF IInv
-----------------------------------------------------------------------------
(* The invariant.                                                          *)

LEMMA InitInvariant ==
  ASSUME Init
  PROVE  IInv
<1>1. Side
  BY IdleShape DEF Init, Side, FitsAll
<1>2. Len(queue) = 0 /\ \A i \in 1..Len(queue) : FALSE
  BY DEF Init, WriterInit
<1>3. Served
  BY <1>2 DEF Init, WriterInit, Served, Queued, InHand
<1>4. Creations
  BY <1>2 DEF Init, WriterInit, Creations, Creator, Idle
<1>5. WriterTypeOK
  BY EmptySeq DEF Init, WriterInit, WriterTypeOK, NoLoad, Outcome
<1>6. Mirror /\ Past
  BY DEF Init, WriterInit, Mirror, Past, NoLoad
<1>7. CascadeHolds
  BY StartAssumption DEF Init, WriterInit, CascadeHolds, Live
<1> QED
  BY <1>1, <1>3, <1>4, <1>5, <1>6, <1>7 DEF IInv, WInv

LEMMA NextInvariant ==
  ASSUME IInv, [Next]_vars
  PROVE  IInv'
<1>1. CASE UNCHANGED vars
  <2>1. UNCHANGED <<writerVars, requestVars>>
    BY <1>1 DEF vars
  <2>2. UNCHANGED <<who, req, undo, audited, clock, begun, restarts, applied>>
    BY <2>1 DEF requestVars
  <2>3. UNCHANGED <<row, queue, hand, done, future>>
    BY <2>1 DEF writerVars, rowVars
  <2>4. Side'
    BY <2>2 DEF IInv, Side
  <2>5. Served' /\ Creations'
    BY <2>2, <2>3 DEF IInv, Served, Queued, InHand, Creations, Creator, Creating
  <2> QED
    BY <2>1, <2>4, <2>5, WriterSame DEF IInv
<1>2. CASE Consume \/ DatabaseFails \/ Restart
  BY <1>2, ConsumeAction, FailsAction, RestartAction
<1>3. ASSUME NEW c \in Clients, Client(c) \/ StartPop(c)
      PROVE  IInv'
  BY <1>3, LoadAction, ReadGraphAction, ReplyAction, ReReadAction, InsertAction, PushAction,
     DropStaleAction, StartInverseAction, EndInverseAction, EndPopAction, StartPopAction DEF Client
<1>4. ASSUME NEW c \in Clients, AskGraph(c, "read", Idle.on)
      PROVE  IInv'
  <2> DEFINE x == Idle.on
  <2>1. x \in Entities /\ AskGraph(c, "read", x)
    BY <1>4, IdleShape DEF Requests
  <2> HIDE DEF x
  <2> QED
    BY <1>4, <2>1, AskAction
<1>5. ASSUME NEW c \in Clients, NEW e \in Edges, AskGraph(c, "createEdge", e)
      PROVE  IInv'
  BY <1>5, AskAction DEF Entities
<1>6. ASSUME NEW c \in Clients, NEW n \in Nodes, NEW l \in Labels,
             NEW op \in {"updateNode", "createNode", "deleteNode", "undoNode"}, Submit(c, op, n, l)
      PROVE  IInv'
  <2>1. op \in (NodeOps \cup EdgeOps) \ {"createEdge"} /\ Fits(op, n) /\ n \in Entities
    BY DEF NodeOps, EdgeOps, Fits, Entities
  <2> QED
    BY <1>6, <2>1, SubmitAction
<1>7. ASSUME NEW c \in Clients, NEW e \in Edges, NEW op \in {"deleteEdge", "undoEdge"},
             Submit(c, op, e, AnyLabel)
      PROVE  IInv'
  <2>1. op \in (NodeOps \cup EdgeOps) \ {"createEdge"} /\ Fits(op, e) /\ e \in Entities
        /\ AnyLabel \in Labels
    BY DEF NodeOps, EdgeOps, Fits, Entities, AnyLabel
  <2> QED
    BY <1>7, <2>1, SubmitAction
<1>8. AnyLabel \in Labels
  BY DEF AnyLabel
<1>9. CASE Rest
  BY <1>1, <1>9 DEF Rest
<1>10. CASE Next
  BY <1>2, <1>3, <1>4, <1>5, <1>6, <1>7, <1>8, <1>9, <1>10 DEF Next
<1> QED
  BY <1>1, <1>10

\* The inductive invariant.
THEOREM GraphInvariant == Spec => []IInv
<1>1. Init => IInv
  BY InitInvariant
<1>2. IInv /\ [Next]_vars => IInv'
  BY NextInvariant
<1> QED
  BY <1>1, <1>2, PTL DEF Spec

\* Every variable stays in its set.
THEOREM GraphTyped == Spec => []TypeOK
<1>1. IInv => TypeOK
  BY DEF IInv, Side, WInv, TypeOK, Requests
<1> QED
  BY <1>1, GraphInvariant, PTL

\* Whoever awaits an answer has exactly one command that will give it, and who
\* does not has none. (writer.py:43-45)
THEOREM AwaitedServed == Spec => []AwaitedIsServed
<1>1. ASSUME IInv, NEW c \in Clients
      PROVE  IF future[c] = "pending"
               THEN Cardinality(InService(c)) = (IF hand # NoCommand /\ hand.by = c THEN 0 ELSE 1)
               ELSE InService(c) = {} /\ (hand # NoCommand => hand.by # c)
  <2>1. DOMAIN queue = 1..Len(queue)
    BY <1>1, LenProperties DEF IInv, WInv, WriterTypeOK
  <2>2. InService(c) = {i \in 1..Len(queue) : queue[i].by = c}
    BY <2>1 DEF InService
  <2>3. /\ \A i, j \in InService(c) : i = j
        /\ Queued(c) <=> InService(c) # {}
    BY <1>1, <2>2 DEF IInv, Served, Queued
  <2>4. InService(c) # {} => \E i : InService(c) = {i}
    <3> SUFFICES ASSUME NEW i \in InService(c) PROVE InService(c) = {i}
      OBVIOUS
    <3> QED
      BY <2>3
  <2>5. InService(c) # {} => Cardinality(InService(c)) = 1
    BY <2>4, FS_Singleton
  <2> QED
    BY <1>1, <2>3, <2>5, FS_EmptySet DEF IInv, Served, InHand
<1>2. IInv => AwaitedIsServed
  BY <1>1 DEF AwaitedIsServed
<1> QED
  BY <1>2, GraphInvariant, PTL

\* A warm copy says what the rows say whenever the consumer is between commands,
\* unless a reader installed what it had loaded before a commit.
\* (writer.py:47-52, 182-203)
THEOREM CopyMirrors == Spec => []MirrorsRows
<1>1. ASSUME IInv, warm, hand = NoCommand, ~late
      PROVE  memory = row
  <2>1. ~done /\ \A x \in Entities : row[x] = memory[x]
    BY <1>1 DEF IInv, WInv, Mirror
  <2>2. row \in [Entities -> Value \cup {NoRow}] /\ memory \in [Entities -> Value \cup {NoRow}]
    BY <1>1 DEF IInv, WInv, WriterTypeOK
  <2> QED
    BY <2>1, <2>2
<1>2. IInv => MirrorsRows
  BY <1>1 DEF MirrorsRows
<1> QED
  BY <1>2, GraphInvariant, PTL

\* A deletion takes the edges along: no live edge hangs, but for undos.
\* (writer.py:404-431)
THEOREM NoEdgeHangs == Spec => []CascadeHolds
<1>1. IInv => CascadeHolds
  BY DEF IInv, WInv
<1> QED
  BY <1>1, GraphInvariant, PTL

-----------------------------------------------------------------------------
(* The refinement.                                                         *)

\* What the store remembers of x: its newest history row.
Newest(x) == IF history[x] = <<>> THEN NoRow ELSE history[x][Len(history[x])]

\* Of the entities of S, a commit makes new the row and the row the newest past.
LEMMA CommitPuts ==
  ASSUME WInv, NEW S \in SUBSET Entities, NEW new, Commit(S, new)
  PROVE  /\ row' = [x \in Entities |-> IF x \in S THEN new[x] ELSE row[x]]
         /\ \A x \in Entities : Newest(x)' = IF x \in S THEN row[x] ELSE Newest(x)
<1>1. row' = [x \in Entities |-> IF x \in S THEN new[x] ELSE row[x]]
  BY DEF Commit, Changed
<1>2. ASSUME NEW x \in Entities
      PROVE  Newest(x)' = IF x \in S THEN row[x] ELSE Newest(x)
  <2>1. history[x] \in Seq(Value) /\ row[x] \in Value \cup {NoRow}
    BY DEF WInv, WriterTypeOK
  <2>2. CASE x \in Recorded(S)
    <3>1. x \in S /\ row[x] \in Value /\ history'[x] = Append(history[x], row[x])
      BY <2>1, <2>2 DEF Recorded, Commit
    <3>2. history'[x] # <<>> /\ Len(history'[x]) = Len(history[x]) + 1
          /\ history'[x][Len(history[x]) + 1] = row[x]
      BY <2>1, <3>1, AppendProperties
    <3> QED
      BY <3>1, <3>2 DEF Newest
  <2>3. CASE x \notin Recorded(S)
    <3>1. history'[x] = history[x] /\ (x \in S => row[x] = NoRow)
      BY <2>3 DEF Commit, Recorded
    <3> QED
      BY <3>1 DEF Newest, WInv, Past
  <2> QED
    BY <2>2, <2>3
<1> QED
  BY <1>1, <1>2

\* The row of x becomes v, and what it was its newest past.
Becomes(x, v) ==
  /\ row' = [y \in Entities |-> IF y = x THEN v ELSE row[y]]
  /\ \A y \in Entities : Newest(y)' = IF y = x THEN row[y] ELSE Newest(y)

\* Which is what the store calls Put.
LEMMA BecomesPut ==
  ASSUME NEW x \in Entities, NEW f, Becomes(x, f[x])
  PROVE  Store!Put({x}, f)
<1>1. row' = [y \in Entities |-> IF y \in {x} THEN f[y] ELSE row[y]]
  BY DEF Becomes
<1>2. [y \in Entities |-> Newest(y)]' = [y \in Entities |-> IF y \in {x} THEN row[y] ELSE Newest(y)]
  BY DEF Becomes
<1> QED
  BY <1>1, <1>2 DEF Store!Put, Store!Entities, Newest, Entities

LEMMA OneBecomes ==
  ASSUME WInv, hand # NoCommand, NEW x, x = hand.on, NEW v, Commit({hand.on}, On(v))
  PROVE  Becomes(x, v)
<1> DEFINE S   == {hand.on}
           new == On(v)
<1>1. hand.on \in Entities
  BY CommandShape DEF WInv, WriterTypeOK
<1>2. S \in SUBSET Entities /\ Commit(S, new)
  BY <1>1
<1>3. (\A y : y \in S <=> y = x) /\ new[x] = v
  BY DEF On
<1> HIDE DEF S, new
<1>4. /\ row' = [y \in Entities |-> IF y \in S THEN new[y] ELSE row[y]]
      /\ \A y \in Entities : Newest(y)' = IF y \in S THEN row[y] ELSE Newest(y)
  BY <1>2, CommitPuts
<1> QED
  BY <1>3, <1>4 DEF Becomes

\* A set of entities is marked deleted.
Marked(S) ==
  /\ row' = [y \in Entities |-> IF y \in S THEN [row[y] EXCEPT !.live = FALSE] ELSE row[y]]
  /\ \A y \in Entities : Newest(y)' = IF y \in S THEN row[y] ELSE Newest(y)

\* The four kinds of transaction, in the store's terms.
LEMMA StoreCreates ==
  ASSUME NEW x \in Entities, NEW v \in Value, v.live, row[x] = NoRow, Becomes(x, v),
         x \in Edges => \A i \in 1..2 : Live(Ends[x][i])
  PROVE  Store!Next
<1>1. PICK f : f = [y \in {x} |-> v]
  OBVIOUS
<1>2. Store!Put({x}, f)
  BY <1>1, BecomesPut
<1>3. Store!Create(x)
  BY <1>1, <1>2 DEF Store!Create, Store!Value, Value, Store!Alive, Live, Store!Put
<1> QED
  BY <1>3 DEF Store!Next, Store!Entities, Entities

LEMMA StoreChanges ==
  ASSUME NEW x \in Nodes, NEW v \in Value, v.live, Live(x), Becomes(x, v)
  PROVE  Store!Next
<1>1. PICK f : f = [y \in {x} |-> v]
  OBVIOUS
<1>2. Store!Put({x}, f)
  BY <1>1, BecomesPut DEF Entities
<1>3. Store!Change(x)
  BY <1>1, <1>2 DEF Store!Change, Store!Value, Value, Store!Alive, Live, Store!Put
<1> QED
  BY <1>3 DEF Store!Next

LEMMA StoreUndoes ==
  ASSUME NEW x \in Entities, Newest(x) # NoRow, Becomes(x, Newest(x))
  PROVE  Store!Next
<1>1. PICK f : f = [y \in Entities |-> Newest(y)]
  OBVIOUS
<1>2. Store!Put({x}, f)
  BY <1>1, BecomesPut DEF Becomes
<1>3. Store!Undo(x)
  BY <1>1, <1>2 DEF Store!Undo, Store!Put, Store!Entities, Newest, Entities
<1> QED
  BY <1>3 DEF Store!Next, Store!Entities, Entities

\* The live edges of a node are those the handler finds; an edge has none.
LEMMA StoreRemoves ==
  ASSUME NEW x \in Entities, Live(x), NEW S, Marked(S),
         S = {x} \cup (IF x \in Nodes THEN Incident(x) ELSE {})
  PROVE  Store!Next
<1>1. S = {x} \cup {e \in Edges : Store!Alive(e) /\ \E i \in 1..2 : Ends[e][i] = x}
  <2>1. CASE x \in Nodes
    BY <2>1 DEF Store!Alive, Incident, Touches, Live
  <2>2. CASE x \notin Nodes
    BY <2>2, EndsAreNodes
  <2> QED
    BY <2>1, <2>2
<1>2. S \subseteq Entities
  BY <1>1 DEF Entities
<1>3. row' = [y \in Entities |-> IF y \in S THEN [z \in S |-> [row[z] EXCEPT !.live = FALSE]][y] ELSE row[y]]
  BY DEF Marked
<1>4. [y \in Entities |-> Newest(y)]' = [y \in Entities |-> IF y \in S THEN row[y] ELSE Newest(y)]
  BY DEF Marked
<1>5. Store!Remove(x)
  BY <1>1, <1>3, <1>4 DEF Store!Remove, Store!Put, Store!Entities, Store!Alive, Live, Newest, Entities
<1> QED
  BY <1>5 DEF Store!Next, Store!Entities, Entities

\* What each handler commits is a step of the store.
LEMMA HandlerRefines ==
  ASSUME WInv, hand # NoCommand /\ ~done /\ hand.op \in Creates => row[hand.on] = NoRow, Handler
  PROVE  Store!Next \/ UNCHANGED Store!vars
<1>1. PICK x, v : x = hand.on /\ v = [label |-> hand.label, live |-> TRUE]
  OBVIOUS
<1>2. hand # NoCommand /\ ~done
  BY HandlerEnds
<1>3. hand \in Command /\ x \in Entities /\ v \in Value /\ v.live /\ Fits(hand.op, x)
  BY <1>1, <1>2, CommandShape DEF WInv, WriterTypeOK, Value
<1>4. \A why : Fail(why) => UNCHANGED Store!vars
  BY DEF Fail, rowVars, Store!vars
<1>5. Commit({hand.on}, On([label |-> hand.label, live |-> TRUE])) => Becomes(x, v)
  <2> SUFFICES ASSUME Commit({hand.on}, On([label |-> hand.label, live |-> TRUE]))
               PROVE  Becomes(x, v)
    OBVIOUS
  <2>1. Commit({hand.on}, On(v))
    BY <1>1
  <2> QED
    BY <1>1, <1>2, <2>1, OneBecomes
<1>6. CASE HandleCreateNode
  <2>1. Becomes(x, v) /\ hand.op = "createNode"
    BY <1>5, <1>6 DEF HandleCreateNode, Handling
  <2>2. row[x] = NoRow /\ x \notin Edges
    BY <1>1, <1>2, <1>3, <2>1 DEF Creates, Fits, NodeOps
  <2> QED
    BY <1>3, <2>1, <2>2, StoreCreates
<1>7. CASE HandleUpdateNode
  <2>1. hand.op = "updateNode" /\ x \in Nodes
    BY <1>3, <1>7 DEF HandleUpdateNode, Handling, Fits, NodeOps
  <2>2. (Live(x) /\ Becomes(x, v)) \/ Fail("notFound")
    BY <1>1, <1>5, <1>7 DEF HandleUpdateNode
  <2> QED
    BY <1>3, <1>4, <2>1, <2>2, StoreChanges
<1>8. CASE HandleSoftDeleteNode
  <2>1. x \in Nodes
    BY <1>3, <1>8 DEF HandleSoftDeleteNode, Handling, Fits, NodeOps
  <2>2. CASE Fail("notFound")
    BY <1>4, <2>2
  <2>3. CASE Live(hand.on)
    <3>1. PICK S : S = {hand.on} \cup Incident(hand.on)
      OBVIOUS
    <3>2. PICK f : f = [y \in S |-> [row[y] EXCEPT !.live = FALSE]]
      OBVIOUS
    <3>3. S \in SUBSET Entities
      BY <1>1, <1>3, <3>1 DEF Incident, Touches, Entities
    <3>4. /\ row' = [y \in Entities |-> IF y \in S THEN f[y] ELSE row[y]]
          /\ \A y \in Entities : Newest(y)' = IF y \in S THEN row[y] ELSE Newest(y)
      <4> DEFINE gone == {hand.on} \cup Incident(hand.on)
                 new  == [y \in gone |-> [row[y] EXCEPT !.live = FALSE]]
      <4>1. Commit(gone, new)
        BY <1>8, <2>3 DEF HandleSoftDeleteNode
      <4>2. gone = S /\ new = f
        BY <3>1, <3>2
      <4> HIDE DEF gone, new
      <4>3. /\ row' = [y \in Entities |-> IF y \in gone THEN new[y] ELSE row[y]]
            /\ \A y \in Entities : Newest(y)' = IF y \in gone THEN row[y] ELSE Newest(y)
        BY <3>3, <4>1, <4>2, CommitPuts
      <4> QED
        BY <4>2, <4>3
    <3>5. Marked(S)
      BY <3>2, <3>4 DEF Marked
    <3>6. S = {x} \cup (IF x \in Nodes THEN Incident(x) ELSE {}) /\ Live(x)
      BY <1>1, <2>1, <2>3, <3>1
    <3> QED
      BY <1>3, <3>5, <3>6, StoreRemoves
  <2> QED
    BY <1>8, <2>2, <2>3 DEF HandleSoftDeleteNode
<1>9. CASE HandleCreateEdge
  <2>1. hand.op = "createEdge" /\ x \in Edges
    BY <1>3, <1>9 DEF HandleCreateEdge, Handling, Fits, EdgeOps
  <2>2. row[x] = NoRow
    BY <1>1, <1>2, <2>1 DEF Creates
  <2>3. \/ Becomes(x, v) /\ \A i \in 1..2 : Live(Ends[x][i])
        \/ Fail("notFound") \/ Fail("duplicate")
    BY <1>1, <1>5, <1>9 DEF HandleCreateEdge
  <2> QED
    BY <1>3, <1>4, <2>2, <2>3, StoreCreates
<1>10. CASE HandleSoftDeleteEdge
  <2>1. x \in Edges /\ x \notin Nodes
    BY <1>3, <1>10 DEF HandleSoftDeleteEdge, Handling, Fits, EdgeOps
  <2>2. CASE Fail("notFound")
    BY <1>4, <2>2
  <2>3. CASE Live(hand.on)
    <3>1. PICK w : w = [row[hand.on] EXCEPT !.live = FALSE]
      OBVIOUS
    <3>2. Commit({hand.on}, On(w))
      BY <1>10, <2>3, <3>1 DEF HandleSoftDeleteEdge
    <3>3. Becomes(x, w)
      BY <1>1, <1>2, <3>2, OneBecomes
    <3>4. PICK S : S = {x}
      OBVIOUS
    <3>5. Marked(S)
      BY <1>1, <3>1, <3>3, <3>4 DEF Becomes, Marked
    <3>6. S = {x} \cup (IF x \in Nodes THEN Incident(x) ELSE {}) /\ Live(x)
      BY <1>1, <2>1, <2>3, <3>4
    <3> QED
      BY <1>3, <3>5, <3>6, StoreRemoves
  <2> QED
    BY <1>10, <2>2, <2>3 DEF HandleSoftDeleteEdge
<1>11. CASE HandleUndoNode \/ HandleUndoEdge
  <2>1. CASE Commit({hand.on}, On(Prior(hand.on))) /\ history[hand.on] # <<>>
    <3>1. history[x] \in Seq(Value) /\ history[x] # <<>>
      BY <1>1, <1>3, <2>1 DEF WInv, WriterTypeOK
    <3>2. Newest(x) = Prior(hand.on) /\ Newest(x) # NoRow
      BY <1>1, <3>1, LenProperties, EmptySeq DEF Prior, Newest
    <3>3. PICK w : w = Prior(hand.on)
      OBVIOUS
    <3>4. Commit({hand.on}, On(w))
      BY <2>1, <3>3
    <3>5. Becomes(x, w)
      BY <1>1, <1>2, <3>4, OneBecomes
    <3>6. Becomes(x, Newest(x))
      BY <3>2, <3>3, <3>5 DEF Becomes
    <3> QED
      BY <1>3, <3>2, <3>6, StoreUndoes
  <2>2. \/ Commit({hand.on}, On(Prior(hand.on))) /\ history[hand.on] # <<>>
        \/ Fail("notFound") \/ Fail("noHistory") \/ Fail("error")
    BY <1>11 DEF HandleUndoNode, HandleUndoEdge, PutBack
  <2> QED
    BY <1>4, <2>1, <2>2
<1> QED
  BY <1>6, <1>7, <1>8, <1>9, <1>10, <1>11 DEF Handler

\* Nothing but the handlers changes rows or their past.
LEMMA OthersStutter ==
  ASSUME Next, ~Consume \/ Take \/ Apply
  PROVE  UNCHANGED <<row, history>>
<1>1. ASSUME NEW c \in Clients, Client(c) \/ StartPop(c)
      PROVE  UNCHANGED rowVars
  BY <1>1 DEF Client, StartPop, Load, StartLoad, LoadEdges, Install, ReadGraph, Enqueue, Reply,
     ReRead, Insert, Push, DropStale, StartInverse, EndInverse, EndPop, writerVars
<1>2. ASSUME NEW c \in Clients, NEW op, NEW x, NEW l, AskGraph(c, op, x) \/ Submit(c, op, x, l)
      PROVE  UNCHANGED rowVars
  BY <1>2 DEF AskGraph, Submit, Enqueue, writerVars
<1>3. Take \/ Apply \/ DatabaseFails \/ Restart \/ Rest => UNCHANGED rowVars
  BY DEF Take, Apply, DatabaseFails, HandlerFails, Fail, Restart, Stop, Rest, vars, writerVars
<1>4. UNCHANGED rowVars
  BY <1>1, <1>2, <1>3 DEF Next
<1> QED
  BY <1>4 DEF rowVars

\* The rows change as the store says, whatever queue, copy, sessions, failures
\* and restarts there are. (writer.py:1-3, 35-41)
THEOREM RefinesStore == Spec => ImplementsGraphStore
<1>1. Init => Store!Init
  BY DEF Init, WriterInit, Store!Init, Store!Entities, Entities
<1>2. IInv /\ [Next]_vars => [Store!Next]_(Store!vars)
  <2> SUFFICES ASSUME IInv, [Next]_vars PROVE Store!Next \/ UNCHANGED Store!vars
    OBVIOUS
  <2>1. UNCHANGED <<row, history>> => UNCHANGED Store!vars
    BY DEF Store!vars
  <2>2. CASE UNCHANGED vars
    BY <2>1, <2>2 DEF vars, writerVars, rowVars
  <2>3. CASE Next /\ (~Consume \/ Take \/ Apply)
    BY <2>1, <2>3, OthersStutter
  <2>4. CASE Handler
    <3>1. hand # NoCommand /\ ~done /\ hand.op \in Creates => row[hand.on] = NoRow
      BY DEF IInv, Creations, Creating
    <3> QED
      BY <2>4, <3>1, HandlerRefines DEF IInv
  <2> QED
    BY <2>2, <2>3, <2>4 DEF Consume, ConsumerStep, Handler
<1> QED
  BY <1>1, <1>2, GraphInvariant, PTL DEF Spec, ImplementsGraphStore, Store!Spec

-----------------------------------------------------------------------------
(* What is committed, what is audited, and what an undo entry says.        *)

\* A command does what its client's request is about.
Asked(m) ==
  \/ req[m.by].pc = "wait" /\ req[m.by].op = m.op /\ req[m.by].on = m.on
  \/ req[m.by].pc = "apply" /\ \A e \in req[m.by].entry : e.on = m.on
Ordered == /\ \A i \in 1..Len(queue) : Asked(queue[i])
           /\ hand # NoCommand => Asked(hand)

\* A row that was there to begin with never goes.
Kept == \A x \in Entities : Start[x] # NoRow => row[x] # NoRow

\* The changes of x that are committed and will be audited, if nothing fails.
Won(c) == future[c] = "ok" \/ (InHand(c) /\ done)
Owes(c, x) ==
  \/ req[c].pc \in {"reread", "insert", "push"} /\ req[c].on = x
  \/ req[c].pc = "wait" /\ req[c].op \in Undoable /\ req[c].on = x /\ Won(c)
  \/ req[c].pc = "apply" /\ (\E e \in req[c].entry : e.on = x) /\ Won(c)
Owing(x) == {c \in Clients : Owes(c, x)}

Writes(x) == Len(history[x]) + (IF Start[x] = NoRow /\ row[x] # NoRow THEN 1 ELSE 0)
Covered   == \A x \in Entities : audited[x] + Cardinality(Owing(x)) <= Writes(x)

AuditInv == Ordered /\ Kept /\ Covered

\* The entries of a member: those of the stack, and those its requests hold.
Has(u, e) == \/ e \in undo[u]
             \/ \E c \in Clients : who[c] = u /\ (e \in req[c].todo \/ e \in req[c].entry)

\* An entry is older than the clock, and its target at least as new as the entry
\* says; newer, once the inverse was applied.
Dated == \A u \in Users, e \in Entries :
           Has(u, e) => /\ e.id \in 1..clock /\ e.base <= stamp[e.on]
                        /\ e.id \in applied => e.base < stamp[e.on]

\* An id names one entry, of one member.
OneEach == \A u, v \in Users, e, f \in Entries :
             Has(u, e) /\ Has(v, f) /\ e.id = f.id => u = v /\ e.on = f.on /\ e.base = f.base

\* What a request will put into its entry.
Bases == \A c \in Clients :
           req[c].pc \in {"check", "wait", "reread", "insert"} => req[c].base <= stamp[req[c].on]

\* The inverse somebody waits for has not been applied, if nobody else pops.
Unapplied == \A c \in Clients :
  Mates(c) = {} /\ req[c].pc = "apply" /\ future[c] = "pending" /\ ~(InHand(c) /\ done)
    => \A e \in req[c].entry : e.id \notin applied

StackInv == Dated /\ OneEach /\ Bases /\ Unapplied /\ applied \subseteq 1..clock

\* How many requests owe is a number, and goes with the requests.
LEMMA OwingFacts ==
  ASSUME NEW x
  PROVE  IsFiniteSet(Owing(x)) /\ Cardinality(Owing(x)) \in Nat
<1>1. Owing(x) \in SUBSET Clients
  BY DEF Owing
<1> QED
  BY <1>1, FS_Subset, FS_CardinalityType

LEMMA WritesFacts ==
  ASSUME WriterTypeOK, NEW x \in Entities
  PROVE  Writes(x) \in Nat /\ Len(history[x]) \in Nat
BY LenProperties DEF WriterTypeOK, Writes

\* A request without a command, or with an answer, takes a step.  It may submit a
\* command it will wait for; it audits nothing it does not owe.
LEMMA AuditMoves ==
  ASSUME IInv, AuditInv, NEW c \in Clients, future[c] # "pending",
         \A d \in Clients \ {c} : req'[d] = req[d] /\ future'[d] = future[d],
         UNCHANGED <<row, history, hand, done>>,
         \/ queue' = queue
         \/ \E m \in Command : m.by = c /\ queue' = Append(queue, m) /\ Asked(m)',
         \/ audited' = audited /\ \A x \in Entities : Owes(c, x)' => Owes(c, x)
         \/ \E x \in Entities : /\ Owes(c, x) /\ \A y \in Entities : ~Owes(c, y)'
                               /\ audited' = [audited EXCEPT ![x] = audited[x] + 1]
  PROVE  AuditInv'
<1>1. WriterTypeOK /\ audited \in [Entities -> Nat]
  BY DEF IInv, WInv, Side
<1>2. ~Queued(c) /\ ~InHand(c)
  BY DEF IInv, Served
<1>3. \A i \in 1..Len(queue) : queue[i] \in Command /\ queue[i].by \in Clients \ {c}
  BY <1>1, <1>2, QueuedShape DEF Queued
<1>4. hand # NoCommand => hand.by \in Clients \ {c}
  BY <1>1, <1>2, QueuedShape DEF InHand
<1>5. \A m : m.by \in Clients \ {c} /\ Asked(m) => Asked(m)'
  BY DEF Asked
<1>6. Ordered'
  <2>1. \A i \in 1..Len(queue) : Asked(queue[i]) /\ Asked(queue[i])'
    BY <1>3, <1>5 DEF AuditInv, Ordered
  <2>2. (hand # NoCommand => Asked(hand))'
    BY <1>4, <1>5 DEF AuditInv, Ordered
  <2>3. CASE queue' = queue
    <3>1. \A i \in 1..Len(queue) : Asked(queue[i])'
      BY <1>3, <1>5 DEF AuditInv, Ordered
    <3> QED
      BY <2>2, <2>3, <3>1 DEF Ordered, Asked
  <2>4. CASE \E m \in Command : m.by = c /\ queue' = Append(queue, m) /\ Asked(m)'
    <3>1. PICK m \in Command : m.by = c /\ queue' = Append(queue, m) /\ Asked(m)'
      BY <2>4
    <3>2. queue \in Seq(Command)
      BY <1>1 DEF WriterTypeOK
    <3>3. /\ Len(queue) \in Nat /\ Len(queue') = Len(queue) + 1
          /\ \A i \in 1..Len(queue) : queue'[i] = queue[i]
          /\ queue'[Len(queue) + 1] = m
      BY <3>1, <3>2, AppendProperties, LenProperties
    <3>4. ASSUME NEW i \in 1..Len(queue'), NEW k, k = queue'[i]
          PROVE  Asked(k)'
      <4>1. CASE i = Len(queue) + 1
        BY <3>1, <3>3, <3>4, <4>1
      <4>2. CASE i # Len(queue) + 1
        <5>1. i \in 1..Len(queue) /\ k = queue[i]
          BY <3>3, <3>4, <4>2
        <5>2. k.by \in Clients \ {c} /\ Asked(k)
          BY <1>3, <5>1 DEF AuditInv, Ordered
        <5> QED
          BY <1>5, <5>2
      <4> QED
        BY <4>1, <4>2
    <3>5. (\A i \in 1..Len(queue) : Asked(queue[i]))'
      BY <3>4 DEF Asked
    <3> QED
      BY <2>2, <3>5 DEF Ordered
  <2> QED
    BY <2>3, <2>4
<1>7. Kept'
  BY DEF AuditInv, Kept
<1>8. \A d \in Clients \ {c}, x \in Entities : Owes(d, x)' <=> Owes(d, x)
  BY DEF Owes, Won, InHand
<1>9. Covered'
  <2> SUFFICES ASSUME NEW x \in Entities PROVE (audited[x] + Cardinality(Owing(x)) <= Writes(x))'
    BY DEF Covered
  <2> DEFINE A == Owing(x)
             B == Owing(x)'
  <2>1. IsFiniteSet(A) /\ Cardinality(A) \in Nat /\ audited[x] \in Nat /\ Writes(x) \in Nat
        /\ audited[x] + Cardinality(A) <= Writes(x) /\ Writes(x)' = Writes(x)
    BY <1>1, OwingFacts, WritesFacts DEF AuditInv, Covered, Writes
  <2>2. \A d : d \in A <=> d \in Clients /\ Owes(d, x)
    BY DEF Owing
  <2>3. \A d : d \in B <=> d \in Clients /\ Owes(d, x)'
    BY DEF Owing
  <2> HIDE DEF A, B
  <2>4. CASE audited' = audited /\ \A y \in Entities : Owes(c, y)' => Owes(c, y)
    <3>1. B \in SUBSET A
      BY <1>8, <2>2, <2>3, <2>4
    <3>2. Cardinality(B) <= Cardinality(A) /\ Cardinality(B) \in Nat
      BY <2>1, <3>1, FS_Subset, FS_CardinalityType
    <3>3. audited'[x] + Cardinality(B) <= Writes(x)'
      BY <2>1, <2>4, <3>2
    <3> QED
      BY <3>3 DEF B
  <2>5. CASE \E z \in Entities : /\ Owes(c, z) /\ \A y \in Entities : ~Owes(c, y)'
                                /\ audited' = [audited EXCEPT ![z] = audited[z] + 1]
    <3>1. PICK z \in Entities : /\ Owes(c, z) /\ \A y \in Entities : ~Owes(c, y)'
                               /\ audited' = [audited EXCEPT ![z] = audited[z] + 1]
      BY <2>5
    <3>2. B = A \ {c}
      BY <1>8, <2>2, <2>3, <3>1
    <3>3. Cardinality(B) = IF c \in A THEN Cardinality(A) - 1 ELSE Cardinality(A)
      BY <2>1, <3>2, FS_RemoveElement
    <3>4. x = z => c \in A
      BY <2>2, <3>1
    <3>5. audited'[x] = IF x = z THEN audited[x] + 1 ELSE audited[x]
      BY <1>1, <3>1
    <3>6. audited'[x] + Cardinality(B) <= Writes(x)'
      BY <2>1, <3>3, <3>4, <3>5
    <3> QED
      BY <3>6 DEF B
  <2> QED
    BY <2>4, <2>5
<1> QED
  BY <1>6, <1>7, <1>9 DEF AuditInv

\* What is owed by a request that has no answer yet: nothing, unless it has
\* written already.
LEMMA OwesNothing ==
  ASSUME NEW c \in Clients, ~InHand(c), UNCHANGED <<hand, done>>,
         \/ req'[c].pc \in {"idle", "check", "walk"}
         \/ req'[c].pc \in {"wait", "apply"} /\ future'[c] = "pending"
  PROVE  \A x \in Entities : ~Owes(c, x)'
BY DEF Owes, Won, InHand

\* Where a step of c's request leads, everybody else staying where they are.
LEMMA GoesTo ==
  ASSUME IInv, NEW c \in Clients, NEW r, Go(c, r)
  PROVE  req'[c] = r /\ \A d \in Clients \ {c} : req'[d] = req[d]
BY DEF IInv, Side, Go

\* A client submits a command that does what its request is about.
LEMMA EnqueuedAsked ==
  ASSUME IInv, NEW c \in Clients, NEW op \in NodeOps \cup EdgeOps, NEW x \in Entities, Fits(op, x),
         NEW l \in Labels, Enqueue(c, op, x, l),
         \/ req'[c].pc = "wait" /\ req'[c].op = op /\ req'[c].on = x
         \/ req'[c].pc = "apply" /\ \A e \in req'[c].entry : e.on = x
  PROVE  /\ \E m \in Command : m.by = c /\ queue' = Append(queue, m) /\ Asked(m)'
         /\ UNCHANGED <<row, history, stamp, hand, done>> /\ future'[c] = "pending"
         /\ \A d \in Clients \ {c} : future'[d] = future[d]
<1> DEFINE m == [op |-> op, on |-> x, label |-> l, by |-> c]
<1>1. m \in Command /\ m.op = op /\ m.on = x /\ m.by = c
  BY CommandMade
<1>2. queue' = Append(queue, m) /\ UNCHANGED <<row, history, stamp, hand, done>>
  BY DEF Enqueue, rowVars
<1>3. future' = [future EXCEPT ![c] = "pending"] /\ future \in [Clients -> Outcome]
  BY DEF Enqueue, Resolve, IInv, WInv, WriterTypeOK
<1> HIDE DEF m
<1>4. Asked(m)'
  BY <1>1 DEF Asked
<1> QED
  BY <1>1, <1>2, <1>3, <1>4

\* A step that leaves the writer alone, or takes an answer.
LEMMA WriterRests ==
  ASSUME IInv, NEW c \in Clients,
         \/ UNCHANGED writerVars
         \/ Await(c) /\ UNCHANGED <<rowVars, memoryVars, queue, hand, done>>
  PROVE  /\ UNCHANGED <<row, history, stamp, queue, hand, done>>
         /\ \A d \in Clients \ {c} : future'[d] = future[d]
         /\ future'[c] = future[c] \/ future'[c] = "none"
<1>1. future \in [Clients -> Outcome]
  BY DEF IInv, WInv, WriterTypeOK
<1> QED
  BY <1>1 DEF Await, writerVars, rowVars

\* A request outside "wait" and "apply" awaits nothing.
LEMMA AwaitsNothing ==
  ASSUME IInv, NEW c \in Clients, req[c].pc \notin {"wait", "apply"}
  PROVE  future[c] = "none" /\ ~InHand(c)
BY DEF IInv, Served

LEMMA SubmitAudit ==
  ASSUME IInv, AuditInv, NEW c \in Clients, NEW op \in NodeOps \cup EdgeOps,
         NEW x \in Entities, Fits(op, x), NEW l \in Labels, Submit(c, op, x, l)
  PROVE  AuditInv'
<1> DEFINE r == [Idle EXCEPT !.pc = "wait", !.op = op, !.on = x]
<1>1. r.pc = "wait" /\ r.op = op /\ r.on = x
  BY DEF Idle
<1>2. req[c].pc = "idle" /\ Go(c, r) /\ Enqueue(c, op, x, l) /\ UNCHANGED audited
  BY DEF Submit, Begin, stackVars
<1> HIDE DEF r
<1>3. req'[c] = r /\ \A d \in Clients \ {c} : req'[d] = req[d]
  BY <1>2, GoesTo
<1>4. future[c] # "pending" /\ ~InHand(c)
  BY <1>2, AwaitsNothing
<1>5. /\ \E m \in Command : m.by = c /\ queue' = Append(queue, m) /\ Asked(m)'
      /\ UNCHANGED <<row, history, hand, done>> /\ future'[c] = "pending"
      /\ \A d \in Clients \ {c} : future'[d] = future[d]
  BY <1>1, <1>2, <1>3, EnqueuedAsked
<1>6. \A y \in Entities : ~Owes(c, y)'
  BY <1>1, <1>3, <1>4, <1>5, OwesNothing
<1> QED
  BY <1>2, <1>3, <1>4, <1>5, <1>6, AuditMoves

LEMMA AskAudit ==
  ASSUME IInv, AuditInv, NEW c \in Clients, NEW op, NEW x, AskGraph(c, op, x)
  PROVE  AuditInv'
<1> DEFINE r == [Idle EXCEPT !.pc = "check", !.op = op, !.on = x]
<1>1. r.pc = "check"
  BY DEF Idle
<1>2. req[c].pc = "idle" /\ Go(c, r) /\ UNCHANGED writerVars /\ UNCHANGED audited
  BY DEF AskGraph, Begin, stackVars
<1> HIDE DEF r
<1>3. req'[c] = r /\ \A d \in Clients \ {c} : req'[d] = req[d]
  BY <1>2, GoesTo
<1>4. future[c] # "pending" /\ ~InHand(c)
  BY <1>2, AwaitsNothing
<1>5. /\ UNCHANGED <<row, history, queue, hand, done>>
      /\ \A d \in Clients \ {c} : future'[d] = future[d]
  BY <1>2, WriterRests
<1>6. \A y \in Entities : ~Owes(c, y)'
  BY <1>1, <1>3, <1>4, <1>5, OwesNothing
<1> QED
  BY <1>2, <1>3, <1>4, <1>5, <1>6, AuditMoves

LEMMA LoadAudit ==
  ASSUME IInv, AuditInv, NEW c \in Clients, Load(c)
  PROVE  AuditInv'
<1>1. UNCHANGED <<row, history, queue, hand, done, future, req, audited>>
  BY DEF Load, StartLoad, LoadEdges, Install, rowVars, requestVars
<1>2. \A d \in Clients, x \in Entities : Owes(d, x)' <=> Owes(d, x)
  BY <1>1 DEF Owes, Won, InHand
<1>3. \A d \in Clients \ {c} : req'[d] = req[d] /\ future'[d] = future[d]
  BY <1>1
<1>4. future[c] # "pending"
  BY DEF Load, IInv, Served
<1> QED
  BY <1>1, <1>2, <1>3, <1>4, AuditMoves

LEMMA ReadGraphAudit ==
  ASSUME IInv, AuditInv, NEW c \in Clients, ReadGraph(c)
  PROVE  AuditInv'
<1>1. req[c].pc = "check" /\ UNCHANGED audited
  BY DEF ReadGraph, stackVars
<1>2. future[c] # "pending" /\ ~InHand(c)
  BY <1>1, AwaitsNothing
<1>3. CASE req[c].op = "createEdge" /\ EndsInCopy(req[c].on)
  <2> DEFINE r == [req[c] EXCEPT !.pc = "wait"]
  <2>1. Go(c, r) /\ Enqueue(c, "createEdge", req[c].on, AnyLabel)
    BY <1>3 DEF ReadGraph
  <2>2. r.pc = "wait" /\ r.op = "createEdge" /\ r.on = req[c].on /\ req[c].on \in Entities
    BY <1>3, RequestShape DEF IInv, Requests
  <2>3. AnyLabel \in Labels /\ Fits("createEdge", req[c].on) /\ "createEdge" \in NodeOps \cup EdgeOps
    BY <1>3, RequestShape DEF IInv, RequestOK, AnyLabel, EdgeOps
  <2> HIDE DEF r
  <2>4. req'[c] = r /\ \A d \in Clients \ {c} : req'[d] = req[d]
    BY <2>1, GoesTo
  <2>5. /\ \E m \in Command : m.by = c /\ queue' = Append(queue, m) /\ Asked(m)'
        /\ UNCHANGED <<row, history, hand, done>> /\ future'[c] = "pending"
        /\ \A d \in Clients \ {c} : future'[d] = future[d]
    BY <2>1, <2>2, <2>3, <2>4, EnqueuedAsked
  <2>6. \A y \in Entities : ~Owes(c, y)'
    BY <1>2, <2>2, <2>4, <2>5, OwesNothing
  <2> QED
    BY <1>1, <1>2, <2>4, <2>5, <2>6, AuditMoves
<1>4. CASE ~(req[c].op = "createEdge" /\ EndsInCopy(req[c].on))
  <2>1. Go(c, Idle) /\ UNCHANGED writerVars /\ Idle.pc = "idle"
    BY <1>4 DEF ReadGraph, End, Go, Idle
  <2>2. req'[c] = Idle /\ \A d \in Clients \ {c} : req'[d] = req[d]
    BY <2>1, GoesTo
  <2>3. /\ UNCHANGED <<row, history, queue, hand, done>>
        /\ \A d \in Clients \ {c} : future'[d] = future[d]
    BY <2>1, WriterRests
  <2>4. \A y \in Entities : ~Owes(c, y)'
    BY <1>2, <2>1, <2>2, <2>3, OwesNothing
  <2> QED
    BY <1>1, <1>2, <2>2, <2>3, <2>4, AuditMoves
<1> QED
  BY <1>3, <1>4

LEMMA ReplyAudit ==
  ASSUME IInv, AuditInv, NEW c \in Clients, Reply(c)
  PROVE  AuditInv'
<1> DEFINE s == [req[c] EXCEPT !.pc = IF req[c].op \in {"deleteNode", "deleteEdge"}
                                        THEN "reread" ELSE "insert"]
<1>1. /\ req[c].pc = "wait" /\ future[c] # "pending" /\ Await(c) /\ UNCHANGED audited
      /\ UNCHANGED <<rowVars, memoryVars, queue, hand, done>>
  BY DEF Reply, Answered, stackVars
<1>2. \/ Go(c, s) /\ Succeeded(c) /\ req[c].op \in Undoable
      \/ Go(c, Idle)
  BY DEF Reply, Go, End
<1>3. s.pc \in {"reread", "insert"} /\ s.on = req[c].on /\ Idle.pc = "idle"
  BY RequestShape DEF IInv, Requests, Idle
<1> HIDE DEF s
<1>4. PICK r : /\ Go(c, r)
               /\ \/ /\ r.pc \in {"reread", "insert"} /\ r.on = req[c].on
                     /\ Succeeded(c) /\ req[c].op \in Undoable
                  \/ r.pc = "idle"
  BY <1>2, <1>3
<1>5. req'[c] = r /\ \A d \in Clients \ {c} : req'[d] = req[d]
  BY <1>4, GoesTo
<1>6. /\ UNCHANGED <<row, history, queue, hand, done>>
      /\ \A d \in Clients \ {c} : future'[d] = future[d]
  BY <1>1, WriterRests
<1>7. \A x \in Entities : Owes(c, x)' => Owes(c, x)
  BY <1>1, <1>4, <1>5 DEF Owes, Won, Succeeded
<1> QED
  BY <1>1, <1>5, <1>6, <1>7, AuditMoves

\* A request that has no command goes on, and owes what it owed or nothing.
LEMMA MovesAudit ==
  ASSUME IInv, AuditInv, NEW c \in Clients, NEW r, Go(c, r), UNCHANGED <<writerVars, audited>>,
         req[c].pc \notin {"wait", "apply"},
         \/ r.pc \in {"idle", "check", "walk"}
         \/ /\ req[c].pc \in {"reread", "insert", "push"} /\ r.on = req[c].on
            /\ r.pc \in {"reread", "insert", "push"}
  PROVE  AuditInv'
<1>1. req'[c] = r /\ \A d \in Clients \ {c} : req'[d] = req[d]
  BY GoesTo
<1>2. /\ UNCHANGED <<row, history, queue, hand, done>>
      /\ \A d \in Clients \ {c} : future'[d] = future[d]
  BY WriterRests
<1>3. future[c] # "pending"
  BY AwaitsNothing
<1>4. \A x \in Entities : Owes(c, x)' => Owes(c, x)
  BY <1>1 DEF Owes
<1> QED
  BY <1>1, <1>2, <1>3, <1>4, AuditMoves

LEMMA OwnAudit ==
  ASSUME IInv, AuditInv, NEW c \in Clients,
         ReRead(c) \/ Insert(c) \/ StartPop(c) \/ DropStale(c) \/ EndPop(c)
  PROVE  AuditInv'
<1>1. Idle.pc = "idle"
  BY DEF Idle
<1>2. CASE ReRead(c)
  <2>1. PICK r : r = [req[c] EXCEPT !.pc = "insert", !.base = stamp[req[c].on]]
    OBVIOUS
  <2>2. r.pc = "insert" /\ r.on = req[c].on
    BY <2>1, RequestShape DEF IInv, Requests
  <2> QED
    BY <1>2, <2>1, <2>2, MovesAudit DEF ReRead, stackVars
<1>3. CASE Insert(c)
  <2>1. PICK e, trim : Go(c, [req[c] EXCEPT !.pc = "push", !.entry = {e}, !.trim = trim])
    BY <1>3 DEF Insert
  <2>2. PICK r : r = [req[c] EXCEPT !.pc = "push", !.entry = {e}, !.trim = trim]
    OBVIOUS
  <2>3. r.pc = "push" /\ r.on = req[c].on
    BY <2>2, RequestShape DEF IInv, Requests
  <2>4. Go(c, r) /\ req[c].pc = "insert" /\ UNCHANGED <<writerVars, audited>>
    BY <1>3, <2>1, <2>2 DEF Insert
  <2> QED
    BY <2>3, <2>4, MovesAudit
<1>4. CASE StartPop(c)
  <2>1. PICK r : r = [Idle EXCEPT !.pc = "walk", !.op = "pop", !.todo = Active(who[c])]
    OBVIOUS
  <2>2. r.pc = "walk"
    BY <2>1 DEF Idle
  <2> QED
    BY <1>4, <2>1, <2>2, MovesAudit DEF StartPop, Begin, stackVars
<1>5. CASE DropStale(c)
  <2>1. PICK e \in req[c].todo : req[c].pc = "walk" /\ Drop(c, e) /\ UNCHANGED <<writerVars, audited>>
    BY <1>5 DEF DropStale, stackVars
  <2>2. e \in Entries
    BY RequestShape DEF IInv
  <2>3. PICK r \in Requests : Go(c, r) /\ r.pc \in {"walk", "idle"}
    BY <2>1, <2>2, DropMoves DEF IInv
  <2> QED
    BY <2>1, <2>3, MovesAudit
<1>6. CASE EndPop(c)
  BY <1>1, <1>6, MovesAudit DEF EndPop, End, Go
<1> QED
  BY <1>2, <1>3, <1>4, <1>5, <1>6

\* An entry is pushed and what it records is audited, once.
LEMMA PushAudit ==
  ASSUME IInv, AuditInv, NEW c \in Clients, Push(c)
  PROVE  AuditInv'
<1>1. req[c].pc = "push" /\ Go(c, Idle) /\ UNCHANGED writerVars /\ Idle.pc = "idle"
      /\ audited' = [audited EXCEPT ![req[c].on] = audited[req[c].on] + 1]
  BY DEF Push, End, Go, Idle
<1>2. req'[c] = Idle /\ \A d \in Clients \ {c} : req'[d] = req[d]
  BY <1>1, GoesTo
<1>3. /\ UNCHANGED <<row, history, queue, hand, done>>
      /\ \A d \in Clients \ {c} : future'[d] = future[d]
  BY <1>1, WriterRests
<1>4. future[c] # "pending" /\ ~InHand(c)
  BY <1>1, AwaitsNothing
<1>5. \A x \in Entities : ~Owes(c, x)'
  BY <1>1, <1>2, <1>3, <1>4, OwesNothing
<1>6. req[c].on \in Entities /\ Owes(c, req[c].on)
  BY <1>1, RequestShape DEF IInv, Owes
<1> QED
  BY <1>1, <1>2, <1>3, <1>4, <1>5, <1>6, AuditMoves

LEMMA StartInverseAudit ==
  ASSUME IInv, AuditInv, NEW c \in Clients, StartInverse(c)
  PROVE  AuditInv'
<1>1. PICK e \in req[c].todo : /\ req[c].pc = "walk"
                              /\ Go(c, [req[c] EXCEPT !.pc = "apply", !.entry = {e}])
                              /\ Enqueue(c, InverseOp[e.op], e.on, AnyLabel)
                              /\ UNCHANGED audited
  BY DEF StartInverse, stackVars
<1>2. PICK r : r = [req[c] EXCEPT !.pc = "apply", !.entry = {e}]
  OBVIOUS
<1>3. r.pc = "apply" /\ r.entry = {e}
  BY <1>2, RequestShape DEF IInv, Requests
<1>4. e \in Entries /\ e.op \in Undoable /\ Fits(e.op, e.on) /\ e.on \in Entities
  BY RequestShape, EntryShape DEF IInv, RequestOK, FitsAll
<1>5. /\ InverseOp[e.op] \in NodeOps \cup EdgeOps /\ Fits(InverseOp[e.op], e.on)
      /\ AnyLabel \in Labels
  BY <1>4, InverseFits DEF AnyLabel
<1>6. req'[c] = r /\ \A d \in Clients \ {c} : req'[d] = req[d]
  BY <1>1, <1>2, GoesTo
<1>7. future[c] # "pending" /\ ~InHand(c)
  BY <1>1, AwaitsNothing
<1>8. /\ \E m \in Command : m.by = c /\ queue' = Append(queue, m) /\ Asked(m)'
      /\ UNCHANGED <<row, history, hand, done>> /\ future'[c] = "pending"
      /\ \A d \in Clients \ {c} : future'[d] = future[d]
  BY <1>1, <1>3, <1>4, <1>5, <1>6, EnqueuedAsked
<1>9. \A y \in Entities : ~Owes(c, y)'
  BY <1>3, <1>6, <1>7, <1>8, OwesNothing
<1> QED
  BY <1>1, <1>6, <1>7, <1>8, <1>9, AuditMoves

\* The inverse is audited if it was applied, and only then.
LEMMA EndInverseAudit ==
  ASSUME IInv, AuditInv, NEW c \in Clients, EndInverse(c)
  PROVE  AuditInv'
<1>1. PICK e \in req[c].entry :
        /\ req[c].pc = "apply" /\ future[c] # "pending" /\ Await(c)
        /\ \/ /\ \/ future[c] = "ok" /\ audited' = [audited EXCEPT ![e.on] = audited[e.on] + 1]
                 \/ UNCHANGED audited
              /\ End(c)
           \/ Drop(c, e) /\ UNCHANGED audited
        /\ UNCHANGED <<rowVars, memoryVars, queue, hand, done>>
  BY DEF EndInverse, Answered
<1>2. e \in Entries /\ e.on \in Entities
  BY RequestShape, EntryShape DEF IInv
<1>3. PICK r \in Requests : Go(c, r) /\ r.pc \in {"walk", "idle"}
  <2>1. CASE End(c)
    <3>1. Go(c, Idle) /\ Idle.pc = "idle"
      BY <2>1 DEF End, Go, Idle
    <3> QED
      BY <3>1, IdleShape
  <2>2. CASE Drop(c, e)
    BY <1>2, <2>2, DropMoves DEF IInv
  <2> QED
    BY <1>1, <2>1, <2>2
<1>4. req'[c] = r /\ \A d \in Clients \ {c} : req'[d] = req[d]
  BY <1>3, GoesTo
<1>5. /\ UNCHANGED <<row, history, queue, hand, done>>
      /\ \A d \in Clients \ {c} : future'[d] = future[d]
  BY <1>1, WriterRests
<1>6. ~InHand(c)
  BY <1>1 DEF IInv, Served
<1>7. \A y \in Entities : ~Owes(c, y)'
  BY <1>3, <1>4, <1>5, <1>6, OwesNothing
<1>8. future[c] = "ok" => Owes(c, e.on)
  BY <1>1 DEF Owes, Won
<1>9. \/ audited' = audited
      \/ Owes(c, e.on) /\ audited' = [audited EXCEPT ![e.on] = audited[e.on] + 1]
  BY <1>1, <1>8
<1> QED
  BY <1>1, <1>2, <1>4, <1>5, <1>7, <1>9, AuditMoves

\* A handler fails with no success, or commits rows of which the target is one;
\* if any row changes, that of the target does.
LEMMA HandlerCommits ==
  ASSUME WInv, Handler
  PROVE  /\ hand # NoCommand /\ ~done /\ hand.on \in Entities
         /\ \/ \E why \in Outcome \ {"none", "pending", "ok"} : Fail(why)
            \/ \E S \in SUBSET Entities : \E new :
                 /\ Commit(S, new) /\ hand.on \in S /\ \A x \in S : new[x] \in Value
                 /\ row' # row => new[hand.on] # row[hand.on]
<1>1. hand # NoCommand /\ ~done
  BY DEF Handler, HandleCreateNode, HandleUpdateNode, HandleSoftDeleteNode, HandleCreateEdge,
         HandleSoftDeleteEdge, HandleUndoNode, HandleUndoEdge, Handling
<1>2. hand.on \in Entities /\ {hand.on} \in SUBSET Entities /\ hand.label \in Labels
  BY <1>1, CommandShape DEF WInv, WriterTypeOK
<1>3. {"notFound", "noHistory", "duplicate", "error"} \subseteq Outcome \ {"none", "pending", "ok"}
  BY DEF Outcome
<1>4. ASSUME NEW v \in Value, Commit({hand.on}, On(v))
      PROVE  \E S \in SUBSET Entities : \E new :
               /\ Commit(S, new) /\ hand.on \in S /\ \A x \in S : new[x] \in Value
               /\ row' # row => new[hand.on] # row[hand.on]
  <2>1. PICK new : new = On(v)
    OBVIOUS
  <2>2. Commit({hand.on}, new) /\ new[hand.on] = v /\ \A x \in {hand.on} : new[x] \in Value
    BY <1>4, <2>1 DEF On
  <2>3. new[hand.on] = row[hand.on] => row' = row
    <3>1. row \in [Entities -> Value \cup {NoRow}]
      BY DEF WInv, WriterTypeOK
    <3>2. row' = [x \in Entities |-> IF x \in {hand.on} THEN new[x] ELSE row[x]]
      BY <2>2 DEF Commit, Changed
    <3> QED
      BY <3>1, <3>2
  <2> QED
    BY <1>2, <2>2, <2>3
<1>5. [label |-> hand.label, live |-> TRUE] \in Value
  BY <1>2 DEF Value
<1>6. CASE HandleCreateNode \/ HandleUpdateNode \/ HandleCreateEdge
  <2>1. \/ Commit({hand.on}, On([label |-> hand.label, live |-> TRUE]))
        \/ Fail("notFound") \/ Fail("duplicate")
    BY <1>6 DEF HandleCreateNode, HandleUpdateNode, HandleCreateEdge
  <2> QED
    BY <1>1, <1>2, <1>3, <1>4, <1>5, <2>1
<1>7. CASE HandleSoftDeleteEdge
  <2>1. \/ Live(hand.on) /\ Commit({hand.on}, On([row[hand.on] EXCEPT !.live = FALSE]))
        \/ Fail("notFound")
    BY <1>7 DEF HandleSoftDeleteEdge
  <2>2. Live(hand.on) => [row[hand.on] EXCEPT !.live = FALSE] \in Value
    BY <1>2, MarkedDead DEF WInv, WriterTypeOK, Live
  <2> QED
    BY <1>1, <1>2, <1>3, <1>4, <2>1, <2>2
<1>8. CASE HandleUndoNode \/ HandleUndoEdge
  <2>1. \/ Commit({hand.on}, On(Prior(hand.on))) /\ history[hand.on] # <<>>
        \/ Fail("notFound") \/ Fail("noHistory") \/ Fail("error")
    BY <1>8 DEF HandleUndoNode, HandleUndoEdge, PutBack
  <2>2. history[hand.on] # <<>> => Prior(hand.on) \in Value
    <3>1. history[hand.on] \in Seq(Value)
      BY <1>2 DEF WInv, WriterTypeOK
    <3> QED
      BY <3>1, LenProperties, EmptySeq DEF Prior
  <2> QED
    BY <1>1, <1>2, <1>3, <1>4, <2>1, <2>2
<1>9. CASE HandleSoftDeleteNode
  <2> DEFINE gone == {hand.on} \cup Incident(hand.on)
             new  == [x \in gone |-> [row[x] EXCEPT !.live = FALSE]]
  <2>1. Fail("notFound") \/ (Live(hand.on) /\ Commit(gone, new))
    BY <1>9 DEF HandleSoftDeleteNode
  <2>2. gone \in SUBSET Entities /\ hand.on \in gone /\ \A x \in gone \ {hand.on} : Live(x)
    BY <1>2 DEF Incident, Touches, Entities
  <2>3. ASSUME Live(hand.on)
        PROVE  (\A x \in gone : new[x] \in Value) /\ new[hand.on] # row[hand.on]
    <3>1. \A x \in gone : row[x] \in Value /\ row[x].live
      BY <2>2, <2>3 DEF WInv, WriterTypeOK, Live
    <3>2. \A x \in gone : new[x] \in Value /\ new[x].live = FALSE
      BY <3>1, MarkedDead
    <3> HIDE DEF new
    <3> QED
      BY <2>2, <3>1, <3>2
  <2> HIDE DEF new, gone
  <2> QED
    BY <1>1, <1>2, <1>3, <2>1, <2>2, <2>3
<1> QED
  BY <1>6, <1>7, <1>8, <1>9 DEF Handler

\* A commit is one write more for what it commits, and no row goes.
LEMMA CommitWrites ==
  ASSUME WInv, Kept, NEW S \in SUBSET Entities, NEW new, \A x \in S : new[x] \in Value, Commit(S, new)
  PROVE  /\ Kept'
         /\ \A x \in Entities : Writes(x)' = IF x \in S THEN Writes(x) + 1 ELSE Writes(x)
<1>1. /\ \A x \in Entities : row'[x] = IF x \in S THEN new[x] ELSE row[x]
      /\ \A x \in Entities : row[x] \in Value \cup {NoRow} /\ history[x] \in Seq(Value)
  BY CommitFacts DEF WInv, WriterTypeOK
<1>2. Kept'
  BY <1>1 DEF Kept
<1>3. ASSUME NEW x \in Entities
      PROVE  Writes(x)' = IF x \in S THEN Writes(x) + 1 ELSE Writes(x)
  <2>1. Len(history[x]) \in Nat
    BY <1>1, LenProperties
  <2>2. CASE x \in Recorded(S)
    <3>1. x \in S /\ row[x] # NoRow /\ row'[x] # NoRow /\ history'[x] = Append(history[x], row[x])
      BY <1>1, <2>2 DEF Recorded, Commit
    <3>2. Len(history'[x]) = Len(history[x]) + 1
      BY <1>1, <3>1, AppendProperties
    <3>3. PICK k \in Nat : k = IF Start[x] = NoRow THEN 1 ELSE 0
      OBVIOUS
    <3>4. Writes(x) = Len(history[x]) + k /\ Writes(x)' = Len(history'[x]) + k
      BY <3>1, <3>3 DEF Writes
    <3> QED
      BY <2>1, <3>1, <3>2, <3>4
  <2>3. CASE x \in S \ Recorded(S)
    <3>1. x \in S /\ row[x] = NoRow /\ row'[x] # NoRow /\ history'[x] = history[x] /\ Start[x] = NoRow
      BY <1>1, <2>3 DEF Recorded, Commit, Kept
    <3> QED
      BY <2>1, <3>1 DEF Writes
  <2>4. CASE x \notin S
    <3>1. row'[x] = row[x] /\ history'[x] = history[x]
      BY <1>1, <2>4 DEF Recorded, Commit
    <3> QED
      BY <2>4, <3>1 DEF Writes
  <2> QED
    BY <2>2, <2>3, <2>4
<1> QED
  BY <1>2, <1>3

\* If nobody owes what was not owed, and nothing is audited, what is covered stays so.
LEMMA FewerOwe ==
  ASSUME IInv, Covered, UNCHANGED audited,
         \A x \in Entities : Writes(x)' = Writes(x) /\ \A c \in Clients : Owes(c, x)' => Owes(c, x)
  PROVE  Covered'
<1> SUFFICES ASSUME NEW x \in Entities PROVE (audited[x] + Cardinality(Owing(x)) <= Writes(x))'
  BY DEF Covered
<1> DEFINE A == Owing(x)
           B == Owing(x)'
<1>1. /\ IsFiniteSet(A) /\ Cardinality(A) \in Nat /\ audited[x] \in Nat /\ Writes(x) \in Nat
      /\ audited[x] + Cardinality(A) <= Writes(x) /\ Writes(x)' = Writes(x)
  BY OwingFacts, WritesFacts DEF Covered, IInv, Side, WInv
<1>2. B \in SUBSET A
  BY DEF Owing
<1> HIDE DEF A, B
<1>3. Cardinality(B) <= Cardinality(A) /\ Cardinality(B) \in Nat
  BY <1>1, <1>2, FS_Subset, FS_CardinalityType
<1>4. audited'[x] + Cardinality(B) <= Writes(x)'
  BY <1>1, <1>3
<1> QED
  BY <1>4 DEF B

\* What was asked is still asked when the requests are where they were.
LEMMA StillAsked ==
  ASSUME SameRequests, NEW m, m.by \in Clients, Asked(m)
  PROVE  Asked(m)'
BY DEF SameRequests, Asked

\* The consumer takes a command: nobody owes anything else for it.
LEMMA TakeAudit ==
  ASSUME IInv, AuditInv, SameRequests, Take, UNCHANGED audited
  PROVE  AuditInv'
<1>1. /\ hand = NoCommand /\ queue # <<>> /\ hand' = Head(queue) /\ queue' = Tail(queue)
      /\ done' = FALSE /\ UNCHANGED <<row, history, future>>
  BY DEF Take, rowVars
<1>2. queue \in Seq(Command)
  BY DEF IInv, WInv, WriterTypeOK
<1>3. /\ Len(queue) \in Nat \ {0} /\ Head(queue) = queue[1]
      /\ Len(Tail(queue)) = Len(queue) - 1
      /\ \A i \in 1..Len(Tail(queue)) : Tail(queue)[i] = queue[i + 1]
  BY <1>1, <1>2, LenProperties, EmptySeq, HeadTailProperties
<1>4. \A i \in 1..Len(queue) : queue[i].by \in Clients /\ Asked(queue[i])
  BY QueuedShape DEF IInv, WInv, AuditInv, Ordered
<1>5. \A m : m.by \in Clients /\ Asked(m) => Asked(m)'
  BY StillAsked
<1>6. Ordered'
  <2>1. ASSUME NEW i \in 1..Len(queue'), NEW m, m = queue'[i]
        PROVE  Asked(m)'
    <3>1. i + 1 \in 1..Len(queue) /\ m = queue[i + 1]
      BY <1>1, <1>3, <2>1
    <3> QED
      BY <1>4, <1>5, <3>1
  <2>2. ASSUME NEW m, m = hand'
        PROVE  Asked(m)'
    <3>1. 1 \in 1..Len(queue) /\ m = queue[1]
      BY <1>1, <1>3, <2>2
    <3> QED
      BY <1>4, <1>5, <3>1
  <2> QED
    BY <2>1, <2>2 DEF Ordered, Asked
<1>7. Kept'
  BY <1>1 DEF AuditInv, Kept
<1>8. \A x \in Entities : Writes(x)' = Writes(x) /\ \A c \in Clients : Owes(c, x)' => Owes(c, x)
  BY <1>1 DEF Writes, Owes, Won, InHand, SameRequests
<1> QED
  BY <1>6, <1>7, <1>8, FewerOwe DEF AuditInv

\* The client of the command in hand is answered: with success if it is committed.
LEMMA AnsweredAudit ==
  ASSUME IInv, AuditInv, SameRequests, UNCHANGED audited, hand # NoCommand,
         NEW how \in Outcome \ {"none", "pending"}, how = "ok" => done,
         Resolve(hand.by, how), hand' = NoCommand, UNCHANGED <<row, history, queue>>
  PROVE  AuditInv'
<1>1. hand.by \in Clients /\ future \in [Clients -> Outcome]
  BY QueuedShape DEF IInv, WInv, WriterTypeOK
<1>2. future' = [future EXCEPT ![hand.by] = how]
  BY DEF Resolve
<1>3. Ordered'
  <2>1. \A i \in 1..Len(queue) : queue[i].by \in Clients /\ Asked(queue[i])
    BY QueuedShape DEF IInv, WInv, AuditInv, Ordered
  <2>2. ASSUME NEW i \in 1..Len(queue), NEW m, m = queue[i] PROVE Asked(m)'
    BY <2>1, <2>2, StillAsked
  <2> QED
    BY <2>2 DEF Ordered, Asked
<1>4. Kept'
  BY DEF AuditInv, Kept
<1>5. ASSUME NEW c \in Clients, Won(c)'
      PROVE  Won(c)
  <2>1. future'[c] = "ok"
    BY <1>5 DEF Won, InHand
  <2> QED
    BY <1>1, <1>2, <2>1 DEF Won, InHand
<1>6. \A x \in Entities : Writes(x)' = Writes(x) /\ \A c \in Clients : Owes(c, x)' => Owes(c, x)
  BY <1>5 DEF Writes, Owes, SameRequests
<1> QED
  BY <1>3, <1>4, <1>6, FewerOwe DEF AuditInv

\* A commit: its client owes an audit entry of the target, which has a write more.
LEMMA CommittedAudit ==
  ASSUME IInv, AuditInv, SameRequests, UNCHANGED audited, hand # NoCommand, ~done,
         NEW S \in SUBSET Entities, NEW new, \A x \in S : new[x] \in Value, Commit(S, new),
         hand.on \in S
  PROVE  AuditInv'
<1>1. PICK c \in Clients : c = hand.by
  BY QueuedShape DEF IInv, WInv
<1>2. UNCHANGED <<queue, hand, future>> /\ Asked(hand)
  BY DEF Commit, AuditInv, Ordered
<1>3. /\ Kept'
      /\ \A x \in Entities : Writes(x)' = IF x \in S THEN Writes(x) + 1 ELSE Writes(x)
  BY CommitWrites DEF AuditInv, IInv
<1>4. Ordered'
  <2>1. \A i \in 1..Len(queue) : queue[i].by \in Clients /\ Asked(queue[i])
    BY QueuedShape DEF IInv, WInv, AuditInv, Ordered
  <2>2. ASSUME NEW m, m.by \in Clients, Asked(m) PROVE Asked(m)'
    BY <2>2, StillAsked
  <2>3. ASSUME NEW i \in 1..Len(queue), NEW m, m = queue[i] PROVE Asked(m)'
    BY <2>1, <2>2, <2>3
  <2>4. ASSUME NEW m, m = hand PROVE Asked(m)'
    BY <1>1, <1>2, <2>2, <2>4
  <2> QED
    BY <1>2, <2>3, <2>4 DEF Ordered, Asked
<1>5. \A d \in Clients \ {c} : Won(d)' <=> Won(d)
  BY <1>1, <1>2 DEF Won, InHand
<1>6. \A d \in Clients \ {c}, x \in Entities : Owes(d, x)' => Owes(d, x)
  BY <1>5 DEF Owes, SameRequests
<1>7. \A x \in Entities : Owes(c, x)' => x = hand.on
  <2>1. req[c].pc \in {"wait", "apply"}
    BY <1>1, <1>2 DEF Asked
  <2> QED
    BY <1>1, <1>2, <2>1 DEF Owes, SameRequests, Asked
<1>8. Covered'
  <2> SUFFICES ASSUME NEW x \in Entities PROVE (audited[x] + Cardinality(Owing(x)) <= Writes(x))'
    BY DEF Covered
  <2> DEFINE A == Owing(x)
             B == Owing(x)'
  <2>1. /\ IsFiniteSet(A) /\ Cardinality(A) \in Nat /\ audited[x] \in Nat /\ Writes(x) \in Nat
        /\ audited[x] + Cardinality(A) <= Writes(x)
    BY OwingFacts, WritesFacts DEF AuditInv, Covered, IInv, Side, WInv
  <2>2. B \subseteq IF x = hand.on THEN A \cup {c} ELSE A
    BY <1>6, <1>7 DEF Owing
  <2> HIDE DEF A, B
  <2>3. IsFiniteSet(A \cup {c}) /\ Cardinality(A \cup {c}) \in Nat
        /\ Cardinality(A \cup {c}) <= Cardinality(A) + 1
    <3>1. /\ IsFiniteSet(A \cup {c})
          /\ Cardinality(A \cup {c}) = IF c \in A THEN Cardinality(A) ELSE Cardinality(A) + 1
      BY <2>1, FS_AddElement
    <3> QED
      BY <2>1, <3>1
  <2>4. CASE x = hand.on
    <3>1. B \in SUBSET (A \cup {c})
      BY <2>2, <2>4
    <3>2. Cardinality(B) <= Cardinality(A \cup {c}) /\ Cardinality(B) \in Nat
      BY <2>3, <3>1, FS_Subset, FS_CardinalityType
    <3>3. audited'[x] + Cardinality(B) <= Writes(x)'
      BY <1>3, <2>1, <2>3, <2>4, <3>2
    <3> QED
      BY <3>3 DEF B
  <2>5. CASE x # hand.on
    <3>1. B \in SUBSET A
      BY <2>2, <2>5
    <3>2. Cardinality(B) <= Cardinality(A) /\ Cardinality(B) \in Nat
      BY <2>1, <3>1, FS_Subset, FS_CardinalityType
    <3>3. audited'[x] + Cardinality(B) <= Writes(x)'
      BY <1>3, <2>1, <3>2
    <3> QED
      BY <3>3 DEF B
  <2> QED
    BY <2>4, <2>5
<1> QED
  BY <1>3, <1>4, <1>8 DEF AuditInv

LEMMA ConsumeAudit ==
  ASSUME IInv, AuditInv, Consume
  PROVE  AuditInv'
<1>1. SameRequests /\ UNCHANGED audited
  BY ConsumeSide DEF Consume
<1>2. Take \/ Apply \/ Handler
  BY DEF Consume, ConsumerStep, Handler
<1>3. CASE Take
  BY <1>1, <1>3, TakeAudit
<1>4. CASE Apply
  <2>1. /\ hand # NoCommand /\ done /\ Resolve(hand.by, "ok") /\ hand' = NoCommand
        /\ UNCHANGED <<row, history, queue>>
    BY <1>4 DEF Apply, rowVars
  <2>2. "ok" \in Outcome \ {"none", "pending"}
    BY DEF Outcome
  <2> QED
    BY <1>1, <2>1, <2>2, AnsweredAudit
<1>5. CASE Handler
  <2>1. /\ hand # NoCommand /\ ~done
        /\ \/ \E why \in Outcome \ {"none", "pending", "ok"} : Fail(why)
           \/ \E S \in SUBSET Entities : \E new :
                Commit(S, new) /\ hand.on \in S /\ \A x \in S : new[x] \in Value
    BY <1>5, HandlerCommits DEF IInv
  <2>2. ASSUME NEW why \in Outcome \ {"none", "pending", "ok"}, Fail(why)
        PROVE  AuditInv'
    <3>1. Resolve(hand.by, why) /\ hand' = NoCommand /\ UNCHANGED <<row, history, queue>>
      BY <2>2 DEF Fail, rowVars
    <3> QED
      BY <1>1, <2>1, <3>1, AnsweredAudit
  <2>3. ASSUME NEW S \in SUBSET Entities, NEW new, Commit(S, new), hand.on \in S,
               \A x \in S : new[x] \in Value
        PROVE  AuditInv'
    BY <1>1, <2>1, <2>3, CommittedAudit
  <2> QED
    BY <2>1, <2>2, <2>3
<1> QED
  BY <1>2, <1>3, <1>4, <1>5

LEMMA FailsAudit ==
  ASSUME IInv, AuditInv, DatabaseFails
  PROVE  AuditInv'
<1>1. /\ hand # NoCommand /\ ~done /\ Fail("error") /\ UNCHANGED <<req, audited>>
  BY DEF DatabaseFails, HandlerFails, requestVars
<1>2. SameRequests
  BY <1>1 DEF SameRequests
<1>3. /\ Resolve(hand.by, "error") /\ hand' = NoCommand /\ UNCHANGED <<row, history, queue>>
      /\ "error" \in Outcome \ {"none", "pending"}
  BY <1>1 DEF Fail, rowVars, Outcome
<1> QED
  BY <1>1, <1>2, <1>3, AnsweredAudit

\* After a restart nobody owes anything: what was committed and not audited stays so.
LEMMA RestartAudit ==
  ASSUME IInv, AuditInv, Restart
  PROVE  AuditInv'
<1>1. /\ req' = [c \in Clients |-> Idle] /\ Stop /\ UNCHANGED <<row, history, audited>>
  BY DEF Restart, Stop, stackVars, rowVars
<1>2. Len(queue') = 0 /\ hand' = NoCommand
  BY <1>1 DEF Stop, Forget
<1>3. Ordered'
  <2>1. \A i \in 1..Len(queue') : FALSE
    BY <1>2
  <2> QED
    BY <1>2, <2>1 DEF Ordered
<1>4. Kept'
  BY <1>1 DEF AuditInv, Kept
<1>5. \A c \in Clients : req'[c].pc = "idle"
  BY <1>1 DEF Idle
<1>6. \A x \in Entities : Writes(x)' = Writes(x) /\ \A c \in Clients : Owes(c, x)' => Owes(c, x)
  BY <1>1, <1>5 DEF Writes, Owes
<1> QED
  BY <1>1, <1>3, <1>4, <1>6, FewerOwe DEF AuditInv

LEMMA InitAudit ==
  ASSUME Init
  PROVE  AuditInv
<1>1. /\ row = Start /\ history = [x \in Entities |-> <<>>] /\ Len(queue) = 0 /\ hand = NoCommand
      /\ audited = [x \in Entities |-> 0] /\ \A c \in Clients : req[c].pc = "idle"
  BY DEF Init, WriterInit, Idle
<1>2. Ordered
  <2>1. \A i \in 1..Len(queue) : FALSE
    BY <1>1
  <2> QED
    BY <1>1, <2>1 DEF Ordered
<1>3. Kept
  BY <1>1 DEF Kept
<1>4. Covered
  <2> SUFFICES ASSUME NEW x \in Entities PROVE audited[x] + Cardinality(Owing(x)) <= Writes(x)
    BY DEF Covered
  <2>1. Owing(x) = {}
    BY <1>1 DEF Owing, Owes
  <2>2. Cardinality(Owing(x)) = 0
    BY <2>1, FS_EmptySet
  <2>3. Writes(x) = 0 /\ audited[x] = 0
    BY <1>1 DEF Writes
  <2> QED
    BY <2>2, <2>3
<1> QED
  BY <1>2, <1>3, <1>4 DEF AuditInv

LEMMA NextAudit ==
  ASSUME IInv, AuditInv, [Next]_vars
  PROVE  AuditInv'
<1>1. CASE UNCHANGED vars
  <2>1. UNCHANGED <<row, history, queue, hand, done, future, req, audited>>
    BY <1>1 DEF vars, writerVars, rowVars, requestVars
  <2> QED
    BY <2>1 DEF AuditInv, Ordered, Asked, Kept, Covered, Owing, Owes, Won, InHand, Writes
<1>2. CASE Consume \/ DatabaseFails \/ Restart
  BY <1>2, ConsumeAudit, FailsAudit, RestartAudit
<1>3. ASSUME NEW c \in Clients, Client(c) \/ StartPop(c)
      PROVE  AuditInv'
  BY <1>3, LoadAudit, ReadGraphAudit, ReplyAudit, OwnAudit, PushAudit, StartInverseAudit,
     EndInverseAudit DEF Client
<1>4. ASSUME NEW c \in Clients, NEW op, NEW x, AskGraph(c, op, x)
      PROVE  AuditInv'
  BY <1>4, AskAudit
<1>5. ASSUME NEW c \in Clients, NEW n \in Nodes, NEW l \in Labels,
             NEW op \in {"updateNode", "createNode", "deleteNode", "undoNode"}, Submit(c, op, n, l)
      PROVE  AuditInv'
  <2>1. op \in NodeOps \cup EdgeOps /\ Fits(op, n) /\ n \in Entities
    BY DEF NodeOps, EdgeOps, Fits, Entities
  <2> QED
    BY <1>5, <2>1, SubmitAudit
<1>6. ASSUME NEW c \in Clients, NEW e \in Edges, NEW op \in {"deleteEdge", "undoEdge"},
             Submit(c, op, e, AnyLabel)
      PROVE  AuditInv'
  <2>1. op \in NodeOps \cup EdgeOps /\ Fits(op, e) /\ e \in Entities /\ AnyLabel \in Labels
    BY DEF NodeOps, EdgeOps, Fits, Entities, AnyLabel
  <2> QED
    BY <1>6, <2>1, SubmitAudit
<1>7. AnyLabel \in Labels
  BY DEF AnyLabel
<1>8. CASE Rest
  BY <1>1, <1>8 DEF Rest
<1>9. CASE Next
  BY <1>2, <1>3, <1>4, <1>5, <1>6, <1>7, <1>8, <1>9 DEF Next
<1> QED
  BY <1>1, <1>9

\* An audit entry of a graph write stands for a write that was committed, even
\* when requests fail, answers are lost and the process restarts between the
\* commit and the entry. (service.py:214-255, 730-744)
THEOREM AuditsAreBacked == Spec => []NoOrphanEntry
<1>1. Init => IInv /\ AuditInv
  BY InitInvariant, InitAudit
<1>2. IInv /\ AuditInv /\ [Next]_vars => (IInv /\ AuditInv)'
  BY NextInvariant, NextAudit
<1>3. IInv /\ AuditInv => NoOrphanEntry
  <2> SUFFICES ASSUME IInv, AuditInv, NEW x \in Entities PROVE audited[x] <= Writes(x)
    BY DEF NoOrphanEntry, Writes
  <2>1. Cardinality(Owing(x)) \in Nat /\ audited[x] \in Nat /\ Writes(x) \in Nat
    BY OwingFacts, WritesFacts DEF IInv, Side, WInv
  <2> QED
    BY <2>1 DEF AuditInv, Covered
<1> QED
  BY <1>1, <1>2, <1>3, PTL DEF Spec

-----------------------------------------------------------------------------
(* What an undo entry says of its target.                                  *)

\* Two states of one entry: a pop marks it, and nothing else of it changes.
Same(e, f) == e.id = f.id /\ e.on = f.on /\ e.base = f.base

\* What c's request or its member's stack holds.
Holds(c, e) == e \in undo[who[c]] \/ e \in req[c].todo \/ e \in req[c].entry

\* A request without a command, or with an answer, takes a step.  What it and its
\* member's stack hold then, they had before, but for one new entry n.
LEMMA StackMoves ==
  ASSUME IInv, StackInv, NEW c \in Clients, NEW n, future[c] # "pending",
         \A d \in Clients \ {c} : req'[d] = req[d] /\ future'[d] = future[d],
         UNCHANGED <<who, hand, done, stamp, applied>>,
         \A u \in Users \ {who[c]} : undo'[u] = undo[u],
         \/ clock' = clock
         \/ clock' = clock + 1 /\ n \in Entries /\ n.id = clock + 1 /\ n.base <= stamp[n.on],
         \A e \in Entries : Holds(c, e)' =>
           \/ \E f \in Entries : Has(who[c], f) /\ Same(e, f)
           \/ clock' = clock + 1 /\ e = n,
         req'[c].pc \in {"check", "wait", "reread", "insert"} => req'[c].base <= stamp[req'[c].on],
         req'[c].pc = "apply" /\ future'[c] = "pending"
           => \A e \in req'[c].entry : e.id \notin applied
  PROVE  StackInv'
<1>1. /\ clock \in Nat /\ who[c] \in Users /\ stamp \in [Entities -> Nat]
      /\ applied \subseteq 1..clock
  BY DEF IInv, Side, WInv, WriterTypeOK, StackInv
<1>2. ASSUME NEW u \in Users, NEW e \in Entries, Has(u, e)'
      PROVE  \/ \E f \in Entries : Has(u, f) /\ Same(e, f)
             \/ u = who[c] /\ clock' = clock + 1 /\ e = n
  <2>1. CASE u = who[c] /\ Holds(c, e)'
    BY <2>1
  <2>2. CASE ~(u = who[c] /\ Holds(c, e)')
    <3>1. \/ u # who[c] /\ e \in undo[u]
          \/ \E d \in Clients \ {c} : who[d] = u /\ (e \in req[d].todo \/ e \in req[d].entry)
      BY <1>2, <2>2 DEF Has, Holds
    <3>2. Has(u, e)
      BY <3>1 DEF Has
    <3> QED
      BY <3>2 DEF Same
  <2> QED
    BY <2>1, <2>2
<1>3. \A u \in Users, e \in Entries : Has(u, e) =>
        /\ e.id \in 1..clock /\ e.id # clock + 1 /\ e.base <= stamp[e.on]
        /\ e.id \in applied => e.base < stamp[e.on]
  BY <1>1 DEF StackInv, Dated
<1>4. Dated'
  <2> SUFFICES ASSUME NEW u \in Users, NEW e \in Entries, Has(u, e)'
               PROVE  /\ e.id \in 1..clock' /\ e.base <= stamp[e.on]
                      /\ e.id \in applied => e.base < stamp[e.on]
    BY DEF Dated
  <2>1. CASE \E f \in Entries : Has(u, f) /\ Same(e, f)
    BY <1>1, <1>3, <2>1 DEF Same
  <2>2. CASE clock' = clock + 1 /\ e = n
    BY <1>1, <2>2
  <2> QED
    BY <1>2, <2>1, <2>2
<1>5. OneEach'
  <2> SUFFICES ASSUME NEW u \in Users, NEW v \in Users, NEW e \in Entries, NEW f \in Entries,
                      Has(u, e)', Has(v, f)', e.id = f.id
               PROVE  u = v /\ e.on = f.on /\ e.base = f.base
    BY DEF OneEach
  <2>1. CASE /\ \E g \in Entries : Has(u, g) /\ Same(e, g)
             /\ \E g \in Entries : Has(v, g) /\ Same(f, g)
    <3>1. PICK g \in Entries, h \in Entries : /\ Has(u, g) /\ Same(e, g)
                                              /\ Has(v, h) /\ Same(f, h)
      BY <2>1
    <3>2. g.id = h.id
      BY <3>1 DEF Same
    <3>3. u = v /\ g.on = h.on /\ g.base = h.base
      BY <3>1, <3>2 DEF StackInv, OneEach
    <3> QED
      BY <3>1, <3>3 DEF Same
  <2>2. CASE u = who[c] /\ clock' = clock + 1 /\ e = n
    BY <1>1, <1>2, <1>3, <2>2 DEF Same
  <2>3. CASE v = who[c] /\ clock' = clock + 1 /\ f = n
    BY <1>1, <1>2, <1>3, <2>3 DEF Same
  <2> QED
    BY <1>2, <2>1, <2>2, <2>3
<1>6. Bases'
  BY DEF StackInv, Bases
<1>7. Unapplied'
  BY DEF StackInv, Unapplied, Mates, InHand
<1>8. applied' \subseteq 1..clock'
  BY <1>1
<1> QED
  BY <1>4, <1>5, <1>6, <1>7, <1>8 DEF StackInv

\* The same without a new entry.
LEMMA StackKept ==
  ASSUME IInv, StackInv, NEW c \in Clients, future[c] # "pending",
         \A d \in Clients \ {c} : req'[d] = req[d] /\ future'[d] = future[d],
         UNCHANGED <<who, hand, done, stamp, applied, clock>>,
         \A u \in Users \ {who[c]} : undo'[u] = undo[u],
         \A e \in Entries : Holds(c, e)' => \E f \in Entries : Has(who[c], f) /\ Same(e, f),
         req'[c].pc \in {"check", "wait", "reread", "insert"} => req'[c].base <= stamp[req'[c].on],
         req'[c].pc = "apply" /\ future'[c] = "pending"
           => \A e \in req'[c].entry : e.id \notin applied
  PROVE  StackInv'
<1>1. PICK n : n = clock
  OBVIOUS
<1> QED
  BY <1>1, StackMoves

\* What a request or a stack holds, the member has.
LEMMA HoldsHas ==
  ASSUME NEW c \in Clients, NEW e, Holds(c, e)
  PROVE  Has(who[c], e)
BY DEF Holds, Has

\* A request asks, waits or goes on: no stack changes, and it holds what it held.
LEMMA SubmitStack ==
  ASSUME IInv, StackInv, NEW c \in Clients, NEW op \in NodeOps \cup EdgeOps,
         NEW x \in Entities, Fits(op, x), NEW l \in Labels, Submit(c, op, x, l)
  PROVE  StackInv'
<1> DEFINE r == [Idle EXCEPT !.pc = "wait", !.op = op, !.on = x]
<1>1. r.pc = "wait" /\ r.op = op /\ r.on = x /\ r.base = 0 /\ r.todo = {} /\ r.entry = {}
  BY DEF Idle
<1>2. req[c].pc = "idle" /\ Go(c, r) /\ Enqueue(c, op, x, l)
      /\ UNCHANGED <<who, undo, clock, applied>>
  BY DEF Submit, Begin, stackVars
<1> HIDE DEF r
<1>3. req'[c] = r /\ \A d \in Clients \ {c} : req'[d] = req[d]
  BY <1>2, GoesTo
<1>4. future[c] # "pending"
  BY <1>2, AwaitsNothing
<1>5. /\ UNCHANGED <<stamp, hand, done>>
      /\ \A d \in Clients \ {c} : future'[d] = future[d]
  BY <1>1, <1>2, <1>3, EnqueuedAsked
<1>6. r.base <= stamp[r.on]
  BY <1>1 DEF IInv, WInv, WriterTypeOK
<1>7. \A e \in Entries : Holds(c, e)' => \E f \in Entries : Has(who[c], f) /\ Same(e, f)
  BY <1>1, <1>2, <1>3 DEF Holds, Has, Same
<1> QED
  BY <1>1, <1>2, <1>3, <1>4, <1>5, <1>6, <1>7, StackKept

LEMMA AskStack ==
  ASSUME IInv, StackInv, NEW c \in Clients, NEW op, NEW x \in Entities, AskGraph(c, op, x)
  PROVE  StackInv'
<1> DEFINE r == [Idle EXCEPT !.pc = "check", !.op = op, !.on = x]
<1>1. r.pc = "check" /\ r.on = x /\ r.base = 0 /\ r.todo = {} /\ r.entry = {}
  BY DEF Idle
<1>2. req[c].pc = "idle" /\ Go(c, r) /\ UNCHANGED writerVars
      /\ UNCHANGED <<who, undo, clock, applied>>
  BY DEF AskGraph, Begin, stackVars
<1> HIDE DEF r
<1>3. req'[c] = r /\ \A d \in Clients \ {c} : req'[d] = req[d]
  BY <1>2, GoesTo
<1>4. future[c] # "pending"
  BY <1>2, AwaitsNothing
<1>5. /\ UNCHANGED <<stamp, hand, done>>
      /\ \A d \in Clients \ {c} : future'[d] = future[d]
  BY <1>2, WriterRests
<1>6. r.base <= stamp[r.on]
  BY <1>1 DEF IInv, WInv, WriterTypeOK
<1>7. \A e \in Entries : Holds(c, e)' => \E f \in Entries : Has(who[c], f) /\ Same(e, f)
  BY <1>1, <1>2, <1>3 DEF Holds, Has, Same
<1> QED
  BY <1>1, <1>2, <1>3, <1>4, <1>5, <1>6, <1>7, StackKept

LEMMA LoadStack ==
  ASSUME IInv, StackInv, NEW c \in Clients, Load(c)
  PROVE  StackInv'
<1>1. UNCHANGED <<hand, done, stamp, future, who, req, undo, clock, applied>>
  BY DEF Load, StartLoad, LoadEdges, Install, rowVars, requestVars
<1> QED
  BY <1>1 DEF StackInv, Dated, OneEach, Bases, Unapplied, Has, Mates, InHand

\* A request goes on with what it held, or ends, and applies nothing.
LEMMA GoesOn ==
  ASSUME IInv, StackInv, NEW c \in Clients, NEW r, Go(c, r), future[c] # "pending",
         UNCHANGED <<who, hand, done, stamp, applied, clock, undo>>,
         \A d \in Clients \ {c} : future'[d] = future[d],
         r.todo \subseteq req[c].todo \cup undo[who[c]], r.entry \subseteq req[c].entry,
         r.pc \in {"check", "wait", "reread", "insert"} => r.base <= stamp[r.on],
         r.pc # "apply"
  PROVE  StackInv'
<1>1. req'[c] = r /\ \A d \in Clients \ {c} : req'[d] = req[d]
  BY GoesTo
<1>2. \A e \in Entries : Holds(c, e)' => \E f \in Entries : Has(who[c], f) /\ Same(e, f)
  BY <1>1 DEF Holds, Has, Same
<1> QED
  BY <1>1, <1>2, StackKept

LEMMA IdleHolds == Idle.pc = "idle" /\ Idle.todo = {} /\ Idle.entry = {}
BY DEF Idle

LEMMA ReadGraphStack ==
  ASSUME IInv, StackInv, NEW c \in Clients, ReadGraph(c)
  PROVE  StackInv'
<1>1. req[c].pc = "check" /\ UNCHANGED <<who, undo, clock, applied>>
  BY DEF ReadGraph, bounds, stackVars
<1>2. future[c] # "pending"
  BY <1>1, AwaitsNothing
<1>3. UNCHANGED <<hand, done, stamp>> /\ \A d \in Clients \ {c} : future'[d] = future[d]
  <2>1. future \in [Clients -> Outcome]
    BY DEF IInv, WInv, WriterTypeOK
  <2> QED
    BY <2>1 DEF ReadGraph, Enqueue, Resolve, writerVars, rowVars
<1>4. PICK s : s = [req[c] EXCEPT !.pc = "wait"]
  OBVIOUS
<1>5. /\ s.pc = "wait" /\ s.todo = req[c].todo /\ s.entry = req[c].entry /\ s.base <= stamp[s.on]
  BY <1>1, <1>4, RequestShape DEF IInv, Requests, StackInv, Bases
<1>6. Go(c, s) \/ Go(c, Idle)
  BY <1>4 DEF ReadGraph, Go, End
<1> QED
  BY <1>1, <1>2, <1>3, <1>5, <1>6, IdleHolds, GoesOn

LEMMA ReplyStack ==
  ASSUME IInv, StackInv, NEW c \in Clients, Reply(c)
  PROVE  StackInv'
<1>1. /\ req[c].pc = "wait" /\ future[c] # "pending" /\ Await(c)
      /\ UNCHANGED <<rowVars, memoryVars, queue, hand, done>>
      /\ UNCHANGED <<who, undo, clock, applied>>
  BY DEF Reply, Answered, bounds, stackVars
<1>2. UNCHANGED <<hand, done, stamp>> /\ \A d \in Clients \ {c} : future'[d] = future[d]
  BY <1>1, WriterRests
<1>3. PICK s : s = [req[c] EXCEPT !.pc = IF req[c].op \in {"deleteNode", "deleteEdge"}
                                           THEN "reread" ELSE "insert"]
  OBVIOUS
<1>4. /\ s.pc # "apply" /\ s.todo = req[c].todo /\ s.entry = req[c].entry /\ s.base <= stamp[s.on]
  BY <1>1, <1>3, RequestShape DEF IInv, Requests, StackInv, Bases
<1>5. Go(c, s) \/ Go(c, Idle)
  BY <1>3 DEF Reply, Go, End
<1> QED
  BY <1>1, <1>2, <1>4, <1>5, IdleHolds, GoesOn

LEMMA ReReadStack ==
  ASSUME IInv, StackInv, NEW c \in Clients, ReRead(c)
  PROVE  StackInv'
<1>1. /\ req[c].pc = "reread" /\ UNCHANGED writerVars /\ UNCHANGED <<who, undo, clock, applied>>
  BY DEF ReRead, bounds, stackVars
<1>2. UNCHANGED <<hand, done, stamp>> /\ \A d \in Clients \ {c} : future'[d] = future[d]
  BY <1>1, WriterRests
<1>3. PICK s : s = [req[c] EXCEPT !.pc = "insert", !.base = stamp[req[c].on]]
  OBVIOUS
<1>4. stamp[req[c].on] \in Nat
  BY RequestShape DEF IInv, WInv, WriterTypeOK
<1>5. /\ s.pc # "apply" /\ s.todo = req[c].todo /\ s.entry = req[c].entry /\ s.base <= stamp[s.on]
  BY <1>3, <1>4, RequestShape DEF IInv, Requests
<1>6. Go(c, s) /\ future[c] # "pending"
  BY <1>1, <1>3, AwaitsNothing DEF ReRead
<1> QED
  BY <1>1, <1>2, <1>5, <1>6, GoesOn

LEMMA DropHolds ==
  ASSUME Side, NEW c \in Clients, NEW e, Drop(c, e)
  PROVE  \E r : /\ Go(c, r) /\ r.pc \in {"walk", "idle"}
                /\ r.todo \subseteq req[c].todo /\ r.entry \subseteq req[c].entry
<1>1. PICK s : s = [req[c] EXCEPT !.pc = "walk", !.todo = req[c].todo \ {e},
                                  !.held = req[c].held \cup {e.id}]
  OBVIOUS
<1>2. s.pc = "walk" /\ s.todo \subseteq req[c].todo /\ s.entry \subseteq req[c].entry
  BY <1>1, RequestShape DEF Requests
<1>3. Go(c, s) \/ Go(c, Idle)
  BY <1>1 DEF Drop, End, Go
<1> QED
  BY <1>2, <1>3, IdleHolds

LEMMA WalkStack ==
  ASSUME IInv, StackInv, NEW c \in Clients, StartPop(c) \/ DropStale(c)
  PROVE  StackInv'
<1>1. /\ req[c].pc \in {"idle", "walk"} /\ UNCHANGED writerVars
      /\ UNCHANGED <<who, undo, clock, applied>>
  BY DEF StartPop, Begin, DropStale, bounds, stackVars
<1>2. UNCHANGED <<hand, done, stamp>> /\ \A d \in Clients \ {c} : future'[d] = future[d]
  BY <1>1, WriterRests
<1>3. future[c] # "pending"
  BY <1>1, AwaitsNothing
<1>4. CASE StartPop(c)
  <2>1. PICK r : r = [Idle EXCEPT !.pc = "walk", !.op = "pop", !.todo = Active(who[c])]
    OBVIOUS
  <2>2. r.pc = "walk" /\ r.todo \subseteq req[c].todo \cup undo[who[c]] /\ r.entry \subseteq req[c].entry
    BY <2>1 DEF Idle, Active
  <2>3. Go(c, r)
    BY <1>4, <2>1 DEF StartPop
  <2> QED
    BY <1>1, <1>2, <1>3, <2>2, <2>3, GoesOn
<1>5. CASE DropStale(c)
  <2>1. PICK e : Drop(c, e)
    BY <1>5 DEF DropStale
  <2>2. PICK r : /\ Go(c, r) /\ r.pc \in {"walk", "idle"}
                 /\ r.todo \subseteq req[c].todo /\ r.entry \subseteq req[c].entry
    BY <2>1, DropHolds DEF IInv
  <2> QED
    BY <1>1, <1>2, <1>3, <2>2, GoesOn
<1> QED
  BY <1>4, <1>5

\* The one step that makes an entry: its id is new, and it is about the target as
\* its request last saw it.
LEMMA InsertStack ==
  ASSUME IInv, StackInv, NEW c \in Clients, Insert(c)
  PROVE  StackInv'
<1>1. PICK n : n = Entry(clock + 1, req[c].op, req[c].on, req[c].base)
  OBVIOUS
<1>2. PICK trim : Go(c, [req[c] EXCEPT !.pc = "push", !.entry = {n}, !.trim = trim])
  BY <1>1 DEF Insert
<1>3. PICK r : r = [req[c] EXCEPT !.pc = "push", !.entry = {n}, !.trim = trim]
  OBVIOUS
<1>4. /\ req[c].pc = "insert" /\ Go(c, r) /\ clock' = clock + 1 /\ UNCHANGED writerVars
      /\ UNCHANGED <<who, undo, applied>>
  BY <1>2, <1>3 DEF Insert, bounds
<1>5. r.pc = "push" /\ r.entry = {n} /\ r.todo = req[c].todo
  BY <1>3, RequestShape DEF IInv, Requests
<1>6. clock \in Nat /\ req[c].op \in Undoable
  BY <1>4, RequestShape DEF IInv, Side, RequestOK
<1>7. n \in Entries /\ n.id = clock + 1 /\ n.base <= stamp[n.on]
  BY <1>1, <1>4, <1>6, RequestShape DEF IInv, Entry, Entries, StackInv, Bases
<1>8. req'[c] = r /\ \A d \in Clients \ {c} : req'[d] = req[d]
  BY <1>4, GoesTo
<1>9. UNCHANGED <<hand, done, stamp>> /\ \A d \in Clients \ {c} : future'[d] = future[d]
  BY <1>4, WriterRests
<1>10. future[c] # "pending"
  BY <1>4, AwaitsNothing
<1>11. ASSUME NEW e \in Entries, Holds(c, e)'
       PROVE  \/ \E f \in Entries : Has(who[c], f) /\ Same(e, f)
              \/ clock' = clock + 1 /\ e = n
  BY <1>4, <1>5, <1>8, <1>11 DEF Holds, Has, Same
<1> QED
  BY <1>4, <1>5, <1>7, <1>8, <1>9, <1>10, <1>11, StackMoves

LEMMA PushStack ==
  ASSUME IInv, StackInv, NEW c \in Clients, Push(c)
  PROVE  StackInv'
<1>1. /\ req[c].pc = "push" /\ Go(c, Idle) /\ UNCHANGED writerVars
      /\ UNCHANGED <<who, clock, applied>>
      /\ undo' = [undo EXCEPT ![who[c]] = req[c].entry
                                \cup {e \in undo[who[c]] : e.id \notin req[c].trim}]
  BY DEF Push, End, Go, bounds
<1>2. req'[c] = Idle /\ \A d \in Clients \ {c} : req'[d] = req[d]
  BY <1>1, GoesTo
<1>3. UNCHANGED <<hand, done, stamp>> /\ \A d \in Clients \ {c} : future'[d] = future[d]
  BY <1>1, WriterRests
<1>4. future[c] # "pending"
  BY <1>1, AwaitsNothing
<1>5. /\ undo'[who[c]] \subseteq req[c].entry \cup undo[who[c]]
      /\ \A u \in Users \ {who[c]} : undo'[u] = undo[u]
  BY <1>1, RequestShape DEF IInv, Side
<1>6. \A e \in Entries : Holds(c, e)' => \E f \in Entries : Has(who[c], f) /\ Same(e, f)
  BY <1>1, <1>2, <1>5, IdleHolds DEF Holds, Has, Same
<1> QED
  BY <1>1, <1>2, <1>3, <1>4, <1>5, <1>6, IdleHolds, StackKept

\* An entry that is not stale was not applied: its target is as it left it.
LEMMA StartInverseStack ==
  ASSUME IInv, StackInv, NEW c \in Clients, StartInverse(c)
  PROVE  StackInv'
<1>1. PICK e \in req[c].todo : /\ req[c].pc = "walk" /\ ~Stale(e)
                              /\ Go(c, [req[c] EXCEPT !.pc = "apply", !.entry = {e}])
                              /\ Enqueue(c, InverseOp[e.op], e.on, AnyLabel)
                              /\ UNCHANGED <<who, undo, clock, applied>>
  BY DEF StartInverse, stackVars, bounds
<1>2. PICK r : r = [req[c] EXCEPT !.pc = "apply", !.entry = {e}]
  OBVIOUS
<1>3. r.pc = "apply" /\ r.entry = {e} /\ r.todo = req[c].todo
  BY <1>2, RequestShape DEF IInv, Requests
<1>4. e \in Entries /\ who[c] \in Users /\ e.on \in Entities
  BY RequestShape, EntryShape DEF IInv
<1>5. req'[c] = r /\ \A d \in Clients \ {c} : req'[d] = req[d]
  BY <1>1, <1>2, GoesTo
<1>6. future[c] # "pending"
  BY <1>1, AwaitsNothing
<1>7. UNCHANGED <<hand, done, stamp>> /\ \A d \in Clients \ {c} : future'[d] = future[d]
  <2>1. future \in [Clients -> Outcome]
    BY DEF IInv, WInv, WriterTypeOK
  <2> QED
    BY <1>1, <2>1 DEF Enqueue, Resolve, rowVars
<1>8. e.id \notin applied
  <2>1. Has(who[c], e)
    BY DEF Has
  <2>2. stamp[e.on] = e.base /\ e.base \in Nat
    BY <1>1, <1>4 DEF Stale, Entries
  <2> QED
    BY <1>4, <2>1, <2>2 DEF StackInv, Dated
<1>9. \A f \in Entries : Holds(c, f)' => \E g \in Entries : Has(who[c], g) /\ Same(f, g)
  BY <1>1, <1>3, <1>5 DEF Holds, Has, Same
<1> QED
  BY <1>1, <1>3, <1>5, <1>6, <1>7, <1>8, <1>9, StackKept

\* To mark entries changes nothing of what they say.
LEMMA MarkedSame ==
  ASSUME IInv, NEW c \in Clients, NEW ids, MarkUndone(c, ids)
  PROVE  /\ \A e \in undo'[who[c]] : \E f \in Entries : f \in undo[who[c]] /\ Same(e, f)
         /\ \A u \in Users \ {who[c]} : undo'[u] = undo[u]
<1> DEFINE S == {[e EXCEPT !.undone = e.undone \/ e.id \in ids] : e \in undo[who[c]]}
<1>1. undo' = [undo EXCEPT ![who[c]] = S]
  BY DEF MarkUndone
<1>2. ASSUME NEW e \in S PROVE \E f \in Entries : f \in undo[who[c]] /\ Same(e, f)
  <2>1. PICK f \in undo[who[c]] : e = [f EXCEPT !.undone = f.undone \/ f.id \in ids]
    BY <1>2
  <2>2. f \in Entries
    BY RequestShape DEF IInv
  <2>3. Same(e, f)
    BY <2>1, <2>2 DEF Same, Entries
  <2> QED
    BY <2>2, <2>3
<1> HIDE DEF S
<1> QED
  BY <1>1, <1>2, RequestShape DEF IInv, Side

\* A pop ends, or walks on: the stack says what it said.
LEMMA PopStack ==
  ASSUME IInv, StackInv, NEW c \in Clients, EndInverse(c) \/ EndPop(c)
  PROVE  StackInv'
<1>1. /\ req[c].pc \in {"walk", "apply"} /\ UNCHANGED <<who, clock, applied>>
      /\ \/ UNCHANGED writerVars
         \/ Await(c) /\ UNCHANGED <<rowVars, memoryVars, queue, hand, done>>
      /\ undo' = undo \/ \E ids : MarkUndone(c, ids)
  BY DEF EndInverse, EndPop, bounds
<1>2. PICK r : /\ Go(c, r) /\ r.pc \in {"walk", "idle"}
               /\ r.todo \subseteq req[c].todo /\ r.entry \subseteq req[c].entry
  <2>1. Go(c, Idle) \/ \E e : Drop(c, e)
    BY DEF EndInverse, EndPop, End, Go
  <2> QED
    BY <2>1, DropHolds, IdleHolds DEF IInv
<1>3. req'[c] = r /\ \A d \in Clients \ {c} : req'[d] = req[d]
  BY <1>2, GoesTo
<1>4. UNCHANGED <<hand, done, stamp>> /\ \A d \in Clients \ {c} : future'[d] = future[d]
  BY <1>1, WriterRests
<1>5. future[c] # "pending"
  <2>1. EndInverse(c) => future[c] # "pending"
    BY DEF EndInverse, Answered
  <2>2. EndPop(c) => future[c] # "pending"
    BY AwaitsNothing DEF EndPop
  <2> QED
    BY <2>1, <2>2
<1>6. /\ \A e \in undo'[who[c]] : \E f \in Entries : f \in undo[who[c]] /\ Same(e, f)
      /\ \A u \in Users \ {who[c]} : undo'[u] = undo[u]
  <2>1. undo' = undo => \A e \in undo'[who[c]] : \E f \in Entries : f \in undo[who[c]] /\ Same(e, f)
    BY RequestShape DEF IInv, Same
  <2> QED
    BY <1>1, <2>1, MarkedSame
<1>7. ASSUME NEW e \in Entries, Holds(c, e)'
      PROVE  \E f \in Entries : Has(who[c], f) /\ Same(e, f)
  <2>1. CASE e \in undo'[who[c]]
    BY <1>6, <2>1 DEF Has
  <2>2. CASE e \in req'[c].todo \/ e \in req'[c].entry
    BY <1>2, <1>3, <2>2 DEF Has, Same
  <2> QED
    BY <1>1, <1>7, <2>1, <2>2 DEF Holds
<1> QED
  BY <1>1, <1>2, <1>3, <1>4, <1>5, <1>6, <1>7, StackKept

-----------------------------------------------------------------------------
(* The consumer and the stacks.                                            *)

\* The consumer changes no stack, and base of the client it answers at most.
LEMMA SameHas ==
  ASSUME SameRequests, UNCHANGED <<who, undo>>
  PROVE  \A u, e : Has(u, e)' <=> Has(u, e)
BY DEF SameRequests, Has

\* Nothing is written: an entry stays dated, and nobody waits who did not.
LEMMA NothingWritten ==
  ASSUME IInv, StackInv, SameRequests, UNCHANGED <<who, undo, clock, applied, stamp>>,
         \A c \in Clients : future'[c] = "pending" /\ ~(InHand(c) /\ done)'
                              => future[c] = "pending" /\ ~(InHand(c) /\ done),
         \A c \in Clients :
           \/ req'[c].base = req[c].base
           \/ req[c].pc = "apply"
           \/ req'[c].base = stamp[req[c].on]
  PROVE  StackInv'
<1>1. \A u, e : Has(u, e)' <=> Has(u, e)
  BY SameHas
<1>2. Dated' /\ OneEach'
  BY <1>1 DEF StackInv, Dated, OneEach
<1>3. Bases'
  <2> SUFFICES ASSUME NEW c \in Clients, req[c].pc \in {"check", "wait", "reread", "insert"}
               PROVE  req'[c].base <= stamp[req[c].on]
    BY DEF Bases, SameRequests
  <2>1. stamp[req[c].on] \in Nat
    BY RequestShape DEF IInv, WInv, WriterTypeOK
  <2> QED
    BY <2>1 DEF StackInv, Bases
<1>4. Unapplied'
  BY DEF StackInv, Unapplied, SameRequests, Mates
<1> QED
  BY <1>2, <1>3, <1>4 DEF StackInv

LEMMA TakeStack ==
  ASSUME IInv, StackInv, Take, Consume
  PROVE  StackInv'
<1>1. /\ hand = NoCommand /\ done' = FALSE /\ UNCHANGED <<future, row, stamp>>
  BY DEF Take, rowVars
<1>2. SameRequests /\ UNCHANGED <<who, undo, clock, applied, req>>
  BY <1>1, ConsumeSide DEF Consume, bounds
<1> QED
  BY <1>1, <1>2, NothingWritten DEF InHand

\* An answer, whatever it says.
LEMMA AnsweredStack ==
  ASSUME IInv, AuditInv, StackInv, SameRequests, hand # NoCommand,
         NEW how \in Outcome \ {"none", "pending"}, Resolve(hand.by, how), hand' = NoCommand,
         UNCHANGED <<who, undo, clock, applied, stamp>>,
         req' = req \/ req' = [req EXCEPT ![hand.by].base = stamp[hand.on]]
  PROVE  StackInv'
<1>1. PICK c \in Clients : c = hand.by
  BY QueuedShape DEF IInv, WInv
<1>2. Asked(hand) /\ future' = [future EXCEPT ![c] = how] /\ future \in [Clients -> Outcome]
  BY <1>1 DEF AuditInv, Ordered, Resolve, IInv, WInv, WriterTypeOK
<1>3. \A d \in Clients : future'[d] = "pending" => d # c /\ future[d] = "pending" /\ ~InHand(d)
  BY <1>1, <1>2 DEF InHand
<1>4. \A d \in Clients : \/ req'[d].base = req[d].base
                        \/ req[d].pc = "apply"
                        \/ req'[d].base = stamp[req[d].on]
  <2>1. CASE req' = req
    BY <2>1
  <2>2. CASE req' = [req EXCEPT ![hand.by].base = stamp[hand.on]]
    <3>1. req[c].pc = "apply" \/ req[c].on = hand.on
      BY <1>1, <1>2 DEF Asked
    <3>2. req \in [Clients -> Requests] /\ req[c] \in Requests
      BY <1>1 DEF IInv, Side
    <3>3. req'[c].base = stamp[hand.on] /\ \A d \in Clients \ {c} : req'[d] = req[d]
      BY <1>1, <2>2, <3>2 DEF Requests
    <3> QED
      BY <3>1, <3>3
  <2> QED
    BY <2>1, <2>2
<1> QED
  BY <1>3, <1>4, NothingWritten

\* A commit: if it changes rows for a pop, the inverse of the pop's entry has been
\* applied, and the target is newer than any entry of that id says.
LEMMA CommittedStack ==
  ASSUME IInv, AuditInv, StackInv, hand # NoCommand, ~done,
         NEW S \in SUBSET Entities, NEW new, \A x \in S : new[x] \in Value, Commit(S, new),
         hand.on \in S, row' # row => new[hand.on] # row[hand.on],
         UNCHANGED <<who, undo, clock, req>>,
         applied' = IF row' # row /\ Popping(hand.by)
                      THEN applied \cup {e.id : e \in req[hand.by].entry} ELSE applied
  PROVE  StackInv'
<1>1. PICK c \in Clients : c = hand.by
  BY QueuedShape DEF IInv, WInv
<1>2. UNCHANGED <<queue, hand, future>> /\ done' = TRUE /\ Asked(hand) /\ hand.on \in Entities
  BY DEF Commit, AuditInv, Ordered
<1>3. /\ \A x \in Entities : stamp[x] \in Nat /\ stamp'[x] \in Nat /\ stamp[x] <= stamp'[x]
      /\ row' # row => stamp[hand.on] < stamp'[hand.on]
  BY <1>2 DEF Commit, Bumped, IInv, WInv, WriterTypeOK
<1>4. \A u, e : Has(u, e)' <=> Has(u, e)
  BY DEF Has
<1>5. \A id : id \in applied' => \/ id \in applied
                                \/ \E g \in req[c].entry : g.id = id /\ row' # row /\ req[c].pc = "apply"
  BY <1>1 DEF Popping
<1>6. \A g \in req[c].entry : g \in Entries /\ Has(who[c], g) /\ who[c] \in Users
                              /\ (req[c].pc = "apply" => g.on = hand.on)
  BY <1>1, <1>2, RequestShape DEF IInv, Has, Asked
<1>7. Dated'
  <2> SUFFICES ASSUME NEW u \in Users, NEW e \in Entries, Has(u, e)
               PROVE  /\ e.id \in 1..clock /\ e.base <= stamp'[e.on]
                      /\ e.id \in applied' => e.base < stamp'[e.on]
    BY <1>4 DEF Dated
  <2>1. /\ e.id \in 1..clock /\ e.base <= stamp[e.on] /\ e.base \in Nat /\ e.on \in Entities
        /\ e.id \in applied => e.base < stamp[e.on]
    BY DEF StackInv, Dated, Entries
  <2>2. ASSUME NEW g \in req[c].entry, g.id = e.id, row' # row, req[c].pc = "apply"
        PROVE  e.base < stamp'[e.on]
    <3>1. e.on = hand.on
      BY <1>6, <2>2 DEF StackInv, OneEach
    <3> QED
      BY <1>3, <2>1, <2>2, <3>1
  <2> QED
    BY <1>3, <1>5, <2>1, <2>2
<1>8. OneEach'
  BY <1>4 DEF StackInv, OneEach
<1>9. Bases'
  <2> SUFFICES ASSUME NEW d \in Clients, req[d].pc \in {"check", "wait", "reread", "insert"}
               PROVE  req[d].base <= stamp'[req[d].on]
    BY DEF Bases
  <2> QED
    BY <1>3, RequestShape DEF StackInv, Bases, IInv
<1>10. Unapplied'
  <2> SUFFICES ASSUME NEW d \in Clients, Mates(d) = {}, req[d].pc = "apply", future[d] = "pending",
                      ~(InHand(d) /\ done)', NEW e \in req[d].entry
               PROVE  e.id \notin applied'
    BY <1>2 DEF Unapplied, Mates
  <2>1. d # c
    BY <1>1, <1>2 DEF InHand
  <2>2. e.id \notin applied
    BY DEF StackInv, Unapplied
  <2>3. e \in Entries /\ Has(who[d], e) /\ who[d] \in Users /\ who[d] # who[c]
    BY <2>1, RequestShape DEF IInv, Has, Mates
  <2>4. \A g \in req[c].entry : g.id # e.id
    BY <1>6, <2>3 DEF StackInv, OneEach
  <2> QED
    BY <1>5, <2>2, <2>4
<1>11. applied' \subseteq 1..clock'
  <2>1. \A g \in req[c].entry : g.id \in 1..clock
    BY <1>6 DEF StackInv, Dated
  <2>2. applied \subseteq 1..clock
    BY DEF StackInv
  <2>3. ASSUME NEW id \in applied' PROVE id \in 1..clock
    BY <1>5, <2>1, <2>2
  <2> QED
    BY <2>3
<1> QED
  BY <1>7, <1>8, <1>9, <1>10, <1>11 DEF StackInv

LEMMA ConsumeStack ==
  ASSUME IInv, AuditInv, StackInv, Consume
  PROVE  StackInv'
<1>1. SameRequests /\ UNCHANGED <<who, undo, clock>>
  BY ConsumeSide DEF Consume, bounds
<1>2. Take \/ Apply \/ Handler
  BY DEF Consume, ConsumerStep, Handler
<1>3. \/ req' = req
      \/ future' # future /\ req' = [req EXCEPT ![hand.by].base = stamp[hand.on]]
  BY DEF Consume
<1>4. CASE Take
  BY <1>4, TakeStack
<1>5. CASE Apply
  <2>1. /\ hand # NoCommand /\ Resolve(hand.by, "ok") /\ hand' = NoCommand /\ UNCHANGED <<row, stamp>>
        /\ "ok" \in Outcome \ {"none", "pending"}
    BY <1>5 DEF Apply, rowVars, Outcome
  <2>2. UNCHANGED applied
    BY <2>1 DEF Consume
  <2> QED
    BY <1>1, <1>3, <2>1, <2>2, AnsweredStack
<1>6. CASE Handler
  <2>1. /\ hand # NoCommand /\ ~done
        /\ \/ \E why \in Outcome \ {"none", "pending", "ok"} : Fail(why)
           \/ \E S \in SUBSET Entities : \E new :
                /\ Commit(S, new) /\ hand.on \in S /\ \A x \in S : new[x] \in Value
                /\ row' # row => new[hand.on] # row[hand.on]
    BY <1>6, HandlerCommits DEF IInv
  <2>2. ASSUME NEW why \in Outcome \ {"none", "pending", "ok"}, Fail(why)
        PROVE  StackInv'
    <3>1. Resolve(hand.by, why) /\ hand' = NoCommand /\ UNCHANGED <<row, stamp>>
      BY <2>2 DEF Fail, rowVars
    <3>2. UNCHANGED applied
      BY <3>1 DEF Consume
    <3> QED
      BY <1>1, <1>3, <2>1, <3>1, <3>2, AnsweredStack
  <2>3. ASSUME NEW S \in SUBSET Entities, NEW new, Commit(S, new), hand.on \in S,
               \A x \in S : new[x] \in Value, row' # row => new[hand.on] # row[hand.on]
        PROVE  StackInv'
    <3>1. future' = future /\ req' = req
      BY <1>3, <2>3 DEF Commit
    <3>2. applied' = IF row' # row /\ Popping(hand.by)
                       THEN applied \cup {e.id : e \in req[hand.by].entry} ELSE applied
      BY DEF Consume
    <3> QED
      BY <1>1, <2>1, <2>3, <3>1, <3>2, CommittedStack
  <2> QED
    BY <2>1, <2>2, <2>3
<1> QED
  BY <1>2, <1>4, <1>5, <1>6

LEMMA FailsStack ==
  ASSUME IInv, AuditInv, StackInv, DatabaseFails
  PROVE  StackInv'
<1>1. /\ hand # NoCommand /\ Fail("error") /\ UNCHANGED <<who, req, undo, clock, applied>>
  BY DEF DatabaseFails, HandlerFails, requestVars
<1>2. SameRequests
  BY <1>1 DEF SameRequests
<1>3. /\ Resolve(hand.by, "error") /\ hand' = NoCommand /\ UNCHANGED stamp
      /\ "error" \in Outcome \ {"none", "pending"}
  BY <1>1 DEF Fail, rowVars, Outcome
<1> QED
  BY <1>1, <1>2, <1>3, AnsweredStack

\* The stacks outlive the process; the requests on them do not.
LEMMA RestartStack ==
  ASSUME IInv, StackInv, Restart
  PROVE  StackInv'
<1>1. /\ req' = [c \in Clients |-> Idle] /\ UNCHANGED <<stamp, who, undo, clock, applied>>
  BY DEF Restart, Stop, stackVars, rowVars
<1>2. \A c \in Clients : req'[c].pc = "idle" /\ req'[c].todo = {} /\ req'[c].entry = {}
  BY <1>1, IdleHolds
<1>3. \A u, e : Has(u, e)' => Has(u, e)
  BY <1>1, <1>2 DEF Has
<1>4. Dated' /\ OneEach'
  BY <1>1, <1>3 DEF StackInv, Dated, OneEach
<1>5. Bases' /\ Unapplied'
  BY <1>2 DEF Bases, Unapplied
<1> QED
  BY <1>1, <1>4, <1>5 DEF StackInv

LEMMA InitStack ==
  ASSUME Init
  PROVE  StackInv
<1>1. /\ \A c \in Clients : req[c].pc = "idle" /\ req[c].todo = {} /\ req[c].entry = {}
      /\ \A u \in Users : undo[u] = {}
      /\ applied = {}
  BY IdleHolds DEF Init
<1>2. \A u \in Users : \A e : ~Has(u, e)
  BY <1>1 DEF Has
<1> QED
  BY <1>1, <1>2 DEF StackInv, Dated, OneEach, Bases, Unapplied

LEMMA NextStack ==
  ASSUME IInv, AuditInv, StackInv, [Next]_vars
  PROVE  StackInv'
<1>1. CASE UNCHANGED vars
  <2>1. UNCHANGED <<hand, done, stamp, future, who, req, undo, clock, applied>>
    BY <1>1 DEF vars, writerVars, rowVars, requestVars
  <2> QED
    BY <2>1 DEF StackInv, Dated, OneEach, Bases, Unapplied, Has, Mates, InHand
<1>2. CASE Consume \/ DatabaseFails \/ Restart
  BY <1>2, ConsumeStack, FailsStack, RestartStack
<1>3. ASSUME NEW c \in Clients, Client(c) \/ StartPop(c)
      PROVE  StackInv'
  BY <1>3, LoadStack, ReadGraphStack, ReplyStack, ReReadStack, InsertStack, PushStack, WalkStack,
     StartInverseStack, PopStack DEF Client
<1>4. ASSUME NEW c \in Clients, AskGraph(c, "read", Idle.on)
      PROVE  StackInv'
  <2> DEFINE x == Idle.on
  <2>1. x \in Entities /\ AskGraph(c, "read", x)
    BY <1>4, IdleShape DEF Requests
  <2> HIDE DEF x
  <2> QED
    BY <2>1, AskStack
<1>5. ASSUME NEW c \in Clients, NEW e \in Edges, AskGraph(c, "createEdge", e)
      PROVE  StackInv'
  BY <1>5, AskStack DEF Entities
<1>6. ASSUME NEW c \in Clients, NEW n \in Nodes, NEW l \in Labels,
             NEW op \in {"updateNode", "createNode", "deleteNode", "undoNode"}, Submit(c, op, n, l)
      PROVE  StackInv'
  <2>1. op \in NodeOps \cup EdgeOps /\ Fits(op, n) /\ n \in Entities
    BY DEF NodeOps, EdgeOps, Fits, Entities
  <2> QED
    BY <1>6, <2>1, SubmitStack
<1>7. ASSUME NEW c \in Clients, NEW e \in Edges, NEW op \in {"deleteEdge", "undoEdge"},
             Submit(c, op, e, AnyLabel)
      PROVE  StackInv'
  <2>1. op \in NodeOps \cup EdgeOps /\ Fits(op, e) /\ e \in Entities /\ AnyLabel \in Labels
    BY DEF NodeOps, EdgeOps, Fits, Entities, AnyLabel
  <2> QED
    BY <1>7, <2>1, SubmitStack
<1>8. AnyLabel \in Labels
  BY DEF AnyLabel
<1>9. CASE Rest
  BY <1>1, <1>9 DEF Rest
<1>10. CASE Next
  BY <1>2, <1>3, <1>4, <1>5, <1>6, <1>7, <1>8, <1>9, <1>10 DEF Next
<1> QED
  BY <1>1, <1>10

\* Only a handler writes rows.
LEMMA WritersHandle ==
  ASSUME [Next]_vars, row' # row
  PROVE  Handler
<1>1. Next => Handler \/ UNCHANGED row
  BY DEF Next, Rest, vars, writerVars, rowVars, Consume, ConsumerStep, Take, Apply, Handler,
         DatabaseFails, HandlerFails, Fail, Restart, Stop, Client, StartPop, Load, StartLoad,
         LoadEdges, Install, ReadGraph, Reply, ReRead, Insert, Push, DropStale, StartInverse,
         EndInverse, EndPop, AskGraph, Submit, Enqueue
<1>2. UNCHANGED vars => UNCHANGED row
  BY DEF vars, writerVars, rowVars
<1> QED
  BY <1>1, <1>2

\* While one session of a member pops at a time, the inverse of an entry changes
\* the graph once: what fails, restarts or is retried between the inverse and the
\* mark cannot apply it again. (service.py:708-744)
THEOREM InversesApplyOnce == Spec => AppliedOnce
<1>1. Init => IInv /\ AuditInv /\ StackInv
  BY InitInvariant, InitAudit, InitStack
<1>2. IInv /\ AuditInv /\ StackInv /\ [Next]_vars => (IInv /\ AuditInv /\ StackInv)'
  BY NextInvariant, NextAudit, NextStack
<1>3. IInv /\ StackInv /\ [Next]_vars
        => [row' # row /\ Popping(hand.by) /\ Mates(hand.by) = {}
              => \A e \in req[hand.by].entry : e.id \notin applied]_vars
  <2> SUFFICES ASSUME IInv, StackInv, [Next]_vars, row' # row, Popping(hand.by), Mates(hand.by) = {}
               PROVE  \A e \in req[hand.by].entry : e.id \notin applied
    OBVIOUS
  <2>1. hand # NoCommand /\ ~done
    BY WritersHandle, HandlerCommits DEF IInv
  <2>2. PICK c \in Clients : c = hand.by
    BY <2>1, QueuedShape DEF IInv, WInv
  <2>3. future[c] = "pending" /\ req[c].pc = "apply"
    BY <2>1, <2>2 DEF IInv, Served, InHand, Popping
  <2> QED
    BY <2>1, <2>2, <2>3 DEF StackInv, Unapplied
<1> QED
  BY <1>1, <1>2, <1>3, PTL DEF Spec, AppliedOnce
=============================================================================
