---------------------------- MODULE GraphWriter ----------------------------
(***************************************************************************)
(* The single writer of one engagement's graph                             *)
(* (backend/app/features/graph/writer.py): a queue of commands, one        *)
(* consumer task that runs each in a transaction of its own, the rows it   *)
(* commits, and the copy in memory that readers are served from.           *)
(*                                                                         *)
(* The consumer awaits twice in a command: in the handler, up to the       *)
(* commit, and in the commit.  What follows the commit, the change of the  *)
(* copy and the result of the future, happens without an await.  A reader  *)
(* that finds the copy cold loads it with a session of its own, in two     *)
(* SELECTs, beside the consumer.                                           *)
(***************************************************************************)
EXTENDS Naturals, Sequences, FiniteSets

CONSTANTS
  Nodes, Edges,
  Ends,       \* Ends[e]: source and target; edges of equal Ends are the same triple
  Labels,     \* label and properties of an entity
  Clients,    \* requests of members, each with at most one command in flight
  Start,      \* the rows a process finds when it starts
  NoRow,      \* no such row, or nothing in memory
  NoCommand   \* the consumer waits for the queue

Entities == Nodes \cup Edges
Value    == [label : Labels, live : BOOLEAN]  \* live is ~deleted

ASSUME GraphAssumption ==
  /\ Nodes \cap Edges = {} /\ NoRow \notin Value /\ Nodes # {} /\ Labels # {}
  /\ Ends \in [Edges -> Nodes \X Nodes]
  /\ Start \in [Entities -> Value \cup {NoRow}]

\* What was there before was not left by undos: live edges join live nodes.
ASSUME StartAssumption ==
  \A e \in Edges : \A i \in 1..2 :
    Start[e] # NoRow /\ Start[e].live => Start[Ends[e][i]] # NoRow /\ Start[Ends[e][i]].live

NodeOps == {"createNode", "updateNode", "deleteNode", "undoNode"}
EdgeOps == {"createEdge", "deleteEdge", "undoEdge"}
Command == [op : NodeOps, on : Nodes, label : Labels, by : Clients]
             \cup [op : EdgeOps, on : Edges, label : Labels, by : Clients]
ASSUME CommandAssumption == NoCommand \notin Command

VARIABLES
  row,      \* graph_nodes and graph_edges as committed
  history,  \* graph_node_history and graph_edge_history, oldest first
  stamp,    \* updated_at: bumped by an UPDATE that changes something
  restored, \* the entities last written by an undo (history variable)
  memory,   \* the NetworkX graph
  warm,     \* _warm
  load,     \* what a reader that found the copy cold has loaded so far
  queue,    \* commands not yet taken
  hand,     \* the command the consumer has taken
  done,     \* its transaction is committed
  future,   \* the future a client awaits
  late      \* a load was installed over newer rows (history variable)

rowVars    == <<row, history, stamp, restored>>
memoryVars == <<memory, warm, load, late>>
writerVars == <<rowVars, memoryVars, queue, hand, done, future>>

Outcome == {"none", "pending", "ok", "notFound", "noHistory", "duplicate", "error"}
NoLoad  == [step |-> "none", seen |-> [x \in Entities |-> NoRow]]

WriterTypeOK ==
  /\ row \in [Entities -> Value \cup {NoRow}]
  /\ history \in [Entities -> Seq(Value)]
  /\ stamp \in [Entities -> Nat] /\ restored \in SUBSET Entities
  /\ memory \in [Entities -> Value \cup {NoRow}]
  /\ warm \in BOOLEAN /\ done \in BOOLEAN /\ late \in BOOLEAN
  /\ load \in [Clients -> [step : {"none", "nodes", "edges"},
                           seen : [Entities -> Value \cup {NoRow}]]]
  /\ queue \in Seq(Command)
  /\ hand \in Command \cup {NoCommand}
  /\ future \in [Clients -> Outcome]

WriterInit ==
  /\ row = Start
  /\ history = [x \in Entities |-> <<>>]
  /\ stamp = [x \in Entities |-> 0] /\ restored = {}
  /\ memory = [x \in Entities |-> NoRow] /\ warm = FALSE /\ late = FALSE
  /\ load = [c \in Clients |-> NoLoad]
  /\ queue = <<>> /\ hand = NoCommand /\ done = FALSE
  /\ future = [c \in Clients |-> "none"]
-----------------------------------------------------------------------------
(* The rows and the copy.                                                  *)

Live(x)     == row[x] # NoRow /\ row[x].live
Touches(n)  == {e \in Edges : \E i \in 1..2 : Ends[e][i] = n}
\* Broken variant: the cascade follows outgoing edges only.
Outgoing(n) == {e \in Edges : Ends[e][1] = n /\ Live(e)}

Incident(n) == {e \in Touches(n) : Live(e)}

\* find_live_edge: another live edge has the triple of e.
TripleTaken(e) == \E d \in Edges \ {e} : Ends[d] = Ends[e] /\ Live(d)

\* uq_graph_edges_live_triple, the partial unique index.
IndexAllows(rows) ==
  \A d, e \in Edges : /\ d # e /\ Ends[d] = Ends[e]
                      /\ rows[d] # NoRow /\ rows[e] # NoRow
                      => ~(rows[d].live /\ rows[e].live)

\* The rows once the entities of S have the values new gives them.
Changed(S, new) == [x \in Entities |-> IF x \in S THEN new[x] ELSE row[x]]

\* The entities of which a transaction on S records what it found.
Recorded(S) == {x \in S : row[x] # NoRow}

\* A row that is assigned what it already says is not updated.
Bumped(S, new) == {x \in S : new[x] # row[x]}

Resolve(c, how) == future' = [future EXCEPT ![c] = how]

\* Broken variant: the client of a command that fails is not told.
FailSilently(why) == hand' = NoCommand /\ UNCHANGED <<rowVars, memoryVars, queue, done, future>>

\* An exception of the handler: rollback, and the future gets it.
Fail(why) == /\ Resolve(hand.by, why) /\ hand' = NoCommand
             /\ UNCHANGED <<rowVars, memoryVars, queue, done>>

\* History, the change and the commit are one transaction.
Commit(S, new) ==
  /\ row' = Changed(S, new)
  /\ history' = [x \in Entities |-> IF x \in Recorded(S) THEN Append(history[x], row[x])
                                                         ELSE history[x]]
  /\ stamp' = [x \in Entities |-> IF x \in Bumped(S, new) THEN stamp[x] + 1
                                                          ELSE stamp[x]]
  /\ restored' = IF hand.op \in {"undoNode", "undoEdge"} THEN restored \cup S
                                                        ELSE restored \ S
  /\ done' = TRUE
  /\ UNCHANGED <<memoryVars, queue, hand, future>>

Handling(op) == hand # NoCommand /\ ~done /\ hand.op = op

On(v) == [x \in {hand.on} |-> v]
-----------------------------------------------------------------------------
(* The handlers, up to their commit.                                       *)

HandleCreateNode ==
  /\ Handling("createNode")
  /\ Commit({hand.on}, On([label |-> hand.label, live |-> TRUE]))

HandleUpdateNode ==
  /\ Handling("updateNode")
  /\ IF Live(hand.on)
       THEN Commit({hand.on}, On([label |-> hand.label, live |-> TRUE]))
       ELSE Fail("notFound")

HandleSoftDeleteNode ==
  /\ Handling("deleteNode")
  /\ LET gone == {hand.on} \cup Incident(hand.on)
     IN  IF Live(hand.on)
           THEN Commit(gone, [x \in gone |-> [row[x] EXCEPT !.live = FALSE]])
           ELSE Fail("notFound")

HandleCreateEdge ==
  /\ Handling("createEdge")
  /\ IF ~(\A i \in 1..2 : Live(Ends[hand.on][i])) THEN Fail("notFound")
     ELSE IF TripleTaken(hand.on) THEN Fail("duplicate")
     ELSE Commit({hand.on}, On([label |-> hand.label, live |-> TRUE]))

HandleSoftDeleteEdge ==
  /\ Handling("deleteEdge")
  /\ IF Live(hand.on) THEN Commit({hand.on}, On([row[hand.on] EXCEPT !.live = FALSE]))
                      ELSE Fail("notFound")

\* Broken variant: the oldest history row is put back.
FirstState(x) == history[x][1]

\* What undo_node and undo_edge put back: the newest history row.
Prior(x) == history[x][Len(history[x])]

\* undo_edge asks nothing about the ends of the edge; the index may refuse it.
PutBack ==
  IF row[hand.on] = NoRow THEN Fail("notFound")
  ELSE IF history[hand.on] = <<>> THEN Fail("noHistory")
  ELSE IF ~IndexAllows(Changed({hand.on}, On(Prior(hand.on)))) THEN Fail("error")
  ELSE Commit({hand.on}, On(Prior(hand.on)))

HandleUndoNode == Handling("undoNode") /\ PutBack
HandleUndoEdge == Handling("undoEdge") /\ PutBack

\* The database fails: whatever the handler was at is rolled back.
HandlerFails == hand # NoCommand /\ ~done /\ Fail("error")
-----------------------------------------------------------------------------
(* The consumer around the handlers, and the readers.                      *)

\* _ensure_warm: nobody else writes rows, so what the consumer's two SELECTs find
\* is what is there when the first one starts.
Warmed == IF warm THEN memory
          ELSE [x \in Entities |-> IF row[x] # NoRow THEN row[x] ELSE memory[x]]

\* queue.get, then the warm start.
Take ==
  /\ hand = NoCommand /\ queue # <<>>
  /\ hand' = Head(queue) /\ queue' = Tail(queue) /\ done' = FALSE
  /\ memory' = Warmed /\ warm' = TRUE
  /\ UNCHANGED <<rowVars, load, late, future>>

\* Broken variant: the cascade stays out of the copy.
DeadNodesOnly(S) == [x \in Entities |-> IF x \in S /\ memory[x] # NoRow /\ x \in Nodes
                                 THEN [memory[x] EXCEPT !.live = FALSE] ELSE memory[x]]

\* apply_soft_delete_*: marked, not removed; what the copy lacks stays out.
Dead(S) == [x \in Entities |-> IF x \in S /\ memory[x] # NoRow
                                 THEN [memory[x] EXCEPT !.live = FALSE] ELSE memory[x]]

\* After the commit: the copy follows and the client is answered.
Apply ==
  /\ hand # NoCommand /\ done
  /\ memory' = CASE hand.op = "deleteNode" -> Dead({hand.on} \cup Touches(hand.on))
                 [] hand.op = "deleteEdge" -> Dead({hand.on})
                 [] OTHER -> [memory EXCEPT ![hand.on] = row[hand.on]]
  /\ Resolve(hand.by, "ok") /\ hand' = NoCommand /\ done' = FALSE
  /\ UNCHANGED <<rowVars, warm, load, late, queue>>

\* submit_*: enqueue and await the future.
Enqueue(c, op, x, l) ==
  /\ queue' = Append(queue, [op |-> op, on |-> x, label |-> l, by |-> c])
  /\ Resolve(c, "pending")
  /\ UNCHANGED <<rowVars, memoryVars, hand, done>>

Seen(c, S) == [x \in Entities |-> IF x \in S THEN row[x] ELSE load[c].seen[x]]

\* _ensure_warm_read: load_full_graph reads the nodes, then the edges.
StartLoad(c) ==
  /\ ~warm
  /\ load' = [load EXCEPT ![c] = [step |-> "nodes", seen |-> Seen(c, Nodes)]]
  /\ UNCHANGED <<rowVars, memory, warm, late, queue, hand, done, future>>

LoadEdges(c) ==
  /\ load[c].step = "nodes"
  /\ load' = [load EXCEPT ![c] = [step |-> "edges", seen |-> Seen(c, Edges)]]
  /\ UNCHANGED <<rowVars, memory, warm, late, queue, hand, done, future>>

\* Every row loaded goes into the copy, whatever the copy says by now.
Install(c) ==
  /\ load[c].step = "edges"
  /\ memory' = [x \in Entities |-> IF load[c].seen[x] # NoRow THEN load[c].seen[x]
                                                              ELSE memory[x]]
  /\ warm' = TRUE
  /\ late' = (late \/ \E x \in Entities : load[c].seen[x] \notin {NoRow, row[x]})
  /\ load' = [load EXCEPT ![c] = NoLoad]
  /\ UNCHANGED <<rowVars, queue, hand, done, future>>

Forget == /\ memory' = [x \in Entities |-> NoRow] /\ warm' = FALSE /\ late' = FALSE
          /\ load' = [c \in Clients |-> NoLoad]
          /\ queue' = <<>> /\ hand' = NoCommand /\ done' = FALSE

\* The process ends, by shutdown or by a crash: what is in memory is lost, what
\* was not committed is rolled back.
Stop == Forget /\ future' = [c \in Clients |-> "none"] /\ UNCHANGED rowVars

ConsumerStep ==
  \/ Take \/ Apply \/ HandleCreateNode \/ HandleUpdateNode \/ HandleSoftDeleteNode
  \/ HandleCreateEdge \/ HandleSoftDeleteEdge \/ HandleUndoNode \/ HandleUndoEdge
-----------------------------------------------------------------------------
(* Properties.                                                             *)

\* Who awaits an answer is owed one: the client's command, one and no more, is in
\* the queue or in the consumer's hand. (writer.py:43-45)
InService(c) == {i \in DOMAIN queue : queue[i].by = c}
AwaitedIsServed ==
  \A c \in Clients :
    IF future[c] = "pending"
      THEN Cardinality(InService(c)) = (IF hand # NoCommand /\ hand.by = c THEN 0 ELSE 1)
      ELSE InService(c) = {} /\ (hand # NoCommand => hand.by # c)

\* Between commands a warm copy mirrors the rows, deleted ones included, unless
\* a reader's load ended after a commit it had not seen.
\* (writer.py:47-52; the exception is _ensure_warm, writer.py:182-203)
MirrorsRows == warm /\ hand = NoCommand /\ ~late => memory = row

\* A live edge joins live nodes, unless the edge or the node was last written by
\* an undo, which follows no edges and asks nothing about ends.
\* (writer.py:404-431 cascades; 433-461 and 530-554 do not)
CascadeHolds ==
  \A e \in Edges : \A i \in 1..2 :
    Live(e) => Live(Ends[e][i]) \/ {e, Ends[e][i]} \cap restored # {}

\* Refinement: whatever queue, memory and sessions do, the rows change as if
\* every command were one step on the store. (writer.py:1-3, 35-41)
Store == INSTANCE GraphStore
           WITH now <- row,
                before <- [x \in Entities |-> IF history[x] = <<>> THEN NoRow
                                          ELSE history[x][Len(history[x])]]
ImplementsGraphStore == Store!Spec
=============================================================================
