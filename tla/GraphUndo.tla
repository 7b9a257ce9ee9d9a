----------------------------- MODULE GraphUndo -----------------------------
(***************************************************************************)
(* The requests on the graph of one engagement                             *)
(* (backend/app/features/graph/service.py) around its single writer: each  *)
(* submits a command, awaits the answer, and then records in a transaction *)
(* of its own what can be undone and what was done.                        *)
(***************************************************************************)
EXTENDS GraphWriter

CONSTANTS
  Users,
  Sessions,   \* which clients may act for which member
  UndoCap,    \* UNDO_STACK_CAP
  MaxRequests, MaxRestarts  \* bounds of a behaviour

ASSUME UndoAssumption ==
  /\ Sessions \subseteq [Clients -> Users] /\ IsFiniteSet(Clients)
  /\ UndoCap \in Nat \ {0} /\ MaxRequests \in Nat /\ MaxRestarts \in Nat

VARIABLES
  who,      \* the member a client acts for
  req,      \* where the handler of each client's request is
  undo,     \* graph_user_undo_stack of each user
  audited,  \* graph_* audit entries of each entity
  clock,    \* recorded_at of the newest undo entry
  begun,    \* requests so far
  restarts, \* restarts so far
  applied   \* undo entries whose inverse has changed a row (history variable)

bounds      == <<who, begun, restarts>>
stackVars   == <<undo, audited, clock, applied>>
requestVars == <<who, req, undo, audited, clock, begun, restarts, applied>>
vars == <<writerVars, requestVars>>

Undoable == {"createNode", "updateNode", "deleteNode", "createEdge", "deleteEdge"}
AnyLabel == CHOOSE l \in Labels : TRUE

\* An undo entry: what was done, and updated_at of its target afterwards.
Entry(id, op, on, base) == [id |-> id, op |-> op, on |-> on, base |-> base, undone |-> FALSE]

\* todo: the entries a pop has listed and not yet walked; held: the entries it
\* has marked; entry and trim: what a push has inserted and deleted.
Idle == [pc |-> "idle", op |-> "read", on |-> CHOOSE n \in Nodes : TRUE, base |-> 0,
         todo |-> {}, held |-> {}, entry |-> {}, trim |-> {}]

PCs == {"idle", "check", "wait", "reread", "insert", "push", "walk", "apply"}

Entries == [id : Nat, op : Undoable, on : Entities, base : Nat, undone : BOOLEAN]

TypeOK ==
  /\ WriterTypeOK /\ who \in [Clients -> Users]
  /\ req \in [Clients -> [pc : PCs, op : NodeOps \cup EdgeOps \cup {"read", "pop"},
                          on : Entities, base : Nat, todo : SUBSET Entries,
                          held : SUBSET Nat, entry : SUBSET Entries, trim : SUBSET Nat]]
  /\ undo \in [Users -> SUBSET Entries]
  /\ audited \in [Entities -> Nat]
  /\ clock \in Nat /\ begun \in 0..MaxRequests /\ restarts \in 0..MaxRestarts /\ applied \in SUBSET Nat

Init ==
  /\ WriterInit /\ who \in Sessions
  /\ req = [c \in Clients |-> Idle]
  /\ undo = [u \in Users |-> {}]
  /\ audited = [x \in Entities |-> 0]
  /\ clock = 0 /\ begun = 0 /\ restarts = 0 /\ applied = {}

Go(c, r) == req' = [req EXCEPT ![c] = r]
End(c)   == req' = [req EXCEPT ![c] = Idle]
-----------------------------------------------------------------------------
(* Ordinary requests.                                                      *)

\* A new id is one that no row and no other request has.
Fresh(x) == row[x] = NoRow /\ \A c \in Clients : req[c].pc # "idle" => req[c].on # x

Begin(c) == /\ req[c].pc = "idle"
            /\ begun < MaxRequests /\ begun' = begun + 1
            /\ UNCHANGED <<who, restarts>>

\* create_node, update_node, delete_node, undo_node, delete_edge, undo_edge
Submit(c, op, x, l) ==
  /\ Begin(c)
  /\ IF op = "createNode" THEN Fresh(x) ELSE row[x] # NoRow
  /\ Go(c, [Idle EXCEPT !.pc = "wait", !.op = op, !.on = x])
  /\ Enqueue(c, op, x, l)
  /\ UNCHANGED stackVars

\* get_graph, and create_edge, which looks at its ends in the copy first
AskGraph(c, op, x) ==
  /\ Begin(c)
  /\ op = "createEdge" => Fresh(x)
  /\ Go(c, [Idle EXCEPT !.pc = "check", !.op = op, !.on = x])
  /\ UNCHANGED <<writerVars, stackVars>>

Load(c) ==
  /\ req[c].pc = "check"
  /\ (load[c].step = "none" /\ StartLoad(c)) \/ LoadEdges(c) \/ Install(c)
  /\ UNCHANGED requestVars

EndsInCopy(e) == \A i \in 1..2 : memory[Ends[e][i]] # NoRow /\ memory[Ends[e][i]].live

ReadGraph(c) ==
  /\ req[c].pc = "check" /\ warm /\ load[c].step = "none"
  /\ IF req[c].op = "createEdge" /\ EndsInCopy(req[c].on)
       THEN Go(c, [req[c] EXCEPT !.pc = "wait"]) /\ Enqueue(c, "createEdge", req[c].on, AnyLabel)
       ELSE End(c) /\ UNCHANGED writerVars
  /\ UNCHANGED <<bounds, stackVars>>

Answered(c) == future[c] \notin {"none", "pending"}

\* Broken variant: an answer of any kind is taken for success.
SucceededOrNot(c) == Answered(c)

Succeeded(c) == future[c] = "ok"

\* What the client awaited it has.
Await(c) == future' = [future EXCEPT ![c] = "none"]

\* The result of the future carries updated_at of the row; a delete returns
\* nothing and the row is read again.  undo_node and undo_edge push nothing.
Reply(c) ==
  /\ req[c].pc = "wait" /\ Answered(c)
  /\ IF Succeeded(c) /\ req[c].op \in Undoable
       THEN Go(c, [req[c] EXCEPT !.pc = IF req[c].op \in {"deleteNode", "deleteEdge"}
                                          THEN "reread" ELSE "insert"])
       ELSE End(c)
  /\ Await(c)
  /\ UNCHANGED <<rowVars, memoryVars, queue, hand, done, bounds, stackVars>>

ReRead(c) ==
  /\ req[c].pc = "reread"
  /\ Go(c, [req[c] EXCEPT !.pc = "insert", !.base = stamp[req[c].on]])
  /\ UNCHANGED <<writerVars, bounds, stackVars>>
-----------------------------------------------------------------------------
(* The undo stack.                                                         *)

Active(u)     == {e \in undo[u] : ~e.undone}
Mates(c)      == {d \in Clients \ {c} : who[d] = who[c]}
Newer(S, e)   == {f \in S : f.id > e.id}
Exists(u, id) == \E e \in undo[u] : e.id = id

\* What falls off the bottom of the stack S.
Overflow(S) == {e \in S : Cardinality(Newer(S, e)) >= UndoCap}

\* push_undo_entry: the new entry goes in and the overflow goes out, as far as
\* this session sees it.  A row that a pop has marked is locked until its commit.
Insert(c) ==
  LET e    == Entry(clock + 1, req[c].op, req[c].on, req[c].base)
      trim == {f.id : f \in Overflow(Active(who[c]) \cup {e})}
  IN  /\ req[c].pc = "insert"
      /\ \A d \in Mates(c) : trim \cap (req[d].held \cup req[d].trim) = {}
      /\ clock' = clock + 1
      /\ Go(c, [req[c] EXCEPT !.pc = "push", !.entry = {e}, !.trim = trim])
      /\ UNCHANGED <<writerVars, bounds, undo, audited, applied>>

\* The audit entry, and the commit of both.
Push(c) ==
  /\ req[c].pc = "push"
  /\ undo' = [undo EXCEPT ![who[c]] =
                req[c].entry \cup {e \in @ : e.id \notin req[c].trim}]
  /\ audited' = [audited EXCEPT ![req[c].on] = @ + 1]
  /\ End(c)
  /\ UNCHANGED <<writerVars, bounds, clock, applied>>

\* Broken variant: an entry whose target changed is taken all the same.
StaleIfGone(e) == row[e.on] = NoRow

\* _is_entry_stale
Stale(e) == row[e.on] = NoRow \/ stamp[e.on] # e.base

\* _apply_inverse
InverseOp ==
  [createNode |-> "deleteNode", updateNode |-> "undoNode", deleteNode |-> "undoNode",
   createEdge |-> "deleteEdge", deleteEdge |-> "undoEdge"]

\* pop_undo_stack: the stack is listed once, and walked newest first.
StartPop(c) ==
  /\ Begin(c)
  /\ Go(c, [Idle EXCEPT !.pc = "walk", !.op = "pop", !.todo = Active(who[c])])
  /\ UNCHANGED <<writerVars, stackVars>>

IsTop(c, e) == e \in req[c].todo /\ Newer(req[c].todo, e) = {}

\* The UPDATE that marks an entry waits for whoever has the row in hand; if the
\* row was deleted meanwhile it matches none, and the request fails.
CanMark(c, e) == \A d \in Mates(c) : e.id \notin req[d].held \cup req[d].trim

\* The rows with these ids leave the stack of c's user.
MarkUndone(c, ids) ==
  undo' = [undo EXCEPT ![who[c]] = {[e EXCEPT !.undone = @ \/ e.id \in ids] : e \in undo[who[c]]}]

Drop(c, e) ==
  /\ CanMark(c, e)
  /\ IF Exists(who[c], e.id)
       THEN Go(c, [req[c] EXCEPT !.pc = "walk", !.todo = @ \ {e}, !.held = @ \cup {e.id}])
       ELSE End(c)

DropStale(c) ==
  \E e \in req[c].todo :
  /\ req[c].pc = "walk" /\ IsTop(c, e) /\ Stale(e) /\ Drop(c, e)
  /\ UNCHANGED <<writerVars, bounds, stackVars>>

StartInverse(c) ==
  \E e \in req[c].todo :
  /\ req[c].pc = "walk" /\ IsTop(c, e) /\ ~Stale(e)
  /\ Go(c, [req[c] EXCEPT !.pc = "apply", !.entry = {e}])
  /\ Enqueue(c, InverseOp[e.op], e.on, AnyLabel)
  /\ UNCHANGED <<bounds, stackVars>>

\* The inverse is applied: mark and audit it, unless the row is gone by now.
\* Nothing to apply it to: drop it and walk on.  Anything else ends the request,
\* and what it had marked is rolled back.
EndInverse(c) ==
  \E e \in req[c].entry :
  /\ req[c].pc = "apply" /\ Answered(c)
  /\ \/ /\ future[c] = "ok" /\ CanMark(c, e)
        /\ IF Exists(who[c], e.id)
             THEN /\ MarkUndone(c, req[c].held \cup {e.id})
                  /\ audited' = [audited EXCEPT ![e.on] = @ + 1]
             ELSE UNCHANGED <<undo, audited>>
        /\ End(c)
     \/ /\ future[c] \in {"notFound", "noHistory"}
        /\ Drop(c, e) /\ UNCHANGED <<undo, audited>>
     \/ /\ future[c] \notin {"ok", "notFound", "noHistory"}
        /\ End(c) /\ UNCHANGED <<undo, audited>>
  /\ Await(c)
  /\ UNCHANGED <<rowVars, memoryVars, queue, hand, done, bounds, clock, applied>>

\* Every entry was stale, or there was none.
EndPop(c) ==
  /\ req[c].pc = "walk" /\ req[c].todo = {}
  /\ MarkUndone(c, req[c].held) /\ End(c)
  /\ UNCHANGED <<writerVars, bounds, audited, clock, applied>>
-----------------------------------------------------------------------------
(* The consumer, and the process.                                          *)

Popping(c) == req[c].pc = "apply"

\* A step of the consumer: the answer of a write carries updated_at, and the
\* inverse of an entry is remembered once it has changed a row.
Consume ==
  /\ ConsumerStep
  /\ req' = IF future' # future /\ hand # NoCommand
              THEN [req EXCEPT ![hand.by].base = stamp[hand.on]] ELSE req
  /\ applied' = IF row' # row /\ Popping(hand.by)
                  THEN applied \cup {e.id : e \in req[hand.by].entry} ELSE applied
  /\ UNCHANGED <<bounds, undo, audited, clock>>

DatabaseFails == HandlerFails /\ UNCHANGED requestVars

\* The process ends and another starts; transactions in progress are rolled back.
Restart ==
  /\ restarts < MaxRestarts /\ restarts' = restarts + 1
  /\ Stop /\ req' = [c \in Clients |-> Idle]
  /\ UNCHANGED <<who, begun, stackVars>>

Client(c) == \/ Load(c) \/ ReadGraph(c) \/ Reply(c) \/ ReRead(c) \/ Insert(c) \/ Push(c)
             \/ DropStale(c) \/ StartInverse(c) \/ EndInverse(c) \/ EndPop(c)

\* Every request of the bound has ended: anything else that stops is a deadlock.
Rest == begun = MaxRequests /\ (\A c \in Clients : req[c].pc = "idle") /\ UNCHANGED vars

Next ==
  \/ Rest
  \/ Consume \/ DatabaseFails \/ Restart
  \/ \E c \in Clients :
       \/ Client(c) \/ StartPop(c)
       \/ ~warm /\ AskGraph(c, "read", Idle.on)  \* of a warm copy it changes nothing
       \/ \E e \in Edges : AskGraph(c, "createEdge", e)
       \/ \E n \in Nodes, l \in Labels : Submit(c, "updateNode", n, l)
       \/ \E n \in Nodes, op \in {"createNode", "deleteNode", "undoNode"} :
            Submit(c, op, n, AnyLabel)
       \/ \E e \in Edges, op \in {"deleteEdge", "undoEdge"} : Submit(c, op, e, AnyLabel)

Spec == Init /\ [][Next]_vars
-----------------------------------------------------------------------------
(* Properties.                                                             *)

\* An audit entry of a graph write stands for a write that was committed: no
\* entity has more of them than committed changes. (service.py:214-255, 730-744)
NoOrphanEntry ==
  \A x \in Entities :
    audited[x] <= Len(history[x]) + (IF Start[x] = NoRow /\ row[x] # NoRow THEN 1 ELSE 0)

\* An inverse changes the graph at most once, restarts between the inverse and
\* its mark and retries after a failure included, when one session pops at a time.
\* (service.py:708-744)
AppliedOnce ==
  [][row' # row /\ Popping(hand.by) /\ Mates(hand.by) = {}
       => \A e \in req[hand.by].entry : e.id \notin applied]_vars

\* A stale entry is never silently applied: when the inverse of an entry changes
\* a row, the target is as the entry left it. (service.py:164-182, 691-693)
NeverAppliedStale ==
  [][row' # row /\ Popping(hand.by) => \A e \in req[hand.by].entry : ~Stale(e)]_vars
=============================================================================
