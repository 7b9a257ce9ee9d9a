----------------------------- MODULE GraphStore -----------------------------
(***************************************************************************)
(* What the graph of one engagement promises, without queue, futures,      *)
(* memory or sessions: entities that are written one transaction at a      *)
(* time, and of each the state before its last write, which an undo puts   *)
(* back.  (backend/app/features/graph/writer.py, docstring lines 1-45)     *)
(***************************************************************************)
EXTENDS Naturals, FiniteSets

CONSTANTS Nodes, Edges,
          Ends,    \* Ends[e]: source and target of edge e (and its relation)
          Labels,  \* what a node can say
          Start,   \* Start[x]: the row of x to begin with
          NoRow    \* the entity does not exist

VARIABLES now,    \* now[x]: the row of x
          before  \* before[x]: x before its last write, or NoRow

vars == <<now, before>>

Entities == Nodes \cup Edges
Value    == [label : Labels, live : BOOLEAN]

Alive(x) == now[x] # NoRow /\ now[x].live

Init == now = Start /\ before = [x \in Entities |-> NoRow]

\* One transaction gives the entities in S the rows new[x].
Put(S, new) ==
  /\ now' = [x \in Entities |-> IF x \in S THEN new[x] ELSE now[x]]
  /\ before' = [x \in Entities |-> IF x \in S THEN now[x] ELSE before[x]]

Create(x) == /\ now[x] = NoRow
             /\ x \in Edges => \A i \in 1..2 : Alive(Ends[x][i])
             /\ \E v \in Value : v.live /\ Put({x}, [y \in {x} |-> v])

Change(n) == Alive(n) /\ \E v \in Value : v.live /\ Put({n}, [y \in {n} |-> v])

\* A node takes the live edges that touch it along.
Remove(x) ==
  /\ Alive(x)
  /\ LET gone == {x} \cup {e \in Edges : Alive(e) /\ \E i \in 1..2 : Ends[e][i] = x}
     IN  Put(gone, [y \in gone |-> [now[y] EXCEPT !.live = FALSE]])

\* To undo twice is to redo: what is put back changes places with what is there.
Undo(x) == before[x] # NoRow /\ Put({x}, before)

Next == \/ \E x \in Entities : Create(x) \/ Remove(x) \/ Undo(x)
        \/ \E n \in Nodes : Change(n)

Spec == Init /\ [][Next]_vars
=============================================================================
