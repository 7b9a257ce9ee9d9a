------------------------------ MODULE MCGraph ------------------------------
(***************************************************************************)
(* Two sessions, of one member or of two, on a graph of three nodes, one   *)
(* of them not there yet, and two edges of the same triple.                *)
(***************************************************************************)
EXTENDS GraphUndo, TLC

CONSTANTS n1, n2, n3, e1, e2, a, b, c1, c2, u1, u2

MCNodes    == {n1, n2, n3}
MCEdges    == {e1, e2}
MCEnds     == [e \in MCEdges |-> <<n1, n2>>]
MCStart    == [x \in {n1, n2, e1} |-> [label |-> a, live |-> TRUE]] @@ (e2 :> NoRow) @@ (n3 :> NoRow)
MCSessions == {(c1 :> u1) @@ (c2 :> u1), (c1 :> u1) @@ (c2 :> u2)}
=============================================================================
