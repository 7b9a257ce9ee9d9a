-------------------------- MODULE MCOutputChannel --------------------------
(***************************************************************************)
(* A run that is resumed once and a call that blocks share one server; one *)
(* browser watches the run.                                                *)
(***************************************************************************)
EXTENDS OutputChannel

CONSTANTS r1, w

MCWatches == [k \in {w} |-> r1]
=============================================================================
