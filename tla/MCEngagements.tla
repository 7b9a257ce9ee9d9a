---------------------------- MODULE MCEngagements ----------------------------
(***************************************************************************)
(* An owner and a member, a session each, and two requests at a time.      *)
(***************************************************************************)
EXTENDS Engagements, TLC

CONSTANTS alice, bob, a, b

MCUserOf == (a :> alice) @@ (b :> bob)

Symmetry == Permutations(Requests)
=============================================================================
