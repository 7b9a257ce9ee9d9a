----------------------------- MODULE MCAiTurns -----------------------------
(***************************************************************************)
(* A small instance of AiTurns for TLC.                                    *)
(***************************************************************************)
EXTENDS AiTurns, TLC

CONSTANTS t, u,             \* turns
          safe, scan, wide  \* commands

\* safe runs by itself, scan needs a reason that can be delegated, and wide one
\* more that cannot.
SmallTurnOf    == safe :> t @@ scan :> t @@ wide :> u
SmallReasonsOf == safe :> {} @@ scan :> {"aggressive_scan"}
                  @@ wide :> {"aggressive_scan", "unclassified_manifest"}
SmallReasons   == {"aggressive_scan", "unclassified_manifest"}
SmallDelegable == {"aggressive_scan"}
=============================================================================
