----------------------------- MODULE MCFindings -----------------------------
(***************************************************************************)
(* Two transactions at a time on a finding that does not exist yet.        *)
(***************************************************************************)
EXTENDS Findings

MCActs == {"created", "updated", "status_changed", "deleted"} \X FindingIds
=============================================================================
