------------------------------ MODULE SlotPool ------------------------------
(***************************************************************************)
(* What the admission manager of one engagement promises, without queues,  *)
(* tickets, tasks or decisions: a set of runs holds slots, nobody enters   *)
(* beyond the limit in force, and two holders never share a target host.   *)
(* (backend/app/features/mcp/concurrency.py, docstring lines 1-10, 49-53)  *)
(***************************************************************************)
EXTENDS Naturals, FiniteSets

CONSTANTS Runs,    \* heavy and light tool runs of one engagement
          NoHost,  \* the target host of a run that names none
          HostOf   \* HostOf[r]: the host run r locks, or NoHost

VARIABLES holders,  \* the runs that hold a slot
          limit     \* the slot limit in force

vars == <<holders, limit>>

\* No two runs of S lock the same host.
HostsDisjoint(S) ==
  \A r, s \in S : r # s /\ HostOf[r] # NoHost => HostOf[r] # HostOf[s]

Init == holders = {} /\ limit \in Nat

\* Some holders leave and some runs enter.  Entering respects the limit; a
\* lowered limit never evicts the holders it finds (no preemption on shrink).
Turnover(gone, new) ==
  /\ holders' = (holders \ gone) \cup new
  /\ limit' \in Nat
  /\ new # {} => Cardinality(holders') <= limit'
  /\ HostsDisjoint(holders')

Next == \E gone \in SUBSET holders, new \in SUBSET (Runs \ holders) :
          Turnover(gone, new)

Spec == Init /\ [][Next]_vars
=============================================================================
