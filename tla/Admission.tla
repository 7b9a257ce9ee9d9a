------------------------------ MODULE Admission ------------------------------
(***************************************************************************)
(* The in-process admission manager of one engagement                      *)
(* (backend/app/features/mcp/concurrency.py): a bounded slot pool, one     *)
(* exclusive lock per target host and a FIFO queue of tickets.  The module *)
(* holds the pool's state (_EngagementState, _Ticket) and one operator per *)
(* operation; the callers, and so the specification, are in ToolRuns.      *)
(* Everything between two awaits is one step: asyncio runs one task at a   *)
(* time and switches only where a coroutine suspends.                      *)
(***************************************************************************)
EXTENDS Integers, FiniteSets

CONSTANTS
  Runs,           \* tool runs of the engagement
  Hosts, NoHost,  \* target hosts, and "the tool has no target argument"
  HostOf,         \* resolve_target_host of each run's arguments
  Limits,         \* values concurrency_slot_limit is given
  MaxQueueDepth   \* MAX_QUEUE_DEPTH

ASSUME RunsAssumption  == IsFiniteSet(Runs)
ASSUME HostAssumption  == NoHost \notin Hosts /\ HostOf \in [Runs -> Hosts \cup {NoHost}]
ASSUME LimitAssumption == Limits \subseteq Nat \ {0} /\ MaxQueueDepth \in Nat \ {0}

VARIABLES
  slotLimit,    \* _EngagementState.slot_limit
  inUse,        \* _EngagementState.in_use
  lockedHosts,  \* _EngagementState.locked_hosts
  queue,        \* the keys of the OrderedDict _EngagementState.queue
  ahead,        \* its order: ahead[r] are the keys inserted before r
  ticket,       \* what r's _Ticket says to the coroutine that waits on it
  paused        \* _EngagementState.paused

poolVars == <<slotLimit, inUse, lockedHosts, queue, ahead, ticket, paused>>

TicketState == {"none", "waiting", "admitted", "killed"}

\* The default of _get_state, in force until an acquire or a PATCH sets another.
DefaultLimit == 3

PoolTypeOK ==
  /\ slotLimit \in Nat \ {0}
  /\ inUse \in Nat
  /\ lockedHosts \in SUBSET Hosts
  /\ queue \in SUBSET Runs
  /\ ahead \in [Runs -> SUBSET Runs]
  /\ ticket \in [Runs -> TicketState]
  /\ paused \in BOOLEAN

PoolInit ==
  /\ slotLimit = DefaultLimit
  /\ inUse = 0
  /\ lockedHosts = {}
  /\ queue = {}
  /\ ahead = [r \in Runs |-> {}]
  /\ ticket = [r \in Runs |-> "none"]
  /\ paused = FALSE

-----------------------------------------------------------------------------
(* The queue and the eligibility scan.                                     *)

HostsOf(S) == {HostOf[r] : r \in S} \ {NoHost}

\* queue.pop of every run of S.
Leave(S) ==
  /\ queue' = queue \ S
  /\ ahead' = [r \in Runs |-> IF r \in S THEN {} ELSE ahead[r] \ S]

\* Broken variant: the scan checks hosts against the locks it started with.
AdmitsStaleLocks(A, used, locked, limit) ==
  \A r \in queue :
    r \in A <=> /\ used + Cardinality(A \cap ahead[r]) < limit
                /\ HostOf[r] \notin locked

\* Broken variant: the newest waiter is served first.
AdmitsNewestFirst(A, used, locked, limit) ==
  \A r \in queue :
    LET earlier == {s \in A : r \in ahead[s]} IN
    r \in A <=> /\ used + Cardinality(earlier) < limit
                /\ HostOf[r] \notin locked \cup HostsOf(earlier)

\* A is the set of waiters the front-to-back walk of _scan_and_admit admits: a
\* waiter gets in exactly when, after the admissions ahead of it, a slot is left
\* and its host is unlocked.  (NoHost is never a member of a set of locks.)
Admits(A, used, locked, limit) ==
  \A r \in queue :
    LET earlier == A \cap ahead[r] IN
    r \in A <=> /\ used + Cardinality(earlier) < limit
                /\ HostOf[r] \notin locked \cup HostsOf(earlier)

\* _scan_and_admit, over the pool the caller has just changed.  The position
\* updates scheduled afterwards (_rebroadcast_positions) only rewrite the
\* 'queued' that the row of a waiter carries already; a write of the waiter's
\* own that they get in the way of fails like any best-effort write.
Scan(used, locked, limit) ==
  \E A \in SUBSET queue :
    /\ Admits(A, used, locked, limit)
    /\ inUse' = used + Cardinality(A)
    /\ lockedHosts' = locked \cup HostsOf(A)
    /\ Leave(A)
    /\ ticket' = [r \in Runs |-> IF r \in A THEN "admitted" ELSE ticket[r]]

-----------------------------------------------------------------------------
(* acquire: one operator per way through its first step.                   *)

\* Broken variant: the slot count is not looked at.
AdmissibleIgnoringSlots(r, limit) ==
  HostOf[r] \notin lockedHosts /\ queue = {}

Admissible(r, limit) ==
  inUse < limit /\ HostOf[r] \notin lockedHosts /\ queue = {}

AcquirePaused(limit) ==
  /\ paused
  /\ slotLimit' = limit
  /\ UNCHANGED <<inUse, lockedHosts, queue, ahead, ticket, paused>>

AcquireFast(r, limit) ==
  /\ ~paused /\ Admissible(r, limit)
  /\ slotLimit' = limit
  /\ inUse' = inUse + 1
  /\ lockedHosts' = lockedHosts \cup HostsOf({r})
  /\ UNCHANGED <<queue, ahead, ticket, paused>>

AcquireFull(r, limit) ==
  /\ ~paused /\ ~Admissible(r, limit)
  /\ Cardinality(queue) >= MaxQueueDepth
  /\ slotLimit' = limit
  /\ UNCHANGED <<inUse, lockedHosts, queue, ahead, ticket, paused>>

AcquireQueued(r, limit) ==
  /\ ~paused /\ ~Admissible(r, limit)
  /\ Cardinality(queue) < MaxQueueDepth
  /\ slotLimit' = limit
  /\ queue' = queue \cup {r}
  /\ ahead' = [ahead EXCEPT ![r] = queue]
  /\ ticket' = [ticket EXCEPT ![r] = "waiting"]
  /\ UNCHANGED <<inUse, lockedHosts, paused>>

-----------------------------------------------------------------------------
(* The other operations.                                                   *)

\* Broken variant: the slot is returned twice and nothing floors the counter.
ReleaseTwice(r) ==
  /\ Scan(inUse - 2, lockedHosts \ {HostOf[r]}, slotLimit)
  /\ UNCHANGED <<slotLimit, paused>>

\* Broken variant: nobody looks at the queue when a slot comes back.
ReleaseWithoutScan(r) ==
  /\ inUse' = IF inUse = 0 THEN 0 ELSE inUse - 1
  /\ lockedHosts' = lockedHosts \ {HostOf[r]}
  /\ UNCHANGED <<slotLimit, queue, ahead, ticket, paused>>

\* release of the handle of run r.
Release(r) ==
  /\ Scan(IF inUse = 0 THEN 0 ELSE inUse - 1, lockedHosts \ {HostOf[r]}, slotLimit)
  /\ UNCHANGED <<slotLimit, paused>>

\* set_slot_limit.
ApplyLimit(n) ==
  /\ slotLimit' = n
  /\ Scan(inUse, lockedHosts, n)
  /\ UNCHANGED paused

\* kill_run of a run that is only known by its ticket.
Dequeue(r) ==
  /\ Leave({r})
  /\ ticket' = [ticket EXCEPT ![r] = "killed"]
  /\ UNCHANGED <<slotLimit, inUse, lockedHosts, paused>>

\* Broken variant: the flag is set and the queue left as it is.
FlagPause ==
  /\ paused' = TRUE
  /\ UNCHANGED <<slotLimit, inUse, lockedHosts, queue, ahead, ticket>>

\* The pool's part of set_paused(True): every ticket is removed and killed.
DequeueAll ==
  /\ paused' = TRUE
  /\ Leave(queue)
  /\ ticket' = [r \in Runs |-> IF r \in queue THEN "killed" ELSE ticket[r]]
  /\ UNCHANGED <<slotLimit, inUse, lockedHosts>>

\* set_paused(False): the flag only; killed runs are not resumed.
ClearPause ==
  /\ paused' = FALSE
  /\ UNCHANGED <<slotLimit, inUse, lockedHosts, queue, ahead, ticket>>

\* A restart of the process: _states is empty again.
PoolReset ==
  /\ slotLimit' = DefaultLimit
  /\ inUse' = 0
  /\ lockedHosts' = {}
  /\ queue' = {}
  /\ ahead' = [r \in Runs |-> {}]
  /\ ticket' = [r \in Runs |-> "none"]
  /\ paused' = FALSE
=============================================================================
