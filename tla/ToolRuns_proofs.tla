--------------------------- MODULE ToolRuns_proofs ---------------------------
(***************************************************************************)
(* Proofs about ToolRuns: its type invariant, that two runs on one host    *)
(* never hold slots together, and that the pool charges every slot held,   *)
(* for every set of runs, hosts and limits.                                *)
(***************************************************************************)
EXTENDS ToolRuns, FiniteSetTheorems, TLAPS

-----------------------------------------------------------------------------
(* The operations of the pool keep its types.                              *)

\* The labels a coroutine can be suspended at.
USE DEF PCs, Waiting, Working

LEMMA ScanTyped ==
  ASSUME PoolTypeOK, NEW used \in Nat, NEW locked \in SUBSET Hosts, NEW limit,
         Scan(used, locked, limit)
  PROVE  /\ inUse' \in Nat
         /\ lockedHosts' \in SUBSET Hosts
         /\ queue' \in SUBSET Runs
         /\ ahead' \in [Runs -> SUBSET Runs]
         /\ ticket' \in [Runs -> TicketState]
<1>1. PICK A \in SUBSET queue :
        /\ inUse' = used + Cardinality(A)
        /\ lockedHosts' = locked \cup HostsOf(A)
        /\ Leave(A)
        /\ ticket' = [r \in Runs |-> IF r \in A THEN "admitted" ELSE ticket[r]]
  BY DEF Scan
<1>2. Cardinality(A) \in Nat
  BY RunsAssumption, FS_Subset, FS_CardinalityType DEF PoolTypeOK
<1>3. HostsOf(A) \subseteq Hosts
  BY HostAssumption DEF HostsOf, PoolTypeOK
<1>4. queue' \in SUBSET Runs /\ ahead' \in [Runs -> SUBSET Runs]
  BY <1>1 DEF Leave, PoolTypeOK
<1>5. ticket' \in [Runs -> TicketState]
  BY <1>1 DEF PoolTypeOK, TicketState
<1> QED  BY <1>1, <1>2, <1>3, <1>4, <1>5

LEMMA ReleaseTyped ==
  ASSUME PoolTypeOK, NEW r \in Runs, Release(r)
  PROVE  PoolTypeOK'
<1>1. (IF inUse = 0 THEN 0 ELSE inUse - 1) \in Nat  BY DEF PoolTypeOK
<1>2. lockedHosts \ {HostOf[r]} \in SUBSET Hosts  BY DEF PoolTypeOK
<1>3. slotLimit' = slotLimit /\ paused' = paused  BY DEF Release
<1>4. Scan(IF inUse = 0 THEN 0 ELSE inUse - 1, lockedHosts \ {HostOf[r]}, slotLimit)
  BY DEF Release
<1> QED
  BY <1>1, <1>2, <1>3, <1>4, ScanTyped DEF PoolTypeOK

LEMMA ApplyLimitTyped ==
  ASSUME PoolTypeOK, NEW n \in Limits, ApplyLimit(n)
  PROVE  PoolTypeOK'
<1>1. inUse \in Nat /\ lockedHosts \in SUBSET Hosts  BY DEF PoolTypeOK
<1>2. slotLimit' = n /\ paused' = paused /\ Scan(inUse, lockedHosts, n)
  BY DEF ApplyLimit
<1> QED  BY <1>1, <1>2, ScanTyped, LimitAssumption DEF PoolTypeOK

LEMMA AcquireTyped ==
  ASSUME PoolTypeOK, NEW r \in Runs, NEW limit \in Nat \ {0},
         \/ AcquirePaused(limit) \/ AcquireFast(r, limit)
         \/ AcquireFull(r, limit) \/ AcquireQueued(r, limit)
  PROVE  PoolTypeOK'
<1>1. CASE AcquirePaused(limit)  BY <1>1 DEF AcquirePaused, PoolTypeOK
<1>2. CASE AcquireFast(r, limit)
  BY <1>2, HostAssumption DEF AcquireFast, HostsOf, PoolTypeOK
<1>3. CASE AcquireFull(r, limit)  BY <1>3 DEF AcquireFull, PoolTypeOK
<1>4. CASE AcquireQueued(r, limit)
  BY <1>4 DEF AcquireQueued, PoolTypeOK, TicketState
<1> QED  BY <1>1, <1>2, <1>3, <1>4

LEMMA DequeueTyped ==
  ASSUME PoolTypeOK
  PROVE  /\ \A r \in Runs : Dequeue(r) => PoolTypeOK'
         /\ DequeueAll \/ ClearPause \/ PoolReset => PoolTypeOK'
<1>1. ASSUME NEW r \in Runs, Dequeue(r)  PROVE PoolTypeOK'
  BY <1>1 DEF Dequeue, Leave, PoolTypeOK, TicketState
<1>2. ASSUME DequeueAll  PROVE PoolTypeOK'
  BY <1>2 DEF DequeueAll, Leave, PoolTypeOK, TicketState
<1>3. ASSUME ClearPause  PROVE PoolTypeOK'
  BY <1>3 DEF ClearPause, PoolTypeOK
<1>4. ASSUME PoolReset  PROVE PoolTypeOK'
  <2>1. slotLimit' \in Nat \ {0} /\ inUse' \in Nat
    BY <1>4 DEF PoolReset, DefaultLimit
  <2>2. lockedHosts' \in SUBSET Hosts /\ queue' \in SUBSET Runs
    BY <1>4 DEF PoolReset
  <2>3. ahead' \in [Runs -> SUBSET Runs] /\ ticket' \in [Runs -> TicketState]
    BY <1>4 DEF PoolReset, TicketState
  <2>4. paused' \in BOOLEAN
    BY <1>4 DEF PoolReset
  <2> QED  BY <2>1, <2>2, <2>3, <2>4 DEF PoolTypeOK
<1> QED  BY <1>1, <1>2, <1>3, <1>4
LEMMA PoolUnchangedTyped ==
  ASSUME PoolTypeOK, UNCHANGED poolVars
  PROVE  PoolTypeOK'
BY DEF PoolTypeOK, poolVars

-----------------------------------------------------------------------------
(* Type correctness.                                                       *)

LEMMA InitTyped == Init => TypeOK
<1> SUFFICES ASSUME Init PROVE TypeOK  OBVIOUS
<1>1. PoolInit  BY DEF Init
<1>2. slotLimit \in Nat \ {0} /\ inUse \in Nat
  BY <1>1 DEF PoolInit, DefaultLimit
<1>3. lockedHosts \in SUBSET Hosts /\ queue \in SUBSET Runs /\ paused \in BOOLEAN
  BY <1>1 DEF PoolInit
<1>4. ahead \in [Runs -> SUBSET Runs] /\ ticket \in [Runs -> TicketState]
  BY <1>1 DEF PoolInit, TicketState
<1>5. dbLimit \in Nat \ {0}  BY LimitAssumption DEF Init
<1>6. asked \in [Runs -> Nat \ {0}]  BY DEF Init, DefaultLimit
<1>7. dbPaused \in BOOLEAN  BY DEF Init
<1>8. /\ pc \in [Runs -> PCs]
      /\ cancel \in SUBSET Runs /\ held \in SUBSET Runs /\ unlimited \in SUBSET Runs
      /\ registry \in [Runs -> {"absent", "slot", "slotless"}]
      /\ decision \in [Runs -> {"absent", "open", "kill", "extend", "wait"}]
      /\ row \in [Runs -> Terminal \cup Active \cup {"none"}]
  BY DEF Init
<1> QED  BY <1>2, <1>3, <1>4, <1>5, <1>6, <1>7, <1>8 DEF PoolTypeOK, TypeOK

\* What the finally block leaves, whatever happened to the row.
LEMMA FinishTyped ==
  ASSUME TypeOK, NEW r \in Runs, Finish(r)
  PROVE  /\ PoolTypeOK'
         /\ pc' \in [Runs -> PCs]
         /\ held' \in SUBSET Runs /\ unlimited' \in SUBSET Runs
         /\ asked' \in [Runs -> Nat \ {0}]
         /\ registry' \in [Runs -> {"absent", "slot", "slotless"}]
         /\ decision' \in [Runs -> {"absent", "open", "kill", "extend", "wait"}]
<1>1. PoolTypeOK'
  BY ReleaseTyped, PoolUnchangedTyped DEF Finish, TypeOK, Unregister
<1> QED  BY <1>1 DEF Finish, Goto, CleanupDecision, TypeOK, DefaultLimit, Unregister

\* Every way to write a row writes a status of tool_runs.
LEMMA RowTyped ==
  ASSUME TypeOK, NEW r \in Runs, NEW s \in Terminal \cup Active,
         \/ SetRow(r, s) \/ Persist(r, s) \/ Interrupted(r, {s}) \/ UNCHANGED row
  PROVE  row' \in [Runs -> Terminal \cup Active \cup {"none"}]
BY DEF SetRow, Persist, Interrupted, TypeOK

LEMMA StepTyped ==
  ASSUME TypeOK, NEW r \in Runs, Submit(r) \/ Step(r)
  PROVE  TypeOK'
<1> USE DEF Goto
<1>1. CASE Submit(r)
  BY <1>1, PoolUnchangedTyped DEF Submit, TypeOK, rowVars, QueueFull
<1>2. CASE Insert(r)
  BY <1>2, PoolUnchangedTyped, RowTyped DEF Insert, TypeOK, Active
<1>3. CASE Launch(r)
  BY <1>3, PoolUnchangedTyped DEF Launch, TypeOK, rowVars, Register
<1>4. CASE BlockingAcquire(r)
  <2>1. PoolTypeOK'
    BY <1>4, AcquireTyped DEF BlockingAcquire, TypeOK
  <2> QED  BY <1>4, <2>1 DEF BlockingAcquire, TypeOK, rowVars
<1>5. CASE CallEnds(r)
  BY <1>5, ReleaseTyped DEF CallEnds, TypeOK, rowVars
<1>6. CASE Reply(r)
  BY <1>6, PoolUnchangedTyped, RowTyped DEF Reply, TypeOK, Terminal
<1>7. CASE Start(r)
  <2>1. PoolTypeOK'
    BY <1>7, AcquireTyped, PoolUnchangedTyped DEF Start, TypeOK
  <2> QED  BY <1>7, <2>1 DEF Start, TypeOK, rowVars
<1>8. CASE AwaitAdmission(r)
  <2>1. PoolTypeOK'
    BY <1>8 DEF AwaitAdmission, Wake, Leave, TypeOK, PoolTypeOK, TicketState
  <2> QED  BY <1>8, <2>1 DEF AwaitAdmission, Wake, Regain, Caught, TypeOK, rowVars, MarkReacquired
<1>9. CASE OnQueued(r)
  <2>1. PoolTypeOK'
    BY <1>9 DEF OnQueued, Wake, TypeOK, PoolTypeOK, TicketState
  <2>2. row' \in [Runs -> Terminal \cup Active \cup {"none"}]
    BY <1>9, RowTyped DEF OnQueued, Active
  <2> QED  BY <1>9, <2>1, <2>2 DEF OnQueued, Wake, Regain, Caught, TypeOK, MarkReacquired
<1>10. CASE OnStarted(r)
  <2>1. row' \in [Runs -> Terminal \cup Active \cup {"none"}]
    BY <1>10, RowTyped DEF OnStarted, Active
  <2> QED  BY <1>10, <2>1, PoolUnchangedTyped DEF OnStarted, Caught, TypeOK
<1>11. CASE Stream(r)
  BY <1>11, PoolUnchangedTyped DEF Stream, Caught, TypeOK, rowVars
<1>12. CASE Save(r)
  <2>1. row' \in [Runs -> Terminal \cup Active \cup {"none"}]
    BY <1>12, RowTyped DEF Save, Terminal
  <2> QED
    BY <1>12, <2>1, FinishTyped, PoolUnchangedTyped DEF Save, Caught, TypeOK
<1>13. CASE Timeout(r)
  <2>1. PoolTypeOK'
    BY <1>13, ReleaseTyped, PoolUnchangedTyped DEF Timeout, TypeOK
  <2> QED  BY <1>13, <2>1 DEF Timeout, ForgetHandle, TypeOK, rowVars
<1>14. CASE Park(r)
  BY <1>14, PoolUnchangedTyped, RowTyped DEF Park, TypeOK, Active
<1>15. CASE Decide(r)
  <2>1. asked[r] \in Nat \ {0}  BY DEF TypeOK
  <2>2. PoolTypeOK'
    BY <1>15, <2>1, AcquireTyped, PoolUnchangedTyped DEF Decide, TypeOK, Decided
  <2> QED
    BY <1>15, <2>2 DEF Decide, CleanupDecision, Regain, TypeOK, rowVars, MarkReacquired, Decided
<1>16. CASE Resume(r)
  <2>1. row' \in [Runs -> Terminal \cup Active \cup {"none"}]
    BY <1>16, RowTyped DEF Resume, Active
  <2> QED  BY <1>16, <2>1, PoolUnchangedTyped DEF Resume, Caught, TypeOK
<1>17. CASE EndKilled(r)
  <2>1. row' \in [Runs -> Terminal \cup Active \cup {"none"}]
    BY <1>17, RowTyped DEF EndKilled, Terminal
  <2> QED
    BY <1>17, <2>1, FinishTyped, PoolUnchangedTyped DEF EndKilled, Caught, TypeOK
<1>18. CASE EndCancelled(r)
  <2>1. row' \in [Runs -> Terminal \cup Active \cup {"none"}]
    BY <1>18, RowTyped DEF EndCancelled, EndHandler, Terminal
  <2> QED  BY <1>18, <2>1, FinishTyped DEF EndCancelled, EndHandler, TypeOK
<1>19. CASE EndFailed(r)
  <2>1. row' \in [Runs -> Terminal \cup Active \cup {"none"}]
    BY <1>19, RowTyped DEF EndFailed, EndHandler, Terminal
  <2> QED  BY <1>19, <2>1, FinishTyped DEF EndFailed, EndHandler, TypeOK
<1> QED
  BY <1>1, <1>2, <1>3, <1>4, <1>5, <1>6, <1>7, <1>8, <1>9, <1>10, <1>11, <1>12,
     <1>13, <1>14, <1>15, <1>16, <1>17, <1>18, <1>19 DEF Step

LEMMA MembersTyped ==
  ASSUME TypeOK,
         \/ \E r \in Runs : Kill(r)
         \/ \E r \in Runs, choice \in {"kill", "extend", "wait"} : SubmitDecision(r, choice)
         \/ Pause \/ Unpause \/ Restart
         \/ \E n \in Limits : SetLimit(n)
  PROVE  TypeOK'
<1>1. ASSUME NEW r \in Runs, Kill(r)  PROVE TypeOK'
  <2>1. PoolTypeOK'
    BY <1>1, DequeueTyped, PoolUnchangedTyped DEF Kill, TypeOK, KillRun, SubmitInternal
  <2>2. row' \in [Runs -> Terminal \cup Active \cup {"none"}]
    BY <1>1, RowTyped DEF Kill, Terminal, KillRun, SubmitInternal
  <2> QED  BY <1>1, <2>1, <2>2 DEF Kill, TypeOK, KillRun, SubmitInternal
<1>2. ASSUME NEW r \in Runs, NEW choice \in {"kill", "extend", "wait"},
             SubmitDecision(r, choice)
      PROVE  TypeOK'
  BY <1>2, PoolUnchangedTyped DEF SubmitDecision, TypeOK, taskVars, rowVars, SubmitInternal
<1>3. ASSUME Pause  PROVE TypeOK'
  BY <1>3, DequeueTyped DEF Pause, TypeOK, SubmitInternal
<1>4. ASSUME Unpause  PROVE TypeOK'
  BY <1>4, DequeueTyped DEF Unpause, TypeOK, taskVars
<1>5. ASSUME Restart  PROVE TypeOK'
  <2>1. asked' \in [Runs -> Nat \ {0}]  BY <1>5 DEF Restart, DefaultLimit
  <2> QED  BY <1>5, <2>1, DequeueTyped DEF Restart, TypeOK, Terminal
<1>6. ASSUME NEW n \in Limits, SetLimit(n)  PROVE TypeOK'
  BY <1>6, ApplyLimitTyped, LimitAssumption DEF SetLimit, TypeOK, taskVars
<1> QED  BY <1>1, <1>2, <1>3, <1>4, <1>5, <1>6

LEMMA NextTyped == TypeOK /\ [Next]_vars => TypeOK'
<1> SUFFICES ASSUME TypeOK, [Next]_vars PROVE TypeOK'  OBVIOUS
<1>1. CASE Next  BY <1>1, StepTyped, MembersTyped DEF Next
<1>2. CASE UNCHANGED vars
  BY <1>2, PoolUnchangedTyped DEF vars, taskVars, rowVars, TypeOK
<1> QED  BY <1>1, <1>2

\* Every reachable state is well typed, whatever the sets of runs, hosts and
\* limits are.
THEOREM TypeCorrect == Spec => []TypeOK
<1>1. Init => TypeOK  BY InitTyped
<1>2. TypeOK /\ [Next]_vars => TypeOK'  BY NextTyped
<1> QED  BY <1>1, <1>2, PTL DEF Spec

-----------------------------------------------------------------------------
(* The order of the queue.                                                 *)

\* Of two waiters one is ahead of the other: what the scan's fairness, and the
\* disjointness of the hosts it locks, rest on.
QueueTotal == \A r, s \in queue : r # s => r \in ahead[s] \/ s \in ahead[r]

\* All that any step does to the queue.
QueueMoves ==
  \/ UNCHANGED <<queue, ahead>>
  \/ \E S \in SUBSET Runs : Leave(S)
  \/ \E r \in Runs : queue' = queue \cup {r} /\ ahead' = [ahead EXCEPT ![r] = queue]
  \/ queue' = {}

LEMMA MovesKeepOrder ==
  ASSUME PoolTypeOK, QueueTotal, QueueMoves
  PROVE  QueueTotal'
<1>1. CASE UNCHANGED <<queue, ahead>>  BY <1>1 DEF QueueTotal
<1>2. ASSUME NEW S \in SUBSET Runs, Leave(S)  PROVE QueueTotal'
  BY <1>2 DEF Leave, QueueTotal, PoolTypeOK
<1>3. ASSUME NEW r \in Runs, queue' = queue \cup {r},
             ahead' = [ahead EXCEPT ![r] = queue]
      PROVE  QueueTotal'
  BY <1>3 DEF QueueTotal, PoolTypeOK
<1>4. CASE queue' = {}  BY <1>4 DEF QueueTotal
<1> QED  BY <1>1, <1>2, <1>3, <1>4 DEF QueueMoves

LEMMA ScanMoves ==
  ASSUME PoolTypeOK, NEW used, NEW locked, NEW limit, Scan(used, locked, limit)
  PROVE  QueueMoves
BY DEF Scan, QueueMoves, PoolTypeOK

LEMMA AcquireMoves ==
  ASSUME NEW r \in Runs, NEW limit,
         \/ AcquirePaused(limit) \/ AcquireFast(r, limit)
         \/ AcquireFull(r, limit) \/ AcquireQueued(r, limit)
  PROVE  QueueMoves
BY DEF AcquirePaused, AcquireFast, AcquireFull, AcquireQueued, QueueMoves

LEMMA FinishMoves ==
  ASSUME PoolTypeOK, NEW r \in Runs, Finish(r)
  PROVE  QueueMoves
<1>1. CASE Release(r)  BY <1>1, ScanMoves DEF Release
<1>2. CASE UNCHANGED poolVars  BY <1>2 DEF poolVars, QueueMoves
<1> QED  BY <1>1, <1>2 DEF Finish, Unregister

LEMMA StepMoves ==
  ASSUME PoolTypeOK, NEW r \in Runs, Submit(r) \/ Step(r)
  PROVE  QueueMoves
<1>1. CASE UNCHANGED poolVars  BY <1>1 DEF poolVars, QueueMoves
<1>2. CASE BlockingAcquire(r)  BY <1>2, AcquireMoves DEF BlockingAcquire
<1>3. CASE CallEnds(r)  BY <1>3, ScanMoves DEF CallEnds, Release
<1>4. CASE Start(r)  BY <1>1, <1>4, AcquireMoves DEF Start
<1>5. CASE AwaitAdmission(r)
  <2>1. UNCHANGED <<queue, ahead>> \/ Leave({r})  BY <1>5 DEF AwaitAdmission
  <2> QED  BY <2>1 DEF QueueMoves
<1>6. CASE OnQueued(r)  BY <1>6 DEF OnQueued, QueueMoves
<1>7. CASE Timeout(r)  BY <1>1, <1>7, ScanMoves DEF Timeout, Release
<1>8. CASE Decide(r)  BY <1>1, <1>8, AcquireMoves DEF Decide, Decided
<1>9. CASE Save(r) \/ EndKilled(r) \/ EndCancelled(r) \/ EndFailed(r)
  BY <1>1, <1>9, FinishMoves DEF Save, EndKilled, EndCancelled, EndFailed, EndHandler
<1>10. CASE Submit(r) \/ Insert(r) \/ Launch(r) \/ Reply(r) \/ OnStarted(r)
              \/ Stream(r) \/ Park(r) \/ Resume(r)
  BY <1>1, <1>10 DEF Submit, Insert, Launch, Reply, OnStarted, Stream, Park, Resume, Register, QueueFull
<1> QED  BY <1>2, <1>3, <1>4, <1>5, <1>6, <1>7, <1>8, <1>9, <1>10 DEF Step

LEMMA NextMoves == TypeOK /\ [Next]_vars => QueueMoves
<1> SUFFICES ASSUME PoolTypeOK, [Next]_vars PROVE QueueMoves  BY DEF TypeOK
<1>1. CASE UNCHANGED poolVars  BY <1>1 DEF poolVars, QueueMoves
<1>2. ASSUME NEW r \in Runs, Kill(r)  PROVE QueueMoves
  <2>1. Dequeue(r) \/ UNCHANGED poolVars  BY <1>2 DEF Kill, KillRun, SubmitInternal
  <2> QED  BY <1>1, <2>1 DEF Dequeue, QueueMoves
<1>3. ASSUME NEW r \in Runs, NEW choice, SubmitDecision(r, choice)  PROVE QueueMoves
  BY <1>1, <1>3 DEF SubmitDecision, SubmitInternal
<1>4. CASE Pause  BY <1>4 DEF Pause, DequeueAll, QueueMoves, PoolTypeOK, SubmitInternal
<1>5. CASE Unpause  BY <1>5 DEF Unpause, ClearPause, QueueMoves
<1>6. CASE Restart  BY <1>6 DEF Restart, PoolReset, QueueMoves
<1>7. ASSUME NEW n \in Limits, SetLimit(n)  PROVE QueueMoves
  BY <1>7, ScanMoves DEF SetLimit, ApplyLimit
<1>8. CASE UNCHANGED vars  BY <1>1, <1>8 DEF vars
<1> QED  BY <1>2, <1>3, <1>4, <1>5, <1>6, <1>7, <1>8, StepMoves DEF Next

-----------------------------------------------------------------------------
(* What it is for a set of runs to be paid for by the pool, and how the    *)
(* operations of the pool keep it so.                                      *)

Disjoint(S) ==
  \A r, s \in S : r # s /\ HostOf[r] # NoHost => HostOf[r] # HostOf[s]

\* Every run of S has its slot counted and its host locked, and no two share one.
Charged(S, used, locked) ==
  Disjoint(S) /\ HostsOf(S) \subseteq locked /\ Cardinality(S) <= used

LEMMA CardinalityOfRuns ==
  ASSUME NEW S \in SUBSET Runs
  PROVE  IsFiniteSet(S) /\ Cardinality(S) \in Nat
BY RunsAssumption, FS_Subset, FS_CardinalityType

LEMMA ChargedShrinks ==
  ASSUME NEW S \in SUBSET Runs, NEW T \in SUBSET S, NEW used \in Nat, NEW locked,
         Charged(S, used, locked)
  PROVE  Charged(T, used, locked)
<1>1. Cardinality(T) <= Cardinality(S)
  BY CardinalityOfRuns, FS_Subset
<1>2. Cardinality(T) \in Nat /\ Cardinality(S) \in Nat
  BY CardinalityOfRuns
<1> QED  BY <1>1, <1>2 DEF Charged, Disjoint, HostsOf

\* A holder that leaves gives its own slot and lock back, and no other's.
LEMMA ChargedLeaves ==
  ASSUME NEW S \in SUBSET Runs, NEW r \in S, NEW used \in Nat, NEW locked,
         Charged(S, used, locked)
  PROVE  Charged(S \ {r}, IF used = 0 THEN 0 ELSE used - 1, locked \ {HostOf[r]})
<1>1. Cardinality(S \ {r}) = Cardinality(S) - 1
  BY CardinalityOfRuns, FS_RemoveElement
<1>2. Cardinality(S) \in Nat /\ Cardinality(S \ {r}) \in Nat
  BY CardinalityOfRuns
<1>3. Cardinality(S \ {r}) <= IF used = 0 THEN 0 ELSE used - 1
  BY <1>1, <1>2 DEF Charged
<1>4. Disjoint(S \ {r})  BY DEF Charged, Disjoint
<1>5. HostsOf(S \ {r}) \subseteq locked \ {HostOf[r]}
  BY DEF Charged, Disjoint, HostsOf
<1> QED  BY <1>3, <1>4, <1>5 DEF Charged

\* A run that takes the fast path finds its host unlocked.
LEMMA ChargedEnters ==
  ASSUME NEW S \in SUBSET Runs, NEW r \in Runs, NEW used \in Nat,
         NEW locked, HostOf[r] \notin locked,
         Charged(S, used, locked)
  PROVE  Charged(S \cup {r}, used + 1, locked \cup HostsOf({r}))
<1>1. Cardinality(S \cup {r}) <= Cardinality(S) + 1
  BY CardinalityOfRuns, FS_AddElement
<1>2. Cardinality(S) \in Nat /\ Cardinality(S \cup {r}) \in Nat
  BY CardinalityOfRuns
<1>3. Cardinality(S \cup {r}) <= used + 1
  BY <1>1, <1>2 DEF Charged
<1>4. Disjoint(S \cup {r})  BY DEF Charged, Disjoint, HostsOf
<1>5. HostsOf(S \cup {r}) \subseteq locked \cup HostsOf({r})
  BY DEF Charged, HostsOf
<1> QED  BY <1>3, <1>4, <1>5 DEF Charged

\* The waiters one scan admits have hosts of their own: each was checked against
\* the locks the scan found and against those taken ahead of it.
LEMMA AdmittedDisjoint ==
  ASSUME PoolTypeOK, QueueTotal,
         NEW A \in SUBSET queue, NEW used, NEW locked, NEW limit,
         Admits(A, used, locked, limit)
  PROVE  /\ Disjoint(A)
         /\ \A r \in A : HostOf[r] \notin locked
<1>1. \A r \in A : HostOf[r] \notin locked \cup HostsOf(A \cap ahead[r])
  BY DEF Admits
<1>2. ASSUME NEW r \in A, NEW s \in A, r # s, HostOf[r] # NoHost
      PROVE  HostOf[r] # HostOf[s]
  <2>1. CASE r \in ahead[s]
    <3>1. HostOf[r] \in HostsOf(A \cap ahead[s])  BY <1>2, <2>1 DEF HostsOf
    <3> QED  BY <1>1, <3>1
  <2>2. CASE s \in ahead[r]
    <3>1. HostOf[s] # NoHost => HostOf[s] \in HostsOf(A \cap ahead[r])
      BY <2>2 DEF HostsOf
    <3> QED  BY <1>1, <1>2, <3>1
  <2> QED  BY <1>2, <2>1, <2>2 DEF QueueTotal
<1> QED  BY <1>1, <1>2 DEF Disjoint

LEMMA ChargedScan ==
  ASSUME PoolTypeOK, QueueTotal,
         NEW S \in SUBSET Runs, NEW used \in Nat, NEW locked, NEW limit,
         Charged(S, used, locked), Scan(used, locked, limit)
  PROVE  Charged(S \cup (queue \ queue'), inUse', lockedHosts')
<1>1. PICK A \in SUBSET queue :
        /\ Admits(A, used, locked, limit)
        /\ inUse' = used + Cardinality(A)
        /\ lockedHosts' = locked \cup HostsOf(A)
        /\ Leave(A)
  BY DEF Scan
<1>2. queue \ queue' = A  BY <1>1 DEF Leave
<1>3. A \in SUBSET Runs  BY DEF PoolTypeOK
<1>4. Cardinality(S \cup A) <= used + Cardinality(A)
  <2>1. /\ IsFiniteSet(S) /\ IsFiniteSet(A)
        /\ Cardinality(S) \in Nat /\ Cardinality(A) \in Nat
        /\ Cardinality(S \cap A) \in Nat
    BY <1>3, CardinalityOfRuns
  <2>2. Cardinality(S \cup A) = Cardinality(S) + Cardinality(A) - Cardinality(S \cap A)
    BY <2>1, FS_Union
  <2> QED  BY <2>1, <2>2 DEF Charged
<1>5. Disjoint(S \cup A)
  <2>1. Disjoint(A) /\ \A r \in A : HostOf[r] \notin locked
    BY <1>1, AdmittedDisjoint
  <2>2. \A r \in S : HostOf[r] # NoHost => HostOf[r] \in locked
    BY DEF Charged, HostsOf
  <2> QED  BY <2>1, <2>2 DEF Charged, Disjoint
<1>6. HostsOf(S \cup A) \subseteq locked \cup HostsOf(A)
  BY DEF Charged, HostsOf
<1> QED  BY <1>1, <1>2, <1>4, <1>5, <1>6 DEF Charged

-----------------------------------------------------------------------------
(* What a step does to the runs that hold slots.                           *)

\* A call to the server of a blocking run is made with its handle at hand.
CallsHold == \A r \in Runs : pc[r] = "calling" => r \in held

\* Nobody enters, and the pool keeps its accounts.
Quiet == Holders' \subseteq Holders /\ inUse' = inUse /\ lockedHosts' = lockedHosts

\* One run takes the fast path.
Enters(r) ==
  /\ ~paused /\ HostOf[r] \notin lockedHosts
  /\ inUse < slotLimit'
  /\ Holders' \subseteq Holders \cup {r}
  /\ inUse' = inUse + 1
  /\ lockedHosts' = lockedHosts \cup HostsOf({r})

\* One run leaves, and the scan admits waiters in its place.
Leaves(r) ==
  /\ Release(r)
  /\ Holders' \subseteq (Holders \ {r}) \cup (queue \ queue')

\* The limit changes, and the scan admits whom it may.
Rescans(n) ==
  /\ ApplyLimit(n)
  /\ Holders' \subseteq Holders \cup (queue \ queue')

HoldersMove ==
  \/ Quiet
  \/ \E r \in Runs : Enters(r)
  \/ \E r \in Holders : Leaves(r)
  \/ \E n \in Limits : Rescans(n)
  \/ PoolReset /\ Holders' = {}

LEMMA HoldersAreRuns == TypeOK => Holders \in SUBSET Runs
BY DEF TypeOK, Holders

\* The scan marks nobody but those it takes out of the queue.
LEMMA ScanMarks ==
  ASSUME PoolTypeOK, NEW used, NEW locked, NEW limit, Scan(used, locked, limit),
         NEW s \in Runs, ticket'[s] = "admitted", ticket[s] # "admitted"
  PROVE  s \in queue \ queue'
BY DEF Scan, Leave, PoolTypeOK

\* Runs that leave acquire with what they had, or stay where they are.
LEMMA QuietSteps ==
  ASSUME TypeOK, NEW r \in Runs, inUse' = inUse, lockedHosts' = lockedHosts,
         \A s \in Runs \ {r} : /\ pc'[s] = pc[s]
                               /\ ticket'[s] = "admitted" => ticket[s] = "admitted",
         held' \subseteq held \cup {r},
         r \in Holders' => r \in Holders
  PROVE  Quiet
<1>1. ASSUME NEW s \in Holders', s # r  PROVE s \in Holders
  <2>1. CASE s \in held'  BY <1>1, <2>1 DEF Holders
  <2>2. CASE s \in Runs /\ s \notin held'  BY <1>1, <2>2 DEF Holders
  <2> QED  BY <2>1, <2>2 DEF Holders
<1> QED  BY <1>1 DEF Quiet

LEMMA LeavesSteps ==
  ASSUME TypeOK, NEW r \in Holders, Release(r),
         \A s \in Runs \ {r} : pc'[s] = pc[s],
         held' \subseteq held, r \notin Holders'
  PROVE  Leaves(r)
<1>1. \A s \in Runs : ticket'[s] = "admitted" /\ ticket[s] # "admitted"
                        => s \in queue \ queue'
  BY ScanMarks DEF Release, TypeOK
<1>2. ASSUME NEW s \in Holders'  PROVE s \in (Holders \ {r}) \cup (queue \ queue')
  BY <1>1, <1>2 DEF Holders
<1> QED  BY <1>2 DEF Leaves

LEMMA FinishHolders ==
  ASSUME TypeOK, NEW r \in Runs, Finish(r)
  PROVE  Quiet \/ (r \in Holders /\ Leaves(r))
<1>1. /\ pc' = [pc EXCEPT ![r] = "done"]
      /\ held' = held \ {r}
  BY DEF Finish, Goto, Unregister
<1>2. r \notin Holders'  BY <1>1 DEF Holders, TypeOK
<1>3. \A s \in Runs \ {r} : pc'[s] = pc[s]
  BY <1>1 DEF TypeOK
<1>4. CASE r \in held
  <2>1. Release(r)  BY <1>4 DEF Finish, Unregister
  <2>2. r \in Holders  BY <1>4 DEF Holders
  <2> QED  BY <1>1, <1>2, <1>3, <2>1, <2>2, LeavesSteps
<1>5. CASE r \notin held
  <2>1. UNCHANGED poolVars  BY <1>5 DEF Finish, Unregister
  <2> QED  BY <1>1, <1>2, <1>3, <2>1, QuietSteps DEF poolVars
<1> QED  BY <1>4, <1>5

\* The four ways through acquire, for a coroutine that was not in acquire and
\* goes where the outcome takes it.
LEMMA AcquireHolders ==
  ASSUME TypeOK, NEW r \in Runs, NEW limit \in Nat \ {0}, NEW label,
         pc' = [pc EXCEPT ![r] = label], held' \in {held, held \cup {r}},
         \/ AcquireFast(r, limit)
         \/ AcquireQueued(r, limit) /\ label # "onStarted" /\ held' = held
         \/ /\ AcquirePaused(limit) \/ AcquireFull(r, limit)
            /\ label \notin Waiting \cup {"onStarted"} /\ held' = held
  PROVE  Quiet \/ Enters(r)
<1>1. CASE AcquireFast(r, limit)
  <2>1. Holders' \subseteq Holders \cup {r}
    BY <1>1 DEF AcquireFast, Holders, TypeOK
  <2> QED  BY <1>1, <2>1 DEF AcquireFast, Admissible, Enters
<1>2. CASE AcquireQueued(r, limit) /\ label # "onStarted" /\ held' = held
  <2>1. ticket' = [ticket EXCEPT ![r] = "waiting"]  BY <1>2 DEF AcquireQueued
  <2>2. Holders' \subseteq Holders
    BY <1>2, <2>1 DEF Holders, TypeOK, PoolTypeOK
  <2> QED  BY <1>2, <2>2 DEF AcquireQueued, Quiet
<1>3. CASE /\ AcquirePaused(limit) \/ AcquireFull(r, limit)
           /\ label \notin Waiting \cup {"onStarted"} /\ held' = held
  <2>1. ticket' = ticket  BY <1>3 DEF AcquirePaused, AcquireFull
  <2>2. Holders' \subseteq Holders  BY <1>3, <2>1 DEF Holders, TypeOK
  <2> QED  BY <1>3, <2>2 DEF AcquirePaused, AcquireFull, Quiet
<1> QED  BY <1>1, <1>2, <1>3

\* A wake-up moves a run that acquire had admitted along, or turns it away.
LEMMA WakeHolders ==
  ASSUME TypeOK, NEW r \in Runs, pc[r] \in Waiting, Wake(r)
  PROVE  /\ \A s \in Runs \ {r} : /\ pc'[s] = pc[s]
                                  /\ ticket'[s] = "admitted" => ticket[s] = "admitted"
         /\ held' \subseteq held \cup {r}
         /\ r \in Holders' => r \in Holders
<1>1. ticket' = [ticket EXCEPT ![r] = "none"]  BY DEF Wake
<1>2. PICK label \in PCs : pc' = [pc EXCEPT ![r] = label]
  BY DEF Wake, Goto, Regain, MarkReacquired
<1>3. held' \in {held, held \cup {r}}  BY DEF Wake, Regain, MarkReacquired
<1>4. MayRun(r) => r \in Holders
  BY DEF Wake, MayRun, Holders
<1>5. ASSUME ~MayRun(r)  PROVE r \in Holders' => r \in Holders
  <2>1. pc'[r] \in {"done", "killing"} /\ held' = held
    BY <1>5 DEF Wake, Goto, TypeOK
  <2> QED  BY <2>1 DEF Holders
<1>6. \A s \in Runs \ {r} : /\ pc'[s] = pc[s]
                            /\ ticket'[s] = "admitted" => ticket[s] = "admitted"
  BY <1>1, <1>2 DEF TypeOK, PoolTypeOK
<1> QED  BY <1>3, <1>4, <1>5, <1>6

LEMMA StepHolders ==
  ASSUME TypeOK, CallsHold, NEW r \in Runs, Submit(r) \/ Step(r)
  PROVE  Quiet \/ Enters(r) \/ (r \in Holders /\ Leaves(r))
<1> USE DEF Goto
<1>1. CASE Submit(r) \/ Insert(r) \/ Launch(r) \/ Reply(r) \/ Stream(r) \/ Park(r)
             \/ Resume(r) \/ OnStarted(r)
  <2>1. UNCHANGED poolVars
    BY <1>1 DEF Submit, Insert, Launch, Reply, Stream, Park, Resume, OnStarted, Register, QueueFull
  <2>2. PICK label \in PCs \ (Waiting \cup {"onStarted"}) : pc' = [pc EXCEPT ![r] = label]
    BY <1>1 DEF Submit, Insert, Launch, Reply, Stream, Park, Resume, OnStarted, Caught, Register, QueueFull
  <2>3. \/ held' = held
        \/ pc[r] = "onStarted" /\ held' = held \cup {r}
    BY <1>1 DEF Submit, Insert, Launch, Reply, Stream, Park, Resume, OnStarted, Register, QueueFull
  <2>4. pc'[r] = label /\ \A s \in Runs \ {r} : pc'[s] = pc[s]
    BY <2>2 DEF TypeOK
  <2>5. r \in Holders' => r \in Holders  BY <2>3, <2>4 DEF Holders
  <2> QED  BY <2>1, <2>3, <2>4, <2>5, QuietSteps DEF poolVars
<1>2. CASE BlockingAcquire(r)
  <2>1. asked[r] \in Nat \ {0}  BY DEF TypeOK
  <2> QED  BY <1>2, <2>1, AcquireHolders DEF BlockingAcquire
<1>3. CASE CallEnds(r)
  <2>1. r \in held  BY <1>3 DEF CallEnds, CallsHold
  <2>2. /\ Release(r) /\ held' = held \ {r}
        /\ pc'[r] \in {"replying", "done"} /\ \A s \in Runs \ {r} : pc'[s] = pc[s]
    BY <1>3 DEF CallEnds, TypeOK
  <2>3. r \notin Holders'  BY <2>2 DEF Holders
  <2>4. r \in Holders  BY <2>1 DEF Holders
  <2> QED  BY <2>2, <2>3, <2>4, LeavesSteps
<1>4. CASE Start(r)
  <2>1. asked[r] \in Nat \ {0} /\ held' = held  BY <1>4 DEF Start, TypeOK
  <2>2. CASE /\ UNCHANGED poolVars
             /\ \E label \in {"done", "streaming"} : pc' = [pc EXCEPT ![r] = label]
    <3>1. /\ pc'[r] \in {"done", "streaming"}
          /\ \A s \in Runs \ {r} : pc'[s] = pc[s]
      BY <2>2 DEF TypeOK
    <3>2. r \in Holders' => r \in Holders  BY <2>1, <3>1 DEF Holders
    <3>3. inUse' = inUse /\ lockedHosts' = lockedHosts /\ ticket' = ticket
      BY <2>2 DEF poolVars
    <3> QED  BY <2>1, <3>1, <3>2, <3>3, QuietSteps
  <2>3. CASE AcquireFast(r, asked[r]) /\ pc' = [pc EXCEPT ![r] = "onStarted"]
    BY <2>1, <2>3, AcquireHolders
  <2>4. CASE AcquireQueued(r, asked[r]) /\ pc' = [pc EXCEPT ![r] = "onQueued"]
    BY <2>1, <2>4, AcquireHolders
  <2>5. CASE /\ AcquirePaused(asked[r]) \/ AcquireFull(r, asked[r])
             /\ \E label \in {"killing", "failing"} : pc' = [pc EXCEPT ![r] = label]
    BY <2>1, <2>5, AcquireHolders
  <2> QED  BY <1>4, <2>2, <2>3, <2>4, <2>5 DEF Start
<1>5. CASE AwaitAdmission(r)
  <2>1. inUse' = inUse /\ lockedHosts' = lockedHosts  BY <1>5 DEF AwaitAdmission
  <2>2. CASE Wake(r)
    BY <1>5, <2>1, <2>2, WakeHolders, QuietSteps DEF AwaitAdmission
  <2>3. CASE Caught(r) /\ ticket' = [ticket EXCEPT ![r] = "none"] /\ held' = held
    <3>1. pc'[r] = "cancelled"
          /\ \A s \in Runs \ {r} : pc'[s] = pc[s] /\ ticket'[s] = ticket[s]
      BY <2>3 DEF Caught, TypeOK, PoolTypeOK
    <3>2. r \in Holders' => r \in Holders  BY <2>3, <3>1 DEF Holders
    <3> QED  BY <2>1, <2>3, <3>1, <3>2, QuietSteps
  <2> QED  BY <1>5, <2>2, <2>3 DEF AwaitAdmission
<1>6. CASE OnQueued(r)
  <2>1. inUse' = inUse /\ lockedHosts' = lockedHosts  BY <1>6 DEF OnQueued
  <2>2. CASE Wake(r)
    BY <1>6, <2>1, <2>2, WakeHolders, QuietSteps DEF OnQueued
  <2>3. CASE UNCHANGED <<held, ticket>>
             /\ \/ pc' = [pc EXCEPT ![r] = "cancelled"]
                \/ ticket[r] = "waiting" /\ \E label \in Waiting : pc' = [pc EXCEPT ![r] = label]
    <3>1. \A s \in Runs \ {r} : pc'[s] = pc[s] /\ ticket'[s] = ticket[s]
      BY <2>3 DEF TypeOK
    <3>2. r \in Holders' => r \in Holders  BY <2>3 DEF Holders, TypeOK
    <3> QED  BY <2>1, <2>3, <3>1, <3>2, QuietSteps
  <2> QED  BY <1>6, <2>2, <2>3 DEF OnQueued, Caught
<1>7. CASE Timeout(r)
  <2>1. /\ held' = held \ {r}
        /\ pc'[r] = "parking" /\ \A s \in Runs \ {r} : pc'[s] = pc[s]
    BY <1>7 DEF Timeout, ForgetHandle, TypeOK
  <2>2. r \notin Holders'  BY <2>1 DEF Holders
  <2>3. CASE r \in held
    <3>1. Release(r) /\ r \in Holders  BY <1>7, <2>3 DEF Timeout, Holders
    <3> QED  BY <2>1, <2>2, <3>1, LeavesSteps
  <2>4. CASE r \notin held
    <3>1. UNCHANGED poolVars  BY <1>7, <2>4 DEF Timeout
    <3> QED  BY <2>1, <2>2, <3>1, QuietSteps DEF poolVars
  <2> QED  BY <2>3, <2>4
<1>8. CASE Decide(r)
  <2>1. asked[r] \in Nat \ {0}  BY DEF TypeOK
  <2>2. CASE UNCHANGED <<poolVars, held>> /\ pc' = [pc EXCEPT ![r] = "killing"]
    <3>1. pc'[r] = "killing" /\ \A s \in Runs \ {r} : pc'[s] = pc[s]
      BY <2>2 DEF TypeOK
    <3>2. r \in Holders' => r \in Holders  BY <2>2, <3>1 DEF Holders
    <3> QED  BY <2>2, <3>1, <3>2, QuietSteps DEF poolVars
  <2>3. CASE \/ AcquireFast(r, asked[r]) /\ Regain(r)
             \/ /\ AcquireQueued(r, asked[r]) /\ held' = held
                /\ \E label \in Waiting : pc' = [pc EXCEPT ![r] = label]
             \/ /\ AcquirePaused(asked[r]) \/ AcquireFull(r, asked[r])
                /\ \E label \in {"killing", "failing"} : pc' = [pc EXCEPT ![r] = label]
                /\ held' = held
    BY <2>1, <2>3, AcquireHolders DEF Regain, MarkReacquired
  <2> QED  BY <1>8, <2>2, <2>3 DEF Decide, Decided
<1>9. CASE (Save(r) \/ EndKilled(r) \/ EndCancelled(r) \/ EndFailed(r)) /\ Finish(r)
  BY <1>9, FinishHolders
<1>10. CASE (Save(r) \/ EndKilled(r) \/ EndCancelled(r) \/ EndFailed(r)) /\ ~Finish(r)
  <2>1. /\ UNCHANGED <<poolVars, held>>
        /\ pc' = [pc EXCEPT ![r] = "cancelled"] \/ pc' = [pc EXCEPT ![r] = "failing"]
    BY <1>10 DEF Save, EndKilled, EndCancelled, EndFailed, EndHandler, Caught
  <2>2. /\ pc'[r] \in {"cancelled", "failing"}
        /\ \A s \in Runs \ {r} : pc'[s] = pc[s]
    BY <2>1 DEF TypeOK
  <2>3. r \in Holders' => r \in Holders  BY <2>1, <2>2 DEF Holders
  <2> QED  BY <2>1, <2>2, <2>3, QuietSteps DEF poolVars
<1> QED
  BY <1>1, <1>2, <1>3, <1>4, <1>5, <1>6, <1>7, <1>8, <1>9, <1>10 DEF Step

LEMMA StepCallsHold ==
  ASSUME TypeOK, CallsHold, NEW r \in Runs, Submit(r) \/ Step(r)
  PROVE  CallsHold'
<1>1. \A s \in Runs \ {r} : pc'[s] = pc[s] /\ (s \in held => s \in held')
  BY DEF Submit, Step, Insert, Launch, BlockingAcquire, CallEnds, Reply, Start,
         AwaitAdmission, OnQueued, Wake, Regain, OnStarted, Stream, Save, Timeout,
         ForgetHandle, Park, Decide, Resume, EndKilled, EndCancelled, EndFailed,
         EndHandler, Finish, Caught, Goto, TypeOK, MarkReacquired, Register, Unregister, Decided, QueueFull
<1>2. pc'[r] = "calling" => r \in held'
  BY DEF Submit, Step, Insert, Launch, BlockingAcquire, CallEnds, Reply, Start,
         AwaitAdmission, OnQueued, Wake, Regain, OnStarted, Stream, Save, Timeout,
         ForgetHandle, Park, Decide, Resume, EndKilled, EndCancelled, EndFailed,
         EndHandler, Finish, Caught, Goto, TypeOK, MarkReacquired, Register, Unregister, Decided, QueueFull
<1> QED  BY <1>1, <1>2 DEF CallsHold

LEMMA NextCallsHold == TypeOK /\ CallsHold /\ [Next]_vars => CallsHold'
<1> SUFFICES ASSUME TypeOK, CallsHold, [Next]_vars PROVE CallsHold'  OBVIOUS
<1>1. CASE pc' = pc /\ held' = held  BY <1>1 DEF CallsHold
<1>2. CASE Restart  BY <1>2 DEF Restart, CallsHold
<1> QED
  BY <1>1, <1>2, StepCallsHold
  DEF Next, Kill, SubmitDecision, Pause, Unpause, SetLimit, vars, taskVars, KillRun, SubmitInternal

\* Each step treats the pool in one of five ways.
LEMMA NextHolders == TypeOK /\ CallsHold /\ [Next]_vars => HoldersMove
<1> SUFFICES ASSUME TypeOK, CallsHold, [Next]_vars PROVE HoldersMove  OBVIOUS
<1>1. ASSUME pc' = pc, held' = held, inUse' = inUse, lockedHosts' = lockedHosts,
             \A s \in Runs : ticket'[s] = "admitted" => ticket[s] = "admitted"
      PROVE  Quiet
  BY <1>1 DEF Quiet, Holders
<1>2. ASSUME NEW r \in Runs, Submit(r) \/ Step(r)  PROVE HoldersMove
  BY <1>2, StepHolders DEF HoldersMove
<1>3. ASSUME NEW r \in Runs, Kill(r)  PROVE Quiet
  <2>1. \A s \in Runs : ticket'[s] = "admitted" => ticket[s] = "admitted"
    BY <1>3 DEF Kill, Dequeue, poolVars, TypeOK, PoolTypeOK, KillRun, SubmitInternal
  <2>2. inUse' = inUse /\ lockedHosts' = lockedHosts
    BY <1>3 DEF Kill, Dequeue, poolVars, KillRun, SubmitInternal
  <2> QED  BY <1>1, <1>3, <2>1, <2>2 DEF Kill, KillRun, SubmitInternal
<1>4. ASSUME NEW r \in Runs, NEW choice, SubmitDecision(r, choice)  PROVE Quiet
  BY <1>1, <1>4 DEF SubmitDecision, taskVars, poolVars, SubmitInternal
<1>5. ASSUME Pause  PROVE Quiet
  <2>1. \A s \in Runs : ticket'[s] = "admitted" => ticket[s] = "admitted"
    BY <1>5 DEF Pause, DequeueAll, SubmitInternal
  <2> QED  BY <1>1, <1>5, <2>1 DEF Pause, DequeueAll, SubmitInternal
<1>6. ASSUME Unpause  PROVE Quiet
  BY <1>1, <1>6 DEF Unpause, ClearPause, taskVars
<1>7. ASSUME Restart  PROVE PoolReset /\ Holders' = {}
  BY <1>7 DEF Restart, Holders, TypeOK
<1>8. ASSUME NEW n \in Limits, SetLimit(n)  PROVE Rescans(n)
  <2>1. ApplyLimit(n) /\ pc' = pc /\ held' = held
    BY <1>8 DEF SetLimit, taskVars
  <2>2. \A s \in Runs : ticket'[s] = "admitted" /\ ticket[s] # "admitted"
                          => s \in queue \ queue'
    BY <2>1, ScanMarks DEF ApplyLimit, TypeOK
  <2> QED  BY <2>1, <2>2 DEF Rescans, Holders
<1>9. ASSUME UNCHANGED vars  PROVE Quiet
  BY <1>1, <1>9 DEF vars, taskVars, poolVars
<1> QED
  BY <1>2, <1>3, <1>4, <1>5, <1>6, <1>7, <1>8, <1>9 DEF Next, HoldersMove

-----------------------------------------------------------------------------
(* The inductive invariant and the theorems.                               *)

\* A slot and a host lock for every holder need the order of the queue (the
\* scan checks a waiter against those ahead of it) and the handles of calls.
IInv ==
  /\ TypeOK
  /\ CallsHold
  /\ QueueTotal
  /\ Charged(Holders, inUse, lockedHosts)

LEMMA InitInv == Init => IInv
<1> SUFFICES ASSUME Init PROVE IInv  OBVIOUS
<1>1. TypeOK  BY InitTyped
<1>2. Holders = {}  BY DEF Init, Holders
<1>3. inUse = 0 /\ queue = {}  BY DEF Init, PoolInit
<1>4. Charged(Holders, inUse, lockedHosts)
  BY <1>2, <1>3, FS_EmptySet DEF Charged, Disjoint, HostsOf
<1> QED  BY <1>1, <1>3, <1>4 DEF Init, IInv, CallsHold, QueueTotal

LEMMA MoveKeepsCharged ==
  ASSUME IInv, TypeOK', HoldersMove
  PROVE  Charged(Holders', inUse', lockedHosts')
<1>1. /\ Holders \in SUBSET Runs /\ inUse \in Nat /\ PoolTypeOK /\ QueueTotal
      /\ Charged(Holders, inUse, lockedHosts)
  BY HoldersAreRuns DEF IInv, TypeOK, PoolTypeOK
<1>2. inUse' \in Nat  BY DEF TypeOK, PoolTypeOK
<1>3. CASE Quiet
  BY <1>1, <1>3, ChargedShrinks DEF Quiet
<1>4. ASSUME NEW r \in Runs, Enters(r)  PROVE Charged(Holders', inUse', lockedHosts')
  <2>1. Charged(Holders \cup {r}, inUse', lockedHosts')
    BY <1>1, <1>4, ChargedEnters DEF Enters
  <2> QED  BY <1>1, <1>2, <1>4, <2>1, ChargedShrinks DEF Enters
<1>5. ASSUME NEW r \in Holders, Leaves(r)  PROVE Charged(Holders', inUse', lockedHosts')
  <2> DEFINE used   == IF inUse = 0 THEN 0 ELSE inUse - 1
             locked == lockedHosts \ {HostOf[r]}
             rest   == Holders \ {r}
  <2>1. Charged(rest, used, locked)
    BY <1>1, ChargedLeaves
  <2>2. Scan(used, locked, slotLimit)  BY <1>5 DEF Leaves, Release
  <2>3. used \in Nat /\ rest \in SUBSET Runs  BY <1>1
  <2> HIDE DEF used, locked, rest
  <2>4. Charged(rest \cup (queue \ queue'), inUse', lockedHosts')
    BY <1>1, <2>1, <2>2, <2>3, ChargedScan
  <2>5. rest \cup (queue \ queue') \in SUBSET Runs
    BY <1>1, <2>3 DEF PoolTypeOK
  <2>6. Holders' \subseteq rest \cup (queue \ queue')
    BY <1>5 DEF Leaves, rest
  <2> QED  BY <1>2, <2>4, <2>5, <2>6, ChargedShrinks
<1>6. ASSUME NEW n \in Limits, Rescans(n)  PROVE Charged(Holders', inUse', lockedHosts')
  <2>1. Charged(Holders \cup (queue \ queue'), inUse', lockedHosts')
    BY <1>1, <1>6, ChargedScan DEF Rescans, ApplyLimit
  <2>2. Holders \cup (queue \ queue') \in SUBSET Runs
    BY <1>1 DEF PoolTypeOK
  <2> QED  BY <1>2, <1>6, <2>1, <2>2, ChargedShrinks DEF Rescans
<1>7. CASE PoolReset /\ Holders' = {}
  BY <1>7, FS_EmptySet DEF PoolReset, Charged, Disjoint, HostsOf
<1> QED  BY <1>3, <1>4, <1>5, <1>6, <1>7 DEF HoldersMove

LEMMA NextInv == IInv /\ [Next]_vars => IInv'
<1> SUFFICES ASSUME IInv, [Next]_vars PROVE IInv'  OBVIOUS
<1>1. TypeOK'  BY NextTyped DEF IInv
<1>2. CallsHold'  BY NextCallsHold DEF IInv
<1>3. QueueTotal'  BY NextMoves, MovesKeepOrder DEF IInv, TypeOK
<1>4. Charged(Holders, inUse, lockedHosts)'
  BY <1>1, NextHolders, MoveKeepsCharged DEF IInv, Charged, Disjoint
<1> QED  BY <1>1, <1>2, <1>3, <1>4 DEF IInv

THEOREM Invariant == Spec => []IInv
<1> QED  BY InitInv, NextInv, PTL DEF Spec

\* Two runs that hold slots never lock the same target host (HostExclusive),
\* whatever the members do and however many runs there are.
THEOREM HostsExclusive == Spec => []HostExclusive
<1>1. IInv => HostExclusive  BY DEF IInv, Charged, Disjoint, HostExclusive
<1> QED  BY <1>1, Invariant, PTL

\* The pool counts a slot for every run that holds one (SlotsCharged).
THEOREM SlotsAreCharged == Spec => []SlotsCharged
<1>1. IInv => SlotsCharged  BY DEF IInv, Charged, SlotsCharged
<1> QED  BY <1>1, Invariant, PTL
=============================================================================
