--------------------------- MODULE SlotPool_proofs ---------------------------
(***************************************************************************)
(* Proofs about the queue of the pool and its scan: the queue is in one    *)
(* order, nobody is overtaken for want of a slot, a paused engagement      *)
(* admits nobody, and the pool, with its queue, tickets and tasks,         *)
(* implements the abstract slot pool of module SlotPool.                   *)
(***************************************************************************)
EXTENDS RunLifecycle_proofs, WellFoundedInduction

USE DEF PCs, Waiting, Working

-----------------------------------------------------------------------------
(* The invariants of the queue.                                            *)

\* The waiters ahead of one are in the queue too, and whoever is ahead of them.
QueueOrder ==
  \A r \in queue : /\ ahead[r] \subseteq queue \ {r}
                   /\ \A s \in ahead[r] : ahead[s] \subseteq ahead[r]

\* Pausing emptied the queue, and acquire puts nobody into it meanwhile.
PausedIsEmpty == paused => queue = {}

QueueInv == QueueOrder /\ PausedIsEmpty

-----------------------------------------------------------------------------
(* How a step treats the pool.                                             *)

NobodyAdmitted == \A s \in Runs : ticket'[s] = "admitted" => ticket[s] = "admitted"

\* The queue is left alone, some leave it, or it is empty.
QueueShrinks == \/ UNCHANGED <<queue, ahead>>
                \/ \E S \in SUBSET Runs : Leave(S)
                \/ queue' = {}

PoolMoves ==
  \/ \E r \in Runs : Release(r)
  \/ \E n \in Limits : ApplyLimit(n)
  \/ \E r \in Runs \ queue : AcquireQueued(r, asked[r])
  \/ NobodyAdmitted /\ QueueShrinks /\ (paused' => paused \/ queue' = {})

LEMMA StillMoves == TypeOK /\ UNCHANGED poolVars => PoolMoves
BY DEF poolVars, PoolMoves, NobodyAdmitted, QueueShrinks

\* A run joins the queue when it calls acquire, and then it is not in it.
LEMMA AcquireMovesPool ==
  ASSUME TypeOK, LifeInv, NEW r \in Runs, pc[r] \in {"inserting", "created", "deciding"},
         \/ AcquirePaused(asked[r]) \/ AcquireFast(r, asked[r])
         \/ AcquireFull(r, asked[r]) \/ AcquireQueued(r, asked[r])
  PROVE  PoolMoves
<1>1. r \notin queue  BY DEF LifeInv, Life, QueuedWaits
<1>2. CASE AcquireQueued(r, asked[r])  BY <1>1, <1>2 DEF PoolMoves
<1>3. CASE AcquirePaused(asked[r]) \/ AcquireFast(r, asked[r]) \/ AcquireFull(r, asked[r])
  BY <1>3
  DEF AcquirePaused, AcquireFast, AcquireFull, PoolMoves, NobodyAdmitted, QueueShrinks
<1> QED  BY <1>2, <1>3

LEMMA FinishMovesPool ==
  ASSUME TypeOK, NEW r \in Runs, Finish(r)
  PROVE  PoolMoves
<1>1. Release(r) \/ UNCHANGED poolVars  BY DEF Finish, Unregister
<1> QED  BY <1>1, StillMoves DEF PoolMoves

LEMMA StepMovesPool ==
  ASSUME TypeOK, LifeInv, NEW r \in Runs, Submit(r) \/ Step(r)
  PROVE  PoolMoves
<1>1. CASE UNCHANGED poolVars  BY <1>1, StillMoves
<1>2. CASE BlockingAcquire(r)  BY <1>2, AcquireMovesPool DEF BlockingAcquire
<1>3. CASE CallEnds(r)  BY <1>3 DEF CallEnds, PoolMoves
<1>4. CASE Start(r)  BY <1>1, <1>4, AcquireMovesPool DEF Start
<1>5. CASE AwaitAdmission(r) \/ OnQueued(r)
  <2>1. UNCHANGED <<queue, ahead>> \/ Leave({r})  BY <1>5 DEF AwaitAdmission, OnQueued
  <2>2. ticket' = ticket \/ ticket' = [ticket EXCEPT ![r] = "none"]
    BY <1>5 DEF AwaitAdmission, OnQueued, Wake
  <2>3. paused' = paused  BY <1>5 DEF AwaitAdmission, OnQueued
  <2>4. NobodyAdmitted  BY <2>2 DEF NobodyAdmitted, TypeOK, PoolTypeOK
  <2>5. QueueShrinks  BY <2>1 DEF QueueShrinks
  <2> QED  BY <2>3, <2>4, <2>5 DEF PoolMoves
<1>6. CASE Timeout(r)  BY <1>1, <1>6 DEF Timeout, PoolMoves
<1>7. CASE Decide(r)
  <2>1. UNCHANGED poolVars \/ AcquirePaused(asked[r]) \/ AcquireFast(r, asked[r])
          \/ AcquireFull(r, asked[r]) \/ AcquireQueued(r, asked[r])
    BY <1>7 DEF Decide, Decided
  <2> QED  BY <1>1, <1>7, <2>1, AcquireMovesPool DEF Decide
<1>8. CASE Save(r) \/ EndKilled(r) \/ EndCancelled(r) \/ EndFailed(r)
  BY <1>1, <1>8, FinishMovesPool DEF Save, EndKilled, EndCancelled, EndFailed, EndHandler
<1>9. CASE Submit(r) \/ Insert(r) \/ Launch(r) \/ Reply(r) \/ OnStarted(r)
              \/ Stream(r) \/ Park(r) \/ Resume(r)
  BY <1>1, <1>9
  DEF Submit, Insert, Launch, Reply, OnStarted, Stream, Park, Resume, Register, QueueFull
<1> QED  BY <1>2, <1>3, <1>4, <1>5, <1>6, <1>7, <1>8, <1>9 DEF Step

LEMMA NextMovesPool == TypeOK /\ LifeInv /\ [Next]_vars => PoolMoves
<1> SUFFICES ASSUME TypeOK, LifeInv, [Next]_vars PROVE PoolMoves  OBVIOUS
<1>1. CASE UNCHANGED poolVars  BY <1>1, StillMoves
<1>2. ASSUME NEW r \in Runs, Kill(r)  PROVE PoolMoves
  <2>1. CASE Dequeue(r)
    BY <2>1 DEF Dequeue, PoolMoves, NobodyAdmitted, QueueShrinks, TypeOK, PoolTypeOK
  <2> QED  BY <1>1, <1>2, <2>1 DEF Kill, KillRun
<1>3. CASE Pause
  <2>1. NobodyAdmitted  BY <1>3 DEF Pause, DequeueAll, NobodyAdmitted
  <2>2. queue' = {}  BY <1>3 DEF Pause, DequeueAll, Leave
  <2> QED  BY <2>1, <2>2 DEF PoolMoves, QueueShrinks
<1>4. CASE Unpause
  BY <1>4 DEF Unpause, ClearPause, PoolMoves, NobodyAdmitted, QueueShrinks
<1>5. CASE Restart
  BY <1>5 DEF Restart, PoolReset, PoolMoves, NobodyAdmitted, QueueShrinks
<1>6. ASSUME NEW n \in Limits, SetLimit(n)  PROVE PoolMoves
  BY <1>6 DEF SetLimit, PoolMoves
<1> QED
  BY <1>1, <1>2, <1>3, <1>4, <1>5, <1>6, StepMovesPool DEF Next, SubmitDecision, vars

\* The scan is all that release and set_slot_limit do to the queue.
LEMMA ScanMovesPool ==
  ASSUME TypeOK, (\E r \in Runs : Release(r)) \/ (\E n \in Limits : ApplyLimit(n))
  PROVE  /\ paused' = paused
         /\ \E used \in Nat, locked \in SUBSET Hosts : Scan(used, locked, slotLimit')
<1>1. inUse \in Nat /\ lockedHosts \in SUBSET Hosts  BY DEF TypeOK, PoolTypeOK
<1>2. ASSUME NEW r \in Runs, Release(r)
      PROVE  /\ paused' = paused
             /\ \E used \in Nat, locked \in SUBSET Hosts : Scan(used, locked, slotLimit')
  <2>1. /\ slotLimit' = slotLimit /\ paused' = paused
        /\ Scan(IF inUse = 0 THEN 0 ELSE inUse - 1, lockedHosts \ {HostOf[r]}, slotLimit)
    BY <1>2 DEF Release
  <2>2. (IF inUse = 0 THEN 0 ELSE inUse - 1) \in Nat /\ lockedHosts \ {HostOf[r]} \in SUBSET Hosts
    BY <1>1
  <2> QED  BY <2>1, <2>2
<1>3. ASSUME NEW n \in Limits, ApplyLimit(n)
      PROVE  /\ paused' = paused
             /\ \E used \in Nat, locked \in SUBSET Hosts : Scan(used, locked, slotLimit')
  BY <1>1, <1>3 DEF ApplyLimit
<1> QED  BY <1>2, <1>3

-----------------------------------------------------------------------------
(* The order of the queue is kept.                                         *)

LEMMA LeaveKeepsOrder ==
  ASSUME TypeOK, QueueOrder, NEW S \in SUBSET Runs, Leave(S)
  PROVE  QueueOrder'
<1>1. queue' = queue \ S /\ ahead' = [r \in Runs |-> IF r \in S THEN {} ELSE ahead[r] \ S]
  BY DEF Leave
<1>2. queue \subseteq Runs  BY DEF TypeOK, PoolTypeOK
<1>3. ASSUME NEW r \in queue'
      PROVE  /\ ahead'[r] \subseteq queue' \ {r}
             /\ \A s \in ahead'[r] : ahead'[s] \subseteq ahead'[r]
  <2>1. r \in queue /\ r \notin S /\ ahead'[r] = ahead[r] \ S  BY <1>1, <1>2
  <2>2. ASSUME NEW s \in ahead'[r]  PROVE ahead'[s] \subseteq ahead'[r]
    <3>1. s \in queue /\ s \notin S /\ ahead[s] \subseteq ahead[r]
      BY <2>1 DEF QueueOrder
    <3> QED  BY <1>1, <1>2, <2>1, <3>1
  <2> QED  BY <1>1, <2>1, <2>2 DEF QueueOrder
<1> QED  BY <1>3 DEF QueueOrder

LEMMA JoinKeepsOrder ==
  ASSUME TypeOK, QueueOrder, NEW r \in Runs \ queue, AcquireQueued(r, asked[r])
  PROVE  QueueOrder'
<1>1. queue' = queue \cup {r} /\ ahead' = [ahead EXCEPT ![r] = queue]
  BY DEF AcquireQueued
<1>2. queue \subseteq Runs /\ ahead \in [Runs -> SUBSET Runs]  BY DEF TypeOK, PoolTypeOK
<1>3. ahead'[r] = queue /\ \A s \in queue : ahead'[s] = ahead[s]
  BY <1>1, <1>2
<1>4. ASSUME NEW s \in queue
      PROVE  /\ ahead'[s] \subseteq queue' \ {s}
             /\ \A t \in ahead'[s] : ahead'[t] \subseteq ahead'[s]
  BY <1>1, <1>3 DEF QueueOrder
<1>5. /\ ahead'[r] \subseteq queue' \ {r}
      /\ \A t \in ahead'[r] : ahead'[t] \subseteq ahead'[r]
  BY <1>1, <1>3 DEF QueueOrder
<1> QED  BY <1>1, <1>4, <1>5 DEF QueueOrder

LEMMA MovesKeepQueueInv ==
  ASSUME TypeOK, QueueInv, PoolMoves
  PROVE  QueueInv'
<1>1. QueueOrder /\ PausedIsEmpty  BY DEF QueueInv
<1>2. CASE (\E r \in Runs : Release(r)) \/ (\E n \in Limits : ApplyLimit(n))
  <2>1. PICK used \in Nat, locked \in SUBSET Hosts :
          paused' = paused /\ Scan(used, locked, slotLimit')
    BY <1>2, ScanMovesPool
  <2>2. PICK A \in SUBSET queue : Leave(A)  BY <2>1 DEF Scan
  <2>3. A \in SUBSET Runs /\ queue' \subseteq queue
    BY <2>2 DEF Leave, TypeOK, PoolTypeOK
  <2>4. QueueOrder'  BY <1>1, <2>2, <2>3, LeaveKeepsOrder
  <2> QED  BY <1>1, <2>1, <2>3, <2>4 DEF QueueInv, PausedIsEmpty
<1>3. ASSUME NEW r \in Runs \ queue, AcquireQueued(r, asked[r])  PROVE QueueInv'
  <2>1. ~paused'  BY <1>3 DEF AcquireQueued
  <2> QED  BY <1>1, <1>3, <2>1, JoinKeepsOrder DEF QueueInv, PausedIsEmpty
<1>4. CASE QueueShrinks /\ (paused' => paused \/ queue' = {})
  <2>1. queue' \subseteq queue  BY <1>4 DEF QueueShrinks, Leave
  <2>2. QueueOrder'
    <3>1. CASE UNCHANGED <<queue, ahead>>  BY <1>1, <3>1 DEF QueueOrder
    <3>2. CASE queue' = {}  BY <3>2 DEF QueueOrder
    <3> QED  BY <1>1, <1>4, <3>1, <3>2, LeaveKeepsOrder DEF QueueShrinks
  <2> QED  BY <1>1, <1>4, <2>1, <2>2 DEF QueueInv, PausedIsEmpty
<1> QED  BY <1>2, <1>3, <1>4 DEF PoolMoves

\* The queue is one order, and empty while the engagement is paused.
THEOREM QueueInvariant == Spec => []QueueInv
<1>1. Init => QueueInv  BY DEF Init, PoolInit, QueueInv, QueueOrder, PausedIsEmpty
<1>2. TypeOK /\ LifeInv /\ QueueInv /\ [Next]_vars => QueueInv'
  BY NextMovesPool, MovesKeepQueueInv
<1> QED  BY <1>1, <1>2, TypeCorrect, LifeInvariant, PTL DEF Spec

-----------------------------------------------------------------------------
(* The scan stays within the limit.                                        *)

LEMMA SmallestOf ==
  ASSUME NEW T \in SUBSET Nat, T # {}
  PROVE  \E n \in T : \A m \in T : n <= m
<1>1. PICK n \in T : \A m \in T : <<m, n>> \notin OpToRel(<, Nat)
  BY WFMin, NatLessThanWellFounded, Zenon
<1>2. ASSUME NEW m \in T  PROVE ~(m < n)
  <2>1. m \in Nat /\ n \in Nat  OBVIOUS
  <2>2. m < n => <<m, n>> \in OpToRel(<, Nat)  BY <2>1, Zenon DEF OpToRel
  <2> QED  BY <1>1, <2>2, Zenon
<1>3. ASSUME NEW m \in T  PROVE n <= m
  BY <1>2
<1> QED  BY <1>3

\* Of some waiters one is the last: the others are all ahead of it.
LEMMA LastWaiter ==
  ASSUME TypeOK, QueueTotal, QueueOrder, NEW A \in SUBSET queue, A # {}
  PROVE  \E r \in A : A \cap ahead[r] = A \ {r}
<1>1. queue \subseteq Runs  BY DEF TypeOK, PoolTypeOK
<1> DEFINE behind(r) == Cardinality(A \ ahead[r])
<1>2. \A r \in A : behind(r) \in Nat /\ IsFiniteSet(A \ ahead[r])
  BY <1>1, CardinalityOfRuns
<1>3. PICK n \in {behind(r) : r \in A} : \A m \in {behind(r) : r \in A} : n <= m
  <2>1. {behind(r) : r \in A} \in SUBSET Nat /\ {behind(r) : r \in A} # {}
    BY <1>2
  <2> HIDE DEF behind
  <2> QED  BY <2>1, SmallestOf
<1>4. PICK r \in A : n = behind(r)  BY <1>3
<1>5. ASSUME NEW s \in A, s # r  PROVE s \in ahead[r]
  <2>1. SUFFICES ASSUME s \notin ahead[r] PROVE FALSE  OBVIOUS
  <2>2. r \in ahead[s]  BY <1>5, <2>1 DEF QueueTotal
  <2>3. ahead[r] \subseteq ahead[s] /\ r \notin ahead[r]  BY <2>2 DEF QueueOrder
  <2>4. (A \ ahead[s]) \subseteq (A \ ahead[r]) /\ (A \ ahead[s]) # (A \ ahead[r])
    BY <2>2, <2>3
  <2>5. behind(s) < behind(r)
    <3>1. IsFiniteSet(A \ ahead[r])  BY <1>2
    <3>2. Cardinality(A \ ahead[s]) <= Cardinality(A \ ahead[r])
      BY <2>4, <3>1, FS_Subset
    <3>3. Cardinality(A \ ahead[s]) # Cardinality(A \ ahead[r])
      BY <2>4, <3>1, FS_Subset
    <3>4. behind(s) \in Nat /\ behind(r) \in Nat  BY <1>2
    <3> QED  BY <3>2, <3>3, <3>4
  <2>6. behind(r) <= behind(s)  BY <1>3, <1>4
  <2>7. behind(s) \in Nat /\ behind(r) \in Nat  BY <1>2
  <2> QED  BY <2>5, <2>6, <2>7
<1>6. r \notin ahead[r]  BY DEF QueueOrder
<1> QED  BY <1>5, <1>6

\* A scan that admits somebody leaves the pool within the limit: the last one
\* admitted was checked against all the others.
LEMMA ScanFits ==
  ASSUME TypeOK, QueueTotal, QueueOrder, NEW used \in Nat, NEW locked, NEW limit \in Nat,
         Scan(used, locked, limit), queue \ queue' # {}
  PROVE  inUse' <= limit
<1>1. PICK A \in SUBSET queue :
        /\ Admits(A, used, locked, limit) /\ Leave(A)
        /\ inUse' = used + Cardinality(A)
  BY DEF Scan
<1>2. A # {} /\ A \in SUBSET Runs  BY <1>1 DEF Leave, TypeOK, PoolTypeOK
<1>3. PICK r \in A : A \cap ahead[r] = A \ {r}  BY <1>2, LastWaiter
<1>4. used + Cardinality(A \ {r}) < limit  BY <1>1, <1>3 DEF Admits
<1>5. Cardinality(A \ {r}) = Cardinality(A) - 1 /\ Cardinality(A) \in Nat
  BY <1>2, CardinalityOfRuns, FS_RemoveElement
<1> QED  BY <1>1, <1>4, <1>5

-----------------------------------------------------------------------------
(* The order of admission.                                                 *)

\* A scan that admits a waiter and leaves one ahead of it in the queue found the
\* host of that one locked: there was a slot for it.
LEMMA ScanIsFair ==
  ASSUME TypeOK, QueueOrder, NEW used \in Nat, NEW locked, NEW limit \in Nat,
         Scan(used, locked, limit),
         NEW r \in queue \ queue', NEW s \in ahead[r], s \in queue'
  PROVE  HostOf[s] \in lockedHosts'
<1>1. PICK A \in SUBSET queue :
        /\ Admits(A, used, locked, limit) /\ Leave(A)
        /\ lockedHosts' = locked \cup HostsOf(A)
  BY DEF Scan
<1>2. r \in A /\ s \notin A /\ A \in SUBSET Runs  BY <1>1 DEF Leave, TypeOK, PoolTypeOK
<1>3. s \in queue /\ ahead[s] \subseteq ahead[r]  BY DEF QueueOrder
<1> DEFINE before(t) == A \cap ahead[t]
<1>4. before(s) \subseteq before(r)  BY <1>3
<1>5. before(r) \in SUBSET Runs /\ before(s) \in SUBSET Runs  BY <1>2
<1>6. used + Cardinality(before(r)) < limit  BY <1>1, <1>2 DEF Admits
<1>7. ~(/\ used + Cardinality(before(s)) < limit
        /\ HostOf[s] \notin locked \cup HostsOf(before(s)))
  BY <1>1, <1>2, <1>3 DEF Admits
<1> HIDE DEF before
<1>8. Cardinality(before(s)) <= Cardinality(before(r))
  BY <1>4, <1>5, CardinalityOfRuns, FS_Subset
<1>9. Cardinality(before(s)) \in Nat /\ Cardinality(before(r)) \in Nat
  BY <1>5, CardinalityOfRuns
<1>10. HostOf[s] \in locked \cup HostsOf(before(s))  BY <1>6, <1>7, <1>8, <1>9
<1>11. before(s) \subseteq A  BY DEF before
<1> QED  BY <1>1, <1>10, <1>11 DEF HostsOf

\* What NoOvertaking says of one step.
NobodyOvertaken ==
  \A r \in queue : \A s \in ahead[r] :
    ticket'[r] = "admitted" /\ s \in queue' => HostOf[s] \in lockedHosts'

LEMMA StepIsFair ==
  ASSUME TypeOK, LifeInv, QueueInv, TypeOK', PoolMoves
  PROVE  NobodyOvertaken
<1>1. QueueOrder  BY DEF QueueInv
<1>2. ASSUME NEW r \in queue  PROVE r \in Runs /\ ticket[r] = "waiting"
  BY DEF LifeInv, Life, QueuedWaits, TypeOK, PoolTypeOK
<1>3. CASE (\E r \in Runs : Release(r)) \/ (\E n \in Limits : ApplyLimit(n))
  <2>1. PICK used \in Nat, locked \in SUBSET Hosts : Scan(used, locked, slotLimit')
    BY <1>3, ScanMovesPool
  <2>2. slotLimit' \in Nat  BY DEF TypeOK, PoolTypeOK
  <2>3. PICK limit \in Nat : limit = slotLimit'  BY <2>2
  <2>4. Scan(used, locked, limit)  BY <2>1, <2>3 DEF Scan, Admits
  <2>5. ASSUME NEW r \in queue, NEW s \in ahead[r], ticket'[r] = "admitted", s \in queue'
        PROVE  HostOf[s] \in lockedHosts'
    <3>1. r \in queue \ queue'
      BY <1>2, <2>4, <2>5, ScanMarks DEF TypeOK
    <3> QED  BY <1>1, <2>4, <2>5, <3>1, ScanIsFair
  <2> QED  BY <2>5 DEF NobodyOvertaken
<1>4. ASSUME NEW q \in Runs \ queue, AcquireQueued(q, asked[q])  PROVE NobodyOvertaken
  BY <1>2, <1>4 DEF AcquireQueued, NobodyOvertaken, TypeOK, PoolTypeOK
<1>5. CASE NobodyAdmitted  BY <1>2, <1>5 DEF NobodyAdmitted, NobodyOvertaken
<1> QED  BY <1>3, <1>4, <1>5 DEF PoolMoves

\* A waiter is passed by a later one only while its own host is locked
\* (NoOvertaking), for every number of runs, slots and changes of the limit.
THEOREM NobodyIsOvertaken == Spec => NoOvertaking
<1>1. TypeOK /\ LifeInv /\ QueueInv /\ TypeOK' /\ [Next]_vars
        => [\A r \in queue : \A s \in ahead[r] :
              ticket'[r] = "admitted" /\ s \in queue' => HostOf[s] \in lockedHosts']_vars
  BY NextMovesPool, StepIsFair DEF NobodyOvertaken
<1> QED
  BY <1>1, TypeCorrect, LifeInvariant, QueueInvariant, PTL DEF Spec, NoOvertaking

\* A paused engagement has no waiter to admit, and acquire turns runs away.
LEMMA PausedAdmitsNobody ==
  ASSUME TypeOK, CallsHold, QueueInv, HoldersMove, paused
  PROVE  Holders' \subseteq Holders
<1>1. queue \ queue' = {}  BY DEF QueueInv, PausedIsEmpty
<1>2. ASSUME NEW r \in Runs  PROVE ~Enters(r)  BY DEF Enters
<1> QED  BY <1>1, <1>2 DEF HoldersMove, Quiet, Leaves, Rescans

\* While the engagement is paused nobody enters the pool (PauseStopsAdmission).
THEOREM PauseAdmitsNobody == Spec => PauseStopsAdmission
<1>1. IInv /\ QueueInv /\ [Next]_vars => [paused /\ paused' => Holders' \subseteq Holders]_vars
  BY NextHolders, PausedAdmitsNobody DEF IInv
<1> QED  BY <1>1, Invariant, QueueInvariant, PTL DEF Spec, PauseStopsAdmission

-----------------------------------------------------------------------------
(* The refinement.                                                         *)

\* Whoever enters, enters within the limit in force after the step.
LEMMA EntersWithinLimit ==
  ASSUME IInv, QueueInv, TypeOK', HoldersMove, Charged(Holders', inUse', lockedHosts'),
         ~(Holders' \subseteq Holders)
  PROVE  Cardinality(Holders') <= slotLimit'
<1>1. /\ TypeOK /\ QueueTotal /\ QueueOrder /\ inUse \in Nat
      /\ inUse' \in Nat /\ slotLimit' \in Nat
  BY DEF IInv, QueueInv, TypeOK, PoolTypeOK
<1>2. Cardinality(Holders') <= inUse' /\ Cardinality(Holders') \in Nat
  <2>1. Holders' \in SUBSET Runs  BY DEF TypeOK, Holders
  <2> QED  BY <2>1, CardinalityOfRuns DEF Charged
<1>3. inUse' <= slotLimit'
  <2>1. ASSUME NEW r \in Runs, Enters(r)  PROVE inUse' <= slotLimit'
    BY <1>1, <2>1 DEF Enters
  <2>2. ASSUME NEW r \in Holders, Leaves(r)  PROVE inUse' <= slotLimit'
    <3>1. queue \ queue' # {}  BY <2>2 DEF Leaves
    <3>2. r \in Runs  BY <1>1, HoldersAreRuns
    <3>3. Release(r)  BY <2>2 DEF Leaves
    <3>4. PICK used \in Nat, locked \in SUBSET Hosts : Scan(used, locked, slotLimit')
      BY <1>1, <3>2, <3>3, ScanMovesPool
    <3>5. PICK limit \in Nat : limit = slotLimit'  BY <1>1
    <3>6. Scan(used, locked, limit)  BY <3>4, <3>5 DEF Scan, Admits
    <3> QED  BY <1>1, <3>1, <3>5, <3>6, ScanFits
  <2>3. ASSUME NEW n \in Limits, Rescans(n)  PROVE inUse' <= slotLimit'
    <3>1. queue \ queue' # {}  BY <2>3 DEF Rescans
    <3>2. Scan(inUse, lockedHosts, n) /\ slotLimit' = n
      BY <2>3 DEF Rescans, ApplyLimit
    <3>3. n \in Nat  BY LimitAssumption
    <3> QED  BY <1>1, <3>1, <3>2, <3>3, ScanFits
  <2> QED  BY <2>1, <2>2, <2>3 DEF HoldersMove, Quiet
<1> QED  BY <1>1, <1>2, <1>3

\* Every step of the detailed pool is a turnover of the abstract one, or changes
\* neither its holders nor its limit.
LEMMA StepIsTurnover ==
  ASSUME IInv, IInv', QueueInv, HoldersMove
  PROVE  Abstract!Next
<1> DEFINE gone == Holders \ Holders'
           new  == Holders' \ Holders
<1>1. Holders \in SUBSET Runs /\ Holders' \in SUBSET Runs
  BY DEF IInv, TypeOK, Holders
<1>2. TypeOK' /\ Charged(Holders', inUse', lockedHosts')
  BY DEF IInv, Charged, Disjoint
<1>3. Holders' = (Holders \ gone) \cup new  OBVIOUS
<1>4. slotLimit' \in Nat  BY <1>2 DEF TypeOK, PoolTypeOK
<1>5. new # {} => Cardinality(Holders') <= slotLimit'
  BY <1>2, EntersWithinLimit
<1>6. Abstract!HostsDisjoint(Holders')
  BY <1>2 DEF Charged, Disjoint, Abstract!HostsDisjoint
<1>7. gone \in SUBSET Holders /\ new \in SUBSET (Runs \ Holders)  BY <1>1
<1>8. Abstract!Cardinality(Holders') = Cardinality(Holders')
  BY DEF Abstract!Cardinality, Cardinality
<1>9. Abstract!Turnover(gone, new)
  BY <1>3, <1>4, <1>5, <1>6, <1>8 DEF Abstract!Turnover
<1> HIDE DEF gone, new
<1> QED  BY <1>7, <1>9 DEF Abstract!Next

\* The pool with its queue, tickets, time-outs, decisions, kills, pauses, changes
\* of the limit and restarts implements the abstract slot pool
\* (ImplementsSlotPool): its holders enter within the limit in force, a lowered
\* limit evicts nobody, and two of them never share a host.
THEOREM PoolImplementsSlotPool == Spec => ImplementsSlotPool
<1>1. Init => Abstract!Init
  <2> SUFFICES ASSUME Init PROVE Abstract!Init  OBVIOUS
  <2>1. Holders = {}  BY DEF Init, Holders
  <2>2. slotLimit \in Nat  BY DEF Init, PoolInit, DefaultLimit
  <2> QED  BY <2>1, <2>2 DEF Abstract!Init
<1>2. IInv /\ IInv' /\ QueueInv /\ [Next]_vars => [Abstract!Next]_(Abstract!vars)
  BY NextHolders, StepIsTurnover DEF IInv
<1> QED
  BY <1>1, <1>2, Invariant, QueueInvariant, PTL DEF Spec, ImplementsSlotPool, Abstract!Spec
=============================================================================
