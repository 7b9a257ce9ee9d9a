------------------------- MODULE RunLifecycle_proofs -------------------------
(***************************************************************************)
(* Proofs about the life of one run in ToolRuns: where its coroutine is,   *)
(* what the registry and the queue say of it, which handle it has and what *)
(* its row says.  From them: heavy work holds a slot, a streaming run can  *)
(* be cancelled, a killed or failed row is final, and a run that nobody    *)
(* cancels ends with a terminal row.                                       *)
(***************************************************************************)
EXTENDS ToolRuns_proofs

USE DEF PCs, Waiting, Working

-----------------------------------------------------------------------------
(* The invariant, a conjunction of facts about one run.                    *)

\* A blocking run is no task: it is never registered, cancelled or parked, and
\* its row is not committed before its result is.  No task makes its kind of call.
BlockingLife(r) ==
  /\ Kind[r] = "blocking" =>
       /\ registry[r] = "absent" /\ r \notin cancel
       /\ pc[r] \in {"idle", "inserting", "waiting", "calling", "replying", "done"}
       /\ row[r] \in {"none", "completed"}
  /\ Kind[r] # "blocking" => pc[r] \notin {"calling", "replying"}

\* A task is registered from its creation to its finally block, and as holding
\* a slot wherever a kill has to reach the task itself.
Registered(r) ==
  /\ pc[r] \in {"created", "onQueued", "onStarted", "streaming", "saving", "resuming"}
       => registry[r] = "slot"
  /\ Kind[r] = "heavy" /\ pc[r] = "waiting" => registry[r] = "slot"
  /\ Kind[r] # "blocking" /\ pc[r] \notin {"idle", "inserting", "committed", "done"}
       => registry[r] # "absent"

\* The handle is at hand while the run talks to its server.
WorkHeld(r) ==
  Kind[r] # "light" /\ pc[r] \in {"streaming", "saving", "resuming", "calling"} => r \in held

\* What the row says of where the coroutine is.
Written(r) ==
  /\ pc[r] \in {"idle", "inserting"} => row[r] = "none"
  /\ row[r] = "killed" => pc[r] \in {"cancelled", "done"}
  /\ row[r] = "failed" => pc[r] = "done"

\* A ticket in the queue is waited for, or was left behind by a cancellation.
QueuedWaits(r) ==
  r \in queue => ticket[r] = "waiting" /\ pc[r] \in Waiting \cup {"cancelled", "done"}

Life(r) ==
  BlockingLife(r) /\ Registered(r) /\ WorkHeld(r) /\ Written(r) /\ QueuedWaits(r)

LifeInv == \A r \in Runs : Life(r)

-----------------------------------------------------------------------------
(* The queue.                                                              *)

\* A run of R may join the queue; every other waiter of the next state is one of
\* this state, with the ticket it had.
Waiters(R) ==
  /\ queue' \subseteq queue \cup R
  /\ \A s \in queue' \ R : ticket'[s] = ticket[s]

LEMMA ScanWaiters ==
  ASSUME PoolTypeOK, NEW used, NEW locked, NEW limit, Scan(used, locked, limit)
  PROVE  Waiters({})
BY DEF Scan, Leave, Waiters, PoolTypeOK

LEMMA FinishWaiters ==
  ASSUME PoolTypeOK, NEW r \in Runs, Finish(r)
  PROVE  Waiters({})
<1>1. CASE Release(r)  BY <1>1, ScanWaiters DEF Release
<1>2. CASE UNCHANGED poolVars  BY <1>2 DEF poolVars, Waiters
<1> QED  BY <1>1, <1>2 DEF Finish, Unregister

\* The four ways through acquire: only one of them joins the queue.
LEMMA AcquireWaiters ==
  ASSUME PoolTypeOK, NEW r \in Runs, NEW limit
  PROVE  /\ AcquirePaused(limit) \/ AcquireFast(r, limit) \/ AcquireFull(r, limit)
              => Waiters({})
         /\ AcquireQueued(r, limit) => Waiters({r}) /\ ticket'[r] = "waiting"
<1>1. AcquirePaused(limit) \/ AcquireFast(r, limit) \/ AcquireFull(r, limit)
        => queue' = queue /\ ticket' = ticket
  BY DEF AcquirePaused, AcquireFast, AcquireFull
<1>2. AcquireQueued(r, limit)
        => queue' = queue \cup {r} /\ ticket' = [ticket EXCEPT ![r] = "waiting"]
  BY DEF AcquireQueued
<1> QED  BY <1>1, <1>2 DEF Waiters, PoolTypeOK

\* A run that is in the queue and takes a step stays where a waiter is.
LEMMA StepQueuedWaits ==
  ASSUME TypeOK, LifeInv, NEW r \in Runs, Submit(r) \/ Step(r)
  PROVE  \A s \in Runs : QueuedWaits(s)'
<1> USE DEF Goto
<1>1. PoolTypeOK /\ \A s \in Runs : QueuedWaits(s)  BY DEF TypeOK, LifeInv, Life
<1>2. ASSUME NEW label \in PCs, pc' = [pc EXCEPT ![r] = label],
             \/ Waiters({}) /\ \/ pc[r] \notin Waiting \cup {"cancelled", "done"}
                               \/ label \in Waiting \cup {"cancelled", "done"}
             \/ Waiters({r}) /\ ticket'[r] = "waiting" /\ label \in Waiting
      PROVE  \A s \in Runs : QueuedWaits(s)'
  <2>1. pc'[r] = label /\ \A s \in Runs \ {r} : pc'[s] = pc[s]
    BY <1>2 DEF TypeOK
  <2>2. ASSUME NEW s \in Runs, s # r  PROVE QueuedWaits(s)'
    BY <1>1, <1>2, <2>1, <2>2 DEF QueuedWaits, Waiters
  <2>3. QueuedWaits(r)'
    BY <1>1, <1>2, <2>1 DEF QueuedWaits, Waiters
  <2> QED  BY <2>2, <2>3
<1>3. UNCHANGED poolVars => Waiters({})  BY DEF poolVars, Waiters
<1>4. CASE Submit(r) \/ Insert(r) \/ Launch(r) \/ Reply(r) \/ OnStarted(r)
              \/ Stream(r) \/ Park(r) \/ Resume(r)
  <2>1. Waiters({})
    BY <1>3, <1>4
    DEF Submit, Insert, Launch, Reply, OnStarted, Stream, Park, Resume, Register, QueueFull
  <2>2. /\ pc[r] \notin Waiting \cup {"cancelled", "done"}
        /\ \E label \in PCs : pc' = [pc EXCEPT ![r] = label]
    BY <1>4
    DEF Submit, Insert, Launch, Reply, OnStarted, Stream, Park, Resume, Caught, Register, QueueFull
  <2> QED  BY <1>2, <2>1, <2>2
<1>5. CASE BlockingAcquire(r)
  <2>1. pc[r] = "inserting"  BY <1>5 DEF BlockingAcquire
  <2>2. CASE AcquireQueued(r, asked[r]) /\ pc' = [pc EXCEPT ![r] = "waiting"]
    BY <1>1, <1>2, <2>2, AcquireWaiters
  <2>3. CASE /\ AcquirePaused(asked[r]) \/ AcquireFast(r, asked[r]) \/ AcquireFull(r, asked[r])
             /\ \E label \in PCs : pc' = [pc EXCEPT ![r] = label]
    BY <1>1, <1>2, <2>1, <2>3, AcquireWaiters
  <2> QED  BY <1>5, <2>2, <2>3 DEF BlockingAcquire
<1>6. CASE CallEnds(r)
  <2>1. Waiters({})  BY <1>1, <1>6, ScanWaiters DEF CallEnds, Release
  <2>2. pc[r] = "calling" /\ \E label \in PCs : pc' = [pc EXCEPT ![r] = label]
    BY <1>6 DEF CallEnds
  <2> QED  BY <1>2, <2>1, <2>2
<1>7. CASE Start(r)
  <2>1. pc[r] = "created"  BY <1>7 DEF Start
  <2>2. CASE AcquireQueued(r, asked[r]) /\ pc' = [pc EXCEPT ![r] = "onQueued"]
    BY <1>1, <1>2, <2>2, AcquireWaiters
  <2>3. CASE /\ \/ AcquirePaused(asked[r]) \/ AcquireFast(r, asked[r]) \/ AcquireFull(r, asked[r])
                \/ UNCHANGED poolVars
             /\ \E label \in PCs : pc' = [pc EXCEPT ![r] = label]
    BY <1>1, <1>2, <1>3, <2>1, <2>3, AcquireWaiters
  <2> QED  BY <1>7, <2>2, <2>3 DEF Start
<1>8. CASE AwaitAdmission(r) \/ OnQueued(r)
  <2>1. CASE Wake(r) /\ UNCHANGED queue
    <3>1. r \notin queue  BY <1>1, <2>1 DEF Wake, QueuedWaits
    <3>2. ticket' = [ticket EXCEPT ![r] = "none"]  BY <2>1 DEF Wake
    <3>3. \A s \in Runs \ {r} : pc'[s] = pc[s]
      BY <2>1 DEF Wake, Regain, TypeOK, MarkReacquired
    <3> QED  BY <1>1, <2>1, <3>1, <3>2, <3>3 DEF QueuedWaits, PoolTypeOK
  <2>2. CASE Caught(r) /\ Leave({r}) /\ ticket' = [ticket EXCEPT ![r] = "none"]
    <3>1. r \notin queue' /\ queue' \subseteq queue  BY <2>2 DEF Leave
    <3>2. \A s \in Runs \ {r} : pc'[s] = pc[s] /\ ticket'[s] = ticket[s]
      BY <1>1, <2>2 DEF Caught, TypeOK, PoolTypeOK
    <3> QED  BY <1>1, <3>1, <3>2 DEF QueuedWaits
  <2>3. CASE /\ UNCHANGED <<queue, ticket>>
             /\ \E label \in Waiting \cup {"cancelled"} : pc' = [pc EXCEPT ![r] = label]
    <3>1. Waiters({})  BY <2>3 DEF Waiters
    <3> QED  BY <1>2, <2>3, <3>1
  <2> QED  BY <1>8, <2>1, <2>2, <2>3 DEF AwaitAdmission, OnQueued, Caught
<1>9. CASE Timeout(r)
  <2>1. Waiters({})  BY <1>1, <1>3, <1>9, ScanWaiters DEF Timeout, Release
  <2>2. pc[r] = "streaming" /\ pc' = [pc EXCEPT ![r] = "parking"]
    BY <1>9 DEF Timeout
  <2> QED  BY <1>2, <2>1, <2>2
<1>10. CASE Decide(r)
  <2>1. pc[r] = "deciding"  BY <1>10 DEF Decide
  <2>2. CASE /\ AcquireQueued(r, asked[r])
             /\ \E label \in Waiting : pc' = [pc EXCEPT ![r] = label]
    BY <1>1, <1>2, <2>2, AcquireWaiters
  <2>3. CASE /\ \/ AcquirePaused(asked[r]) \/ AcquireFast(r, asked[r]) \/ AcquireFull(r, asked[r])
                \/ UNCHANGED poolVars
             /\ \E label \in PCs : pc' = [pc EXCEPT ![r] = label]
    BY <1>1, <1>2, <1>3, <2>1, <2>3, AcquireWaiters
  <2> QED  BY <1>10, <2>2, <2>3 DEF Decide, Regain, MarkReacquired, Decided
<1>11. CASE (Save(r) \/ EndKilled(r) \/ EndCancelled(r) \/ EndFailed(r)) /\ Finish(r)
  <2>1. pc' = [pc EXCEPT ![r] = "done"]  BY <1>11 DEF Finish
  <2> QED  BY <1>1, <1>2, <1>11, <2>1, FinishWaiters
<1>12. CASE (Save(r) \/ EndKilled(r) \/ EndCancelled(r) \/ EndFailed(r)) /\ ~Finish(r)
  <2>1. /\ UNCHANGED poolVars /\ pc[r] \in {"saving", "killing"}
        /\ pc' = [pc EXCEPT ![r] = "cancelled"] \/ pc' = [pc EXCEPT ![r] = "failing"]
    BY <1>12 DEF Save, EndKilled, EndCancelled, EndFailed, EndHandler, Caught
  <2> QED  BY <1>2, <1>3, <2>1
<1> QED
  BY <1>4, <1>5, <1>6, <1>7, <1>8, <1>9, <1>10, <1>11, <1>12 DEF Step

-----------------------------------------------------------------------------
(* The stepping run, and the others.                                       *)

\* A coroutine changes nothing of another run but its ticket and its place in
\* the queue.
LEMMA OthersKept ==
  ASSUME TypeOK, NEW r \in Runs, Submit(r) \/ Step(r)
  PROVE  \A s \in Runs \ {r} :
           /\ pc'[s] = pc[s] /\ row'[s] = row[s] /\ registry'[s] = registry[s]
           /\ (s \in held' <=> s \in held) /\ (s \in cancel' <=> s \in cancel)
<1> USE DEF Goto, SetRow, Persist, Interrupted, Caught
<1>1. CASE Submit(r) \/ Insert(r) \/ Launch(r) \/ BlockingAcquire(r) \/ CallEnds(r) \/ Reply(r)
  BY <1>1 DEF Submit, Insert, Launch, BlockingAcquire, CallEnds, Reply, TypeOK, Register,
              QueueFull, rowVars
<1>2. CASE Start(r) \/ AwaitAdmission(r) \/ OnQueued(r) \/ OnStarted(r)
  BY <1>2 DEF Start, AwaitAdmission, OnQueued, OnStarted, Wake, Regain, MarkReacquired,
              TypeOK, rowVars
<1>3. CASE Stream(r) \/ Timeout(r) \/ Park(r) \/ Decide(r) \/ Resume(r)
  BY <1>3 DEF Stream, Timeout, ForgetHandle, Park, Decide, Decided, Resume, Regain,
              MarkReacquired, TypeOK, rowVars
<1>4. CASE Save(r) \/ EndKilled(r) \/ EndCancelled(r) \/ EndFailed(r)
  BY <1>4 DEF Save, EndKilled, EndCancelled, EndFailed, EndHandler, Finish, Unregister, TypeOK
<1> QED  BY <1>1, <1>2, <1>3, <1>4 DEF Step

\* What the finally block leaves.
LEMMA FinishLife ==
  ASSUME TypeOK, NEW r \in Runs, Finish(r), Kind[r] # "blocking"
  PROVE  BlockingLife(r)' /\ Registered(r)' /\ WorkHeld(r)' /\ Written(r)'
<1>1. pc'[r] = "done"  BY DEF Finish, Goto, TypeOK
<1> QED  BY <1>1 DEF BlockingLife, Registered, WorkHeld, Written

\* The facts about the stepping run, one action at a time.
LEMMA StepLife ==
  ASSUME TypeOK, NEW r \in Runs, Life(r), Submit(r) \/ Step(r)
  PROVE  BlockingLife(r)' /\ Registered(r)' /\ WorkHeld(r)' /\ Written(r)'
<1> USE DEF Goto, SetRow, Persist, Interrupted, Caught
<1> DEFINE Kept == BlockingLife(r)' /\ Registered(r)' /\ WorkHeld(r)' /\ Written(r)'
<1>1. /\ BlockingLife(r) /\ Registered(r) /\ WorkHeld(r) /\ Written(r)
      /\ Kind[r] \in {"heavy", "light", "blocking"}
  BY KindAssumption DEF Life
<1>2. CASE Submit(r)
  BY <1>1, <1>2 DEF Submit, rowVars, QueueFull, BlockingLife, Registered, WorkHeld, Written, TypeOK
<1>3. CASE Insert(r)
  BY <1>1, <1>3 DEF Insert, BlockingLife, Registered, WorkHeld, Written, TypeOK
<1>4. CASE Launch(r)
  BY <1>1, <1>4 DEF Launch, Register, rowVars, BlockingLife, Registered, WorkHeld, Written, TypeOK
<1>5. CASE BlockingAcquire(r)
  BY <1>1, <1>5 DEF BlockingAcquire, rowVars, BlockingLife, Registered, WorkHeld, Written, TypeOK
<1>6. CASE CallEnds(r)
  BY <1>1, <1>6 DEF CallEnds, rowVars, BlockingLife, Registered, WorkHeld, Written, TypeOK
<1>7. CASE Reply(r)
  BY <1>1, <1>7 DEF Reply, BlockingLife, Registered, WorkHeld, Written, TypeOK
<1>8. CASE Start(r)
  BY <1>1, <1>8 DEF Start, rowVars, BlockingLife, Registered, WorkHeld, Written, TypeOK
<1>9. CASE AwaitAdmission(r)
  BY <1>1, <1>9
  DEF AwaitAdmission, Wake, Regain, MarkReacquired, rowVars, BlockingLife, Registered,
      WorkHeld, Written, TypeOK
<1>10. CASE OnQueued(r)
  BY <1>1, <1>10
  DEF OnQueued, Wake, Regain, MarkReacquired, BlockingLife, Registered, WorkHeld, Written, TypeOK
<1>11. CASE OnStarted(r)
  BY <1>1, <1>11 DEF OnStarted, BlockingLife, Registered, WorkHeld, Written, TypeOK
<1>12. CASE Stream(r)
  BY <1>1, <1>12 DEF Stream, rowVars, BlockingLife, Registered, WorkHeld, Written, TypeOK
<1>13. CASE Timeout(r)
  BY <1>1, <1>13
  DEF Timeout, ForgetHandle, rowVars, BlockingLife, Registered, WorkHeld, Written, TypeOK
<1>14. CASE Park(r)
  BY <1>1, <1>14 DEF Park, BlockingLife, Registered, WorkHeld, Written, TypeOK
<1>15. CASE Decide(r)
  BY <1>1, <1>15
  DEF Decide, Regain, MarkReacquired, rowVars, BlockingLife, Registered, WorkHeld, Written, TypeOK
<1>16. CASE Resume(r)
  BY <1>1, <1>16 DEF Resume, BlockingLife, Registered, WorkHeld, Written, TypeOK
<1>17. CASE (Save(r) \/ EndKilled(r) \/ EndCancelled(r) \/ EndFailed(r)) /\ Finish(r)
  <2>1. Kind[r] # "blocking"
    BY <1>1, <1>17 DEF Save, EndKilled, EndCancelled, EndFailed, BlockingLife
  <2> QED  BY <1>17, <2>1, FinishLife
<1>18. CASE (Save(r) \/ EndKilled(r) \/ EndCancelled(r) \/ EndFailed(r)) /\ ~Finish(r)
  BY <1>1, <1>18
  DEF Save, EndKilled, EndCancelled, EndFailed, EndHandler, BlockingLife, Registered,
      WorkHeld, Written, TypeOK
<1> QED
  BY <1>2, <1>3, <1>4, <1>5, <1>6, <1>7, <1>8, <1>9, <1>10, <1>11, <1>12, <1>13, <1>14,
     <1>15, <1>16, <1>17, <1>18 DEF Step

LEMMA StepLifeInv ==
  ASSUME TypeOK, LifeInv, NEW r \in Runs, Submit(r) \/ Step(r)
  PROVE  LifeInv'
<1>1. \A s \in Runs : QueuedWaits(s)'  BY StepQueuedWaits
<1>2. BlockingLife(r)' /\ Registered(r)' /\ WorkHeld(r)' /\ Written(r)'
  BY StepLife DEF LifeInv
<1>3. ASSUME NEW s \in Runs, s # r
      PROVE  BlockingLife(s)' /\ Registered(s)' /\ WorkHeld(s)' /\ Written(s)'
  <2>1. BlockingLife(s) /\ Registered(s) /\ WorkHeld(s) /\ Written(s)
    BY DEF LifeInv, Life
  <2>2. /\ pc'[s] = pc[s] /\ row'[s] = row[s] /\ registry'[s] = registry[s]
        /\ (s \in held' <=> s \in held) /\ (s \in cancel' <=> s \in cancel)
    BY <1>3, OthersKept
  <2> QED  BY <2>1, <2>2 DEF BlockingLife, Registered, WorkHeld, Written
<1> QED  BY <1>1, <1>2, <1>3 DEF LifeInv, Life

-----------------------------------------------------------------------------
(* What members do, and a restart.                                         *)

\* A kill cancels only registered tasks, and marks a row only when its coroutine
\* has left the queue to nobody: the run is done.
LEMMA KillLife ==
  ASSUME TypeOK, LifeInv, NEW r \in Runs, Kill(r)
  PROVE  LifeInv'
<1>1. /\ pc' = pc /\ held' = held /\ registry' = registry
      /\ row[r] # "none" /\ KillRun(r)
  BY DEF Kill
<1>2. PoolTypeOK /\ \A s \in Runs : Life(s)  BY DEF TypeOK, LifeInv
<1>3. /\ cancel' \in {cancel, cancel \cup {r}}
      /\ cancel' # cancel => registry[r] = "slot"
  BY <1>1 DEF KillRun
<1>4. \/ UNCHANGED row
      \/ /\ pc[r] = "done" /\ Kind[r] # "blocking"
         /\ row' = [row EXCEPT ![r] = "killed"]
  <2>1. CASE registry[r] = "absent" /\ r \in queue /\ row[r] \notin Terminal
    <3>1. Kind[r] # "blocking"  BY <1>1, <1>2, <2>1 DEF Life, BlockingLife, Terminal
    <3>2. pc[r] = "done"
      BY <1>2, <2>1, <3>1 DEF Life, Registered, QueuedWaits
    <3>3. Persist(r, "killed")  BY <1>1, <2>1 DEF KillRun
    <3> QED  BY <3>1, <3>2, <3>3 DEF Persist, SetRow
  <2> QED  BY <1>1, <2>1 DEF KillRun
<1>5. Waiters({})
  <2>1. CASE Dequeue(r)
    BY <2>1, <1>2 DEF Dequeue, Leave, Waiters, PoolTypeOK
  <2>2. CASE UNCHANGED poolVars  BY <2>2 DEF poolVars, Waiters
  <2> QED  BY <1>1, <2>1, <2>2 DEF KillRun
<1>6. ASSUME NEW s \in Runs  PROVE Life(s)'
  <2>1. BlockingLife(s)'  BY <1>1, <1>2, <1>3, <1>4 DEF Life, BlockingLife, TypeOK
  <2>2. Registered(s)' /\ WorkHeld(s)'  BY <1>1, <1>2 DEF Life, Registered, WorkHeld
  <2>3. Written(s)'  BY <1>1, <1>2, <1>4 DEF Life, Written, TypeOK
  <2>4. QueuedWaits(s)'  BY <1>1, <1>2, <1>5 DEF Life, QueuedWaits, Waiters
  <2> QED  BY <2>1, <2>2, <2>3, <2>4 DEF Life
<1> QED  BY <1>6 DEF LifeInv

LEMMA MembersLife ==
  ASSUME TypeOK, LifeInv,
         \/ \E r \in Runs, choice \in {"kill", "extend", "wait"} : SubmitDecision(r, choice)
         \/ Pause \/ Unpause \/ \E n \in Limits : SetLimit(n)
         \/ UNCHANGED vars
  PROVE  LifeInv'
<1>1. pc' = pc /\ held' = held /\ registry' = registry /\ row' = row
  BY DEF SubmitDecision, Pause, Unpause, SetLimit, vars, taskVars, rowVars
<1>2. cancel' = cancel \/ cancel' = cancel \cup {r \in Runs : registry[r] = "slot" /\ pc[r] # "done"}
  BY DEF SubmitDecision, Pause, Unpause, SetLimit, vars, taskVars
<1>3. PoolTypeOK /\ \A s \in Runs : Life(s)  BY DEF TypeOK, LifeInv
<1>4. Waiters({})
  <2>1. CASE queue' = queue /\ ticket' = ticket  BY <2>1 DEF Waiters
  <2>2. CASE Pause  BY <1>3, <2>2 DEF Pause, DequeueAll, Leave, Waiters
  <2>3. ASSUME NEW n \in Limits, SetLimit(n)  PROVE Waiters({})
    BY <1>3, <2>3, ScanWaiters DEF SetLimit, ApplyLimit
  <2> QED  BY <2>1, <2>2, <2>3 DEF SubmitDecision, Unpause, ClearPause, vars, poolVars
<1>5. ASSUME NEW s \in Runs  PROVE Life(s)'
  <2>1. BlockingLife(s)'  BY <1>1, <1>2, <1>3 DEF Life, BlockingLife
  <2>2. Registered(s)' /\ WorkHeld(s)' /\ Written(s)'
    BY <1>1, <1>3 DEF Life, Registered, WorkHeld, Written
  <2>3. QueuedWaits(s)'  BY <1>1, <1>3, <1>4 DEF Life, QueuedWaits, Waiters
  <2> QED  BY <2>1, <2>2, <2>3 DEF Life
<1> QED  BY <1>5 DEF LifeInv

\* After a restart every coroutine is done or was never started, and the rows in
\* flight are failed or left as they were.
LEMMA RestartLife ==
  ASSUME TypeOK, LifeInv, Restart
  PROVE  LifeInv'
<1>1. /\ pc' = [r \in Runs |-> IF pc[r] = "idle" THEN "idle" ELSE "done"]
      /\ cancel' = {} /\ registry' = [r \in Runs |-> "absent"] /\ queue' = {}
      /\ \/ row' = [r \in Runs |-> IF Stale(r) THEN "failed" ELSE row[r]]
         \/ UNCHANGED row
  BY DEF Restart, PoolReset
<1>2. ASSUME NEW s \in Runs  PROVE Life(s)'
  <2>1. BlockingLife(s) /\ Written(s)  BY DEF LifeInv, Life
  <2>2. pc'[s] \in {"idle", "done"} /\ (pc'[s] = "idle" => pc[s] = "idle")
    BY <1>1
  <2>3. row'[s] = row[s] \/ (Stale(s) /\ row'[s] = "failed")  BY <1>1
  <2>4. BlockingLife(s)'
    BY <1>1, <2>1, <2>2, <2>3 DEF BlockingLife, Stale, Active
  <2>5. Written(s)'  BY <1>1, <2>1, <2>2, <2>3 DEF Written, Stale, Active
  <2>6. Registered(s)' /\ WorkHeld(s)' /\ QueuedWaits(s)'
    BY <1>1, <2>2 DEF Registered, WorkHeld, QueuedWaits
  <2> QED  BY <2>4, <2>5, <2>6 DEF Life
<1> QED  BY <1>2 DEF LifeInv

LEMMA InitLife == Init => LifeInv
BY DEF Init, PoolInit, LifeInv, Life, BlockingLife, Registered, WorkHeld, Written, QueuedWaits

LEMMA NextLife == TypeOK /\ LifeInv /\ [Next]_vars => LifeInv'
<1> SUFFICES ASSUME TypeOK, LifeInv, [Next]_vars PROVE LifeInv'  OBVIOUS
<1>1. ASSUME NEW r \in Runs, Submit(r) \/ Step(r)  PROVE LifeInv'
  BY <1>1, StepLifeInv
<1>2. ASSUME NEW r \in Runs, Kill(r)  PROVE LifeInv'
  BY <1>2, KillLife
<1>3. CASE Restart  BY <1>3, RestartLife
<1> QED  BY <1>1, <1>2, <1>3, MembersLife DEF Next

-----------------------------------------------------------------------------
(* The theorems.                                                           *)

\* Where a run is, what the registry, the queue and its handle say of it and
\* what its row says agree, in every reachable state.
THEOREM LifeInvariant == Spec => []LifeInv
<1>1. Init => TypeOK /\ LifeInv  BY InitTyped, InitLife
<1>2. TypeOK /\ LifeInv /\ [Next]_vars => TypeOK' /\ LifeInv'  BY NextTyped, NextLife
<1> QED  BY <1>1, <1>2, PTL DEF Spec

\* A heavy run talks to its server only while it holds a slot
\* (HeavyWorkHoldsSlot), through time-outs, re-acquires, kills and restarts.
THEOREM HeavyRunsHoldSlots == Spec => []HeavyWorkHoldsSlot
<1>1. LifeInv => HeavyWorkHoldsSlot
  BY DEF LifeInv, Life, WorkHeld, HeavyWorkHoldsSlot, Holders
<1> QED  BY <1>1, LifeInvariant, PTL

\* A streaming run can be cancelled: the registry routes a kill to its task
\* (StreamIsKillable).
THEOREM StreamsAreKillable == Spec => []StreamIsKillable
<1>1. LifeInv => StreamIsKillable
  BY DEF LifeInv, Life, Registered, StreamIsKillable
<1> QED  BY <1>1, LifeInvariant, PTL

\* The row of a killed or failed run is never written again with another status.
LEMMA KilledKept ==
  ASSUME TypeOK, LifeInv, [Next]_vars, NEW r \in Runs, row[r] \in {"killed", "failed"}
  PROVE  row'[r] = row[r]
<1>1. \/ row[r] = "killed" /\ pc[r] \in {"cancelled", "done"}
      \/ row[r] = "failed" /\ pc[r] = "done"
  BY DEF LifeInv, Life, Written
<1>2. CASE Submit(r) \/ Step(r)
  <2>1. EndCancelled(r)
    BY <1>1, <1>2
    DEF Submit, Step, Insert, Launch, BlockingAcquire, CallEnds, Reply, Start, AwaitAdmission,
        OnQueued, OnStarted, Stream, Save, Timeout, Park, Decide, Resume, EndKilled, EndFailed
  <2> QED
    BY <1>1, <2>1 DEF EndCancelled, EndHandler, Interrupted, Persist, SetRow, TypeOK
<1>3. ASSUME NEW s \in Runs, s # r, Submit(s) \/ Step(s)  PROVE row'[r] = row[r]
  BY <1>3, OthersKept
<1>4. ASSUME NEW s \in Runs, Kill(s)  PROVE row'[r] = row[r]
  <2>1. UNCHANGED row \/ (row[s] \notin Terminal /\ SetRow(s, "killed"))
    BY <1>4 DEF Kill, KillRun, Persist
  <2> QED  BY <1>1, <2>1 DEF SetRow, Terminal, TypeOK
<1>5. CASE Restart  BY <1>1, <1>5 DEF Restart, Stale, Active
<1>6. CASE UNCHANGED row  BY <1>6
<1> QED
  BY <1>2, <1>3, <1>4, <1>5, <1>6
  DEF Next, SubmitDecision, Pause, Unpause, SetLimit, vars, rowVars

\* No late status write, decision, kill or startup reconciliation revives the row
\* of a killed or failed run (KilledIsFinal).
THEOREM KilledRunsStayKilled == Spec => KilledIsFinal
<1>1. TypeOK /\ LifeInv /\ [Next]_vars
        => [\A r \in Runs : row[r] \in {"killed", "failed"} => row'[r] = row[r]]_vars
  BY KilledKept
<1> QED  BY <1>1, TypeCorrect, LifeInvariant, PTL DEF Spec, KilledIsFinal

\* While nobody cancels the task of the run and writes do not fail, the ways into
\* its end write a terminal status.
LEMMA StepRecorded ==
  ASSUME TypeOK, LifeInv, cancel = {}, ~DbFaults, NEW r \in Runs, Submit(r) \/ Step(r),
         Kind[r] # "blocking", pc'[r] = "done"
  PROVE  row'[r] \in Terminal
<1> USE DEF SetRow, Persist, Interrupted, Goto, Terminal
<1>1. Kind[r] \in {"heavy", "light"}  BY KindAssumption
<1>2. registry[r] # "absent" \/ pc[r] \in {"idle", "inserting", "committed", "done"}
  BY DEF LifeInv, Life, Registered
<1>3. CASE Save(r) \/ EndKilled(r) \/ EndCancelled(r) \/ EndFailed(r)
  BY <1>3 DEF Save, EndKilled, EndCancelled, EndFailed, EndHandler, TypeOK, Finish
<1>4. CASE CallEnds(r) \/ Reply(r)
  BY <1>4 DEF CallEnds, Reply, LifeInv, Life, BlockingLife
<1>5. CASE ~(Save(r) \/ EndKilled(r) \/ EndCancelled(r) \/ EndFailed(r) \/ CallEnds(r) \/ Reply(r))
  BY <1>1, <1>5
  DEF Submit, Step, Insert, Launch, BlockingAcquire, Start, AwaitAdmission, Wake, Regain,
      OnQueued, OnStarted, Stream, Timeout, Park, Decide, Resume, Caught, TypeOK, MarkReacquired
<1> QED  BY <1>3, <1>4, <1>5

LEMMA NextRecorded ==
  ASSUME TypeOK, LifeInv, EndIsRecorded, cancel = {}, ~DbFaults, [Next]_vars
  PROVE  EndIsRecorded'
<1>1. ASSUME NEW r \in Runs, Submit(r) \/ Step(r)  PROVE EndIsRecorded'
  <2>1. ASSUME NEW s \in Runs, s # r  PROVE pc'[s] = pc[s] /\ row'[s] = row[s]
    BY <1>1, <2>1, OthersKept
  <2>2. pc'[r] = "done" /\ Kind[r] # "blocking" => row'[r] \in Terminal
    BY <1>1, StepRecorded
  <2> QED  BY <2>1, <2>2 DEF EndIsRecorded
<1>2. ASSUME NEW r \in Runs, Kill(r)  PROVE EndIsRecorded'
  BY <1>2 DEF Kill, KillRun, Persist, SetRow, EndIsRecorded, Terminal, TypeOK
<1>3. CASE Restart
  BY <1>3 DEF Restart, Stale, EndIsRecorded, Terminal, Active, TypeOK
<1>4. CASE pc' = pc /\ row' = row  BY <1>4 DEF EndIsRecorded
<1> QED
  BY <1>1, <1>2, <1>3, <1>4
  DEF Next, SubmitDecision, Pause, Unpause, SetLimit, vars, taskVars, rowVars

\* A run that was inserted and has ended has a terminal row (EndIsRecorded), in
\* every behaviour in which no task is cancelled and no write of a row fails,
\* whatever members decide, change or restart.
THEOREM EndsAreRecorded ==
  ASSUME ~DbFaults
  PROVE  Spec /\ [](cancel = {}) => []EndIsRecorded
<1>1. Init => EndIsRecorded  BY DEF Init, EndIsRecorded
<1>2. TypeOK /\ LifeInv /\ cancel = {} /\ EndIsRecorded /\ [Next]_vars => EndIsRecorded'
  BY NextRecorded
<1> QED  BY <1>1, <1>2, TypeCorrect, LifeInvariant, PTL DEF Spec
=============================================================================
