------------------------------ MODULE ToolRuns ------------------------------
(***************************************************************************)
(* The tool runs of one engagement, from the request that submits them to  *)
(* their terminal row (backend/app/features/mcp/service.py), over the      *)
(* admission manager of module Admission.                                  *)
(*                                                                         *)
(* A run is driven by one coroutine: the background task                   *)
(* _stream_to_channel for an asynchronous run, the request handler itself  *)
(* for a blocking one.  pc names the await the coroutine is suspended in;  *)
(* an action is what it does from there to its next await.  task.cancel()  *)
(* is delivered when the coroutine next resumes, as a CancelledError at    *)
(* that await.                                                             *)
(***************************************************************************)
EXTENDS Admission

CONSTANTS
  Kind,      \* Kind[r]: "heavy" and "light" are asynchronous, "blocking" is heavy
  Requests,  \* what members do besides submitting runs, in this instance
  DbFaults   \* whether writing a row may fail

ASSUME KindAssumption == /\ Kind \in [Runs -> {"heavy", "light", "blocking"}]
                         /\ \A r \in Runs : Kind[r] = "light" => HostOf[r] = NoHost
ASSUME RequestsAssumption ==
  Requests \subseteq {"kill", "decide", "pause", "limit", "restart"}
ASSUME FaultsAssumption == DbFaults \in BOOLEAN

VARIABLES
  pc,         \* where each run's coroutine is suspended
  cancel,     \* runs whose task has a cancellation not yet delivered
  held,       \* runs whose coroutine has an AdmissionHandle to release
  unlimited,  \* runs whose deadline a "wait" decision removed
  asked,      \* the slot_limit a run's request read from the engagement row
  registry,   \* _registry: absent, or what _RunEntry.holds_slot says
  decision,   \* _decisions: absent, open (unresolved), or the decision
  row,        \* tool_runs.status as committed; "none" is no row
  dbLimit,    \* engagements.concurrency_slot_limit
  dbPaused    \* engagements.paused

taskVars == <<pc, cancel, held, unlimited, asked>>
rowVars  == <<row, dbLimit, dbPaused>>
vars     == <<poolVars, taskVars, registry, decision, rowVars>>

\* Suspended inside acquire with a ticket; the second pair re-acquires.
Waiting == {"onQueued", "waiting", "requeued", "rewaiting"}
\* Suspended in a call to the MCP server or in a write that belongs to one.
Working == {"onStarted", "streaming", "saving", "resuming", "calling"}
PCs == {"idle", "inserting", "committed", "created", "parking", "deciding",
        "killing", "failing", "cancelled", "replying", "done"} \cup Waiting \cup Working

\* "completed" stands for timed_out (exit code 124) as well.
Terminal == {"completed", "killed", "failed"}
Active   == {"queued", "running", "awaiting_decision"}

\* The runs a slot is charged to: those that hold a handle, and those that
\* acquire has admitted and that have not been given theirs yet.
Holders == held \cup {r \in Runs : \/ pc[r] = "onStarted"
                                   \/ pc[r] \in Waiting /\ ticket[r] = "admitted"}

TypeOK ==
  /\ PoolTypeOK
  /\ pc \in [Runs -> PCs]
  /\ cancel \in SUBSET Runs /\ held \in SUBSET Runs /\ unlimited \in SUBSET Runs
  /\ asked \in [Runs -> Nat \ {0}]
  /\ registry \in [Runs -> {"absent", "slot", "slotless"}]
  /\ decision \in [Runs -> {"absent", "open", "kill", "extend", "wait"}]
  /\ row \in [Runs -> Terminal \cup Active \cup {"none"}]
  /\ dbLimit \in Nat \ {0} /\ dbPaused \in BOOLEAN

Init ==
  /\ PoolInit
  /\ pc = [r \in Runs |-> "idle"]
  /\ cancel = {} /\ held = {} /\ unlimited = {}
  /\ asked = [r \in Runs |-> DefaultLimit]
  /\ registry = [r \in Runs |-> "absent"]
  /\ decision = [r \in Runs |-> "absent"]
  /\ row = [r \in Runs |-> "none"]
  /\ dbLimit \in Limits /\ dbPaused = FALSE
-----------------------------------------------------------------------------
(* Shared pieces of the actions.                                           *)

Goto(r, label) == pc' = [pc EXCEPT ![r] = label]

SetRow(r, status) == row' = [row EXCEPT ![r] = status]

\* A best-effort write: an exception is logged and swallowed.
Persist(r, status) == SetRow(r, status) \/ (DbFaults /\ UNCHANGED row)

\* A write whose await is cancelled: it may or may not have reached the database.
Interrupted(r, statuses) == \E s \in statuses \cup {row[r]} : SetRow(r, s)

\* Broken variant: the CancelledError is swallowed where it is raised.
CaughtAndIgnored(r) == cancel' = cancel \ {r} /\ UNCHANGED pc

\* A CancelledError in the body of the task leads to the handler that writes
\* 'killed'.
Caught(r) == cancel' = cancel \ {r} /\ Goto(r, "cancelled")

\* cleanup_decision.
CleanupDecision(r) == decision' = [decision EXCEPT ![r] = "absent"]

\* register_run, mark_slot_reacquired, unregister_run.
Register(r)      == registry' = [registry EXCEPT ![r] = "slot"]
MarkReacquired(r) == registry' = [registry EXCEPT ![r] = "slot"]
Unregister(r)    == registry' = [registry EXCEPT ![r] = "absent"]

\* _submit_decision_internal for the runs of S: the first decision wins.
SubmitInternal(S, choice) ==
  decision' = [r \in Runs |-> IF r \in S /\ decision[r] = "open" THEN choice ELSE decision[r]]

\* await_timeout_decision has something to return.
Decided(r) == decision[r] \in {"kill", "extend", "wait"}

\* check_queue_capacity.
QueueFull == Cardinality(queue) >= MaxQueueDepth

\* The finally block of the task: release the current handle if there is one,
\* drop the rendezvous, unregister.  The locals of the coroutine are gone.
Finish(r) ==
  /\ IF r \in held THEN Release(r) ELSE UNCHANGED poolVars
  /\ held' = held \ {r}
  /\ Unregister(r)
  /\ CleanupDecision(r)
  /\ Goto(r, "done")
  /\ unlimited' = unlimited \ {r} /\ asked' = [asked EXCEPT ![r] = DefaultLimit]

-----------------------------------------------------------------------------
(* execute_tool_run.                                                       *)

\* The gates, up to the await of the INSERT; the limit is the row's.
Submit(r) ==
  /\ pc[r] = "idle"
  /\ ~paused
  /\ Kind[r] # "light" => ~QueueFull
  /\ asked' = [asked EXCEPT ![r] = dbLimit]
  /\ Goto(r, "inserting")
  /\ UNCHANGED <<poolVars, cancel, held, unlimited, registry, decision, rowVars>>

\* The commit lands: other members see the row before the handler resumes.
Insert(r) ==
  /\ pc[r] = "inserting" /\ Kind[r] # "blocking"
  /\ SetRow(r, IF Kind[r] = "heavy" THEN "queued" ELSE "running")
  /\ Goto(r, "committed")
  /\ UNCHANGED <<poolVars, cancel, held, unlimited, asked, registry, decision,
                 dbLimit, dbPaused>>

\* create_task and register_run; the task has not run yet.
Launch(r) ==
  /\ pc[r] = "committed"
  /\ Goto(r, "created")
  /\ Register(r)
  /\ UNCHANGED <<poolVars, cancel, held, unlimited, asked, decision, rowVars>>

\* The blocking path calls acquire itself; its row stays uncommitted, so a
\* request that is refused leaves none.
BlockingAcquire(r) ==
  /\ pc[r] = "inserting" /\ Kind[r] = "blocking"
  /\ \/ AcquireFast(r, asked[r]) /\ Goto(r, "calling") /\ held' = held \cup {r}
     \/ AcquireQueued(r, asked[r]) /\ Goto(r, "waiting") /\ UNCHANGED held
     \/ (AcquirePaused(asked[r]) \/ AcquireFull(r, asked[r]))
          /\ Goto(r, "done") /\ UNCHANGED held
  /\ UNCHANGED <<cancel, unlimited, asked, registry, decision, rowVars>>

\* send_tool_call returns or raises; either way the slot goes back.
CallEnds(r) ==
  /\ pc[r] = "calling"
  /\ Release(r)
  /\ held' = held \ {r}
  /\ Goto(r, "replying") \/ Goto(r, "done")
  /\ UNCHANGED <<cancel, unlimited, asked, registry, decision, rowVars>>

\* The result, its audit entries and the row are committed together.
Reply(r) ==
  /\ pc[r] = "replying"
  /\ SetRow(r, "completed")
  /\ Goto(r, "done")
  /\ UNCHANGED <<poolVars, cancel, held, unlimited, asked, registry, decision,
                 dbLimit, dbPaused>>

-----------------------------------------------------------------------------
(* _stream_to_channel: admission.                                          *)

\* The first step of the task.  A task cancelled before it never enters its
\* body, so neither its handlers nor its finally block run.
Start(r) ==
  /\ pc[r] = "created"
  /\ \/ /\ r \in cancel
        /\ cancel' = cancel \ {r} /\ Goto(r, "done") /\ UNCHANGED poolVars
     \/ /\ r \notin cancel /\ Kind[r] = "light"
        /\ Goto(r, "streaming") /\ UNCHANGED <<poolVars, cancel>>
     \/ /\ r \notin cancel /\ Kind[r] = "heavy"
        /\ \/ AcquireFast(r, asked[r]) /\ Goto(r, "onStarted")
           \/ AcquireQueued(r, asked[r]) /\ Goto(r, "onQueued")
           \/ AcquirePaused(asked[r]) /\ Goto(r, "killing")
           \/ AcquireFull(r, asked[r]) /\ Goto(r, "failing")
        /\ UNCHANGED cancel
  /\ UNCHANGED <<held, unlimited, asked, registry, decision, rowVars>>

\* Broken variant: mark_slot_reacquired is not called.
RegainUnmarked(r) ==
  /\ Goto(r, "resuming")
  /\ held' = held \cup {r}
  /\ UNCHANGED registry

\* Broken variant: the handle of a re-acquired slot is dropped.
RegainUnheld(r) ==
  /\ Goto(r, "resuming")
  /\ registry' = [registry EXCEPT ![r] = "slot"]
  /\ UNCHANGED held

\* A re-acquired slot: the handle is kept and mark_slot_reacquired called.
Regain(r) ==
  /\ Goto(r, "resuming")
  /\ held' = held \cup {r}
  /\ MarkReacquired(r)

\* The check of ticket.killed.
MayRun(r) == ticket[r] # "killed"

\* admitted.wait() has returned: RunKilled for a killed ticket, else the run
\* has its slot (and, on first admission, calls on_started).
Wake(r) ==
  /\ ticket[r] \in {"admitted", "killed"}
  /\ ticket' = [ticket EXCEPT ![r] = "none"]
  /\ \/ /\ ~MayRun(r)
        /\ Goto(r, IF Kind[r] = "blocking" THEN "done" ELSE "killing")
        /\ UNCHANGED <<held, registry>>
     \/ /\ MayRun(r) /\ Kind[r] = "heavy" /\ pc[r] \in {"onQueued", "waiting"}
        /\ Goto(r, "onStarted") /\ UNCHANGED <<held, registry>>
     \/ /\ MayRun(r) /\ pc[r] \in {"requeued", "rewaiting"}
        /\ Regain(r)
     \/ /\ MayRun(r) /\ Kind[r] = "blocking"
        /\ Goto(r, "calling") /\ held' = held \cup {r} /\ UNCHANGED registry

\* await admitted.wait().  A CancelledError there removes the ticket.
AwaitAdmission(r) ==
  /\ pc[r] \in {"waiting", "rewaiting"}
  /\ \/ /\ r \notin cancel
        /\ Wake(r)
        /\ UNCHANGED <<cancel, queue, ahead>>
     \/ /\ r \in cancel
        /\ Caught(r)
        /\ Leave({r})
        /\ ticket' = [ticket EXCEPT ![r] = "none"]
        /\ UNCHANGED <<held, registry>>
  /\ UNCHANGED <<slotLimit, inUse, lockedHosts, paused,
                 unlimited, asked, decision, rowVars>>

\* await on_queued(...) with the ticket already queued.  A CancelledError there
\* is outside the try block that removes the ticket.  An event that was set
\* meanwhile lets wait() return without suspending.
OnQueued(r) ==
  /\ pc[r] \in {"onQueued", "requeued"}
  /\ \/ /\ r \in cancel
        /\ Caught(r) /\ Interrupted(r, {"queued"})
        /\ UNCHANGED <<held, registry, ticket>>
     \/ /\ r \notin cancel
        /\ Persist(r, "queued")
        /\ \/ /\ ticket[r] = "waiting"
              /\ Goto(r, IF pc[r] = "onQueued" THEN "waiting" ELSE "rewaiting")
              /\ UNCHANGED <<held, registry, ticket>>
           \/ Wake(r)
        /\ UNCHANGED cancel
  /\ UNCHANGED <<slotLimit, inUse, lockedHosts, queue, ahead, paused,
                 unlimited, asked, decision, dbLimit, dbPaused>>

\* await on_started(), inside acquire: the slot is charged, the handle is not
\* yet returned.
OnStarted(r) ==
  /\ pc[r] = "onStarted"
  /\ \/ /\ r \in cancel
        /\ Caught(r) /\ Interrupted(r, {"running"})
        /\ UNCHANGED held
     \/ /\ r \notin cancel
        /\ Persist(r, "running") /\ Goto(r, "streaming")
        /\ held' = held \cup {r}
        /\ UNCHANGED cancel
  /\ UNCHANGED <<poolVars, unlimited, asked, registry, decision,
                 dbLimit, dbPaused>>

-----------------------------------------------------------------------------
(* _stream_to_channel: the streaming loop and its ends.                    *)

\* The server's next event is the result, or the stream raises, or the task is
\* cancelled while it reads.
Stream(r) ==
  /\ pc[r] = "streaming"
  /\ \/ r \in cancel /\ Caught(r)
     \/ r \notin cancel /\ Goto(r, "saving") /\ UNCHANGED cancel
     \/ r \notin cancel /\ Goto(r, "failing") /\ UNCHANGED cancel
  /\ UNCHANGED <<poolVars, held, unlimited, asked, registry, decision, rowVars>>

\* The terminal write of a finished call; unlike the others it is not
\* best-effort, and a CancelledError may find it already committed.
Save(r) ==
  /\ pc[r] = "saving"
  /\ \/ /\ r \in cancel
        /\ Caught(r) /\ Interrupted(r, {"completed"})
        /\ UNCHANGED <<poolVars, held, unlimited, asked, registry, decision>>
     \/ /\ r \notin cancel
        /\ SetRow(r, "completed")
        /\ Finish(r) /\ UNCHANGED cancel
     \/ /\ r \notin cancel /\ DbFaults
        /\ Goto(r, "failing")
        /\ UNCHANGED <<poolVars, cancel, held, unlimited, asked, registry, decision, row>>
  /\ UNCHANGED <<dbLimit, dbPaused>>

\* Broken variant: the released handle is still the current one.
KeepHandle(r) == UNCHANGED held

\* _current_handle[0] = None.
ForgetHandle(r) == held' = held \ {r}

\* The service-layer deadline fires: release_for_decision.
Timeout(r) ==
  /\ pc[r] = "streaming" /\ r \notin cancel /\ r \notin unlimited
  /\ IF r \in held THEN Release(r) ELSE UNCHANGED poolVars
  /\ ForgetHandle(r)
  /\ registry' = [registry EXCEPT ![r] = "slotless"]
  /\ decision' = [decision EXCEPT ![r] = "open"]
  /\ Goto(r, "parking")
  /\ UNCHANGED <<cancel, unlimited, asked, rowVars>>

\* The write of 'awaiting_decision', then await_timeout_decision.
Park(r) ==
  /\ pc[r] = "parking"
  /\ Persist(r, "awaiting_decision")
  /\ Goto(r, "deciding")
  /\ UNCHANGED <<poolVars, cancel, held, unlimited, asked, registry, decision,
                 dbLimit, dbPaused>>

\* Broken variant: "kill" resumes the run like "extend".
NoDecisionKills(r) == FALSE

DecisionKills(r) == decision[r] = "kill"

\* await_timeout_decision returns.  "kill" ends the run; "extend" and "wait" set
\* or remove the deadline and acquire again, light runs included, with the slot
\* limit the request read.
Decide(r) ==
  /\ pc[r] = "deciding" /\ Decided(r)
  /\ CleanupDecision(r)
  /\ \/ /\ DecisionKills(r)
        /\ Goto(r, "killing")
        /\ UNCHANGED <<poolVars, held, registry, unlimited>>
     \/ /\ ~DecisionKills(r)
        /\ unlimited' = IF decision[r] = "wait" THEN unlimited \cup {r} ELSE unlimited \ {r}
        /\ \/ AcquireFast(r, asked[r]) /\ Regain(r)
           \/ /\ AcquireQueued(r, asked[r])
              /\ Goto(r, IF Kind[r] = "heavy" THEN "requeued" ELSE "rewaiting")
              /\ UNCHANGED <<held, registry>>
           \/ AcquirePaused(asked[r]) /\ Goto(r, "killing") /\ UNCHANGED <<held, registry>>
           \/ AcquireFull(r, asked[r]) /\ Goto(r, "failing") /\ UNCHANGED <<held, registry>>
  /\ UNCHANGED <<cancel, asked, rowVars>>

\* The write of 'running' after a re-acquire; a fresh stream is opened next.
Resume(r) ==
  /\ pc[r] = "resuming"
  /\ \/ r \in cancel /\ Caught(r) /\ Interrupted(r, {"running"})
     \/ r \notin cancel /\ Persist(r, "running") /\ Goto(r, "streaming") /\ UNCHANGED cancel
  /\ UNCHANGED <<poolVars, held, unlimited, asked, registry, decision,
                 dbLimit, dbPaused>>

\* The write of 'killed' after RunKilled, EngagementPaused or a "kill" decision.
EndKilled(r) ==
  /\ pc[r] = "killing"
  /\ \/ /\ r \in cancel
        /\ Caught(r) /\ Interrupted(r, {"killed"})
        /\ UNCHANGED <<poolVars, held, unlimited, asked, registry, decision>>
     \/ /\ r \notin cancel
        /\ Persist(r, "killed") /\ Finish(r) /\ UNCHANGED cancel
  /\ UNCHANGED <<dbLimit, dbPaused>>

\* The handlers of CancelledError and of other exceptions.  A cancellation of
\* the handler itself skips the rest of it; the finally block still runs.
EndHandler(r, status) ==
  /\ \/ r \in cancel /\ Interrupted(r, {status}) /\ cancel' = cancel \ {r}
     \/ r \notin cancel /\ Persist(r, status) /\ UNCHANGED cancel
  /\ Finish(r)
  /\ UNCHANGED <<dbLimit, dbPaused>>

EndCancelled(r) == pc[r] = "cancelled" /\ EndHandler(r, "killed")

EndFailed(r) == pc[r] = "failing" /\ EndHandler(r, "failed")

-----------------------------------------------------------------------------
(* What members do: kill_tool_run, submit_timeout_decision, the pause and    *)
(* PATCH endpoints; and a restart of the process.                            *)

\* kill_run answers by what the registry and the queue say; task.cancel() does
\* nothing to a task that has ended.  A run taken out of the queue has its row
\* written by the caller.
KillRun(r) ==
  \/ /\ registry[r] = "slot"
     /\ cancel' = IF pc[r] = "done" THEN cancel ELSE cancel \cup {r}
     /\ UNCHANGED <<poolVars, decision, row>>
  \/ /\ registry[r] = "slotless"
     /\ SubmitInternal({r}, "kill")
     /\ UNCHANGED <<poolVars, cancel, row>>
  \/ /\ registry[r] = "absent" /\ r \in queue
     /\ Dequeue(r)
     /\ IF row[r] \in Terminal THEN UNCHANGED row ELSE Persist(r, "killed")
     /\ UNCHANGED <<cancel, decision>>
  \/ /\ registry[r] = "absent" /\ r \notin queue
     /\ UNCHANGED <<poolVars, cancel, decision, row>>

\* kill_tool_run.
Kill(r) ==
  /\ "kill" \in Requests
  /\ row[r] # "none"
  /\ KillRun(r)
  /\ UNCHANGED <<pc, held, unlimited, asked, registry, dbLimit, dbPaused>>

\* submit_timeout_decision; a decision that is not waited for is refused with 409.
SubmitDecision(r, choice) ==
  /\ "decide" \in Requests
  /\ decision[r] = "open"
  /\ SubmitInternal({r}, choice)
  /\ UNCHANGED <<poolVars, taskVars, registry, rowVars>>

\* set_engagement_paused(True): the row, then set_paused through the event seam.
Pause ==
  /\ "pause" \in Requests
  /\ dbPaused' = TRUE
  /\ DequeueAll
  /\ cancel' = cancel \cup {r \in Runs : registry[r] = "slot" /\ pc[r] # "done"}
  /\ SubmitInternal({r \in Runs : registry[r] = "slotless"}, "kill")
  /\ UNCHANGED <<pc, held, unlimited, asked, registry, row, dbLimit>>

Unpause ==
  /\ "pause" \in Requests
  /\ dbPaused' = FALSE
  /\ ClearPause
  /\ UNCHANGED <<taskVars, registry, decision, row, dbLimit>>

\* update_engagement: the row, then set_slot_limit through the event seam.
SetLimit(n) ==
  /\ "limit" \in Requests
  /\ dbLimit' = n
  /\ ApplyLimit(n)
  /\ UNCHANGED <<taskVars, registry, decision, row, dbPaused>>

\* Broken variants: without 'awaiting_decision', and without the WHERE clause.
StaleBeforeSlice06(r) == row[r] \in {"queued", "running"}
StaleAny(r) == row[r] # "none"

\* The WHERE clause of reconcile_stale_tool_runs.
Stale(r) == row[r] \in Active

\* The process stops and starts again: every coroutine and every in-process map
\* is gone, the rows and the engagement stay.  A reconciliation that fails is
\* logged and the application starts all the same.
Restart ==
  /\ "restart" \in Requests
  /\ PoolReset
  /\ pc' = [r \in Runs |-> IF pc[r] = "idle" THEN "idle" ELSE "done"]
  /\ cancel' = {} /\ held' = {} /\ unlimited' = {}
  /\ registry' = [r \in Runs |-> "absent"]
  /\ decision' = [r \in Runs |-> "absent"]
  /\ \/ row' = [r \in Runs |-> IF Stale(r) THEN "failed" ELSE row[r]]
     \/ DbFaults /\ UNCHANGED row
  /\ asked' = [r \in Runs |-> DefaultLimit]
  /\ UNCHANGED <<dbLimit, dbPaused>>

-----------------------------------------------------------------------------

\* What the event loop runs by itself for run r once it was submitted.
Step(r) ==
  \/ Insert(r) \/ Launch(r) \/ BlockingAcquire(r) \/ CallEnds(r) \/ Reply(r)
  \/ Start(r) \/ AwaitAdmission(r) \/ OnQueued(r) \/ OnStarted(r)
  \/ Stream(r) \/ Save(r) \/ Timeout(r) \/ Park(r) \/ Decide(r) \/ Resume(r)
  \/ EndKilled(r) \/ EndCancelled(r) \/ EndFailed(r)

Next ==
  \/ \E r \in Runs : Submit(r) \/ Step(r) \/ Kill(r)
  \/ \E r \in Runs, choice \in {"kill", "extend", "wait"} : SubmitDecision(r, choice)
  \/ Pause \/ Unpause \/ Restart
  \/ \E n \in Limits : SetLimit(n)

\* The event loop resumes every coroutine whose await is over, database awaits
\* end, and so does every stream: by its deadline or, without one, by the
\* transport timeout.  Nothing makes a member submit, decide, kill or resume.
Fairness == \A r \in Runs : WF_vars(Step(r))

Spec == Init /\ [][Next]_vars

FairSpec == Spec /\ Fairness
-----------------------------------------------------------------------------
(* Safety.                                                                 *)

\* Two runs that hold slots never lock the same target host: no two heavy tools
\* run against one host, through timeouts, re-acquires, kills and restarts
\* (concurrency.py:1-8).
HostExclusive ==
  \A r, s \in Holders : r # s /\ HostOf[r] # NoHost => HostOf[r] # HostOf[s]

\* The pool counts at least one slot for every run that holds one; a slot given
\* back twice would let it admit beyond the limit (concurrency.py:77-86).
SlotsCharged == Cardinality(Holders) <= inUse

\* A heavy run talks to its server only while it holds a slot, also when it
\* resumes after a timeout (service.py:766-775).
HeavyWorkHoldsSlot ==
  \A r \in Runs : Kind[r] # "light" /\ pc[r] \in Working => r \in Holders

\* A streaming run can be cancelled: the registry routes a kill to its task and
\* not to a rendezvous that is gone (concurrency.py:807-821).
StreamIsKillable ==
  \A r \in Runs : pc[r] \in {"streaming", "saving", "resuming"} => registry[r] = "slot"

\* A waiter is passed by a later one only while its own host is locked; a
\* waiter that lacks a slot is never passed (concurrency.py:28-47).
NoOvertaking ==
  [][\A r \in queue : \A s \in ahead[r] :
       ticket'[r] = "admitted" /\ s \in queue' => HostOf[s] \in lockedHosts']_vars

\* While the engagement is paused nobody enters the pool (concurrency.py:905-911).
PauseStopsAdmission == [][paused /\ paused' => Holders' \subseteq Holders]_vars

\* A killed or failed run stays so: no late status write, retry or startup
\* reconciliation revives its row (mcp/repository.py:205-207).
KilledIsFinal ==
  [][\A r \in Runs : row[r] \in {"killed", "failed"} => row'[r] = row[r]]_vars

\* The detailed pool, seen through its holders, is the abstract slot pool.
Abstract == INSTANCE SlotPool WITH holders <- Holders, limit <- slotLimit
ImplementsSlotPool == Abstract!Spec

\* A run that was inserted and has ended has a terminal row (service.py:1230-1292,
\* main.py:101): true while nobody cancels a task.
EndIsRecorded ==
  \A r \in Runs : pc[r] = "done" /\ Kind[r] # "blocking" => row[r] \in Terminal \cup {"none"}

-----------------------------------------------------------------------------
(* What the documentation says and the code does not do.                    *)

\* The slot of a killed run comes back: once no run is alive, none is in use.
\* Said of the finally block of a cancelled task (concurrency.py:833-836).
NoDanglingSlot == (\A r \in Runs : pc[r] \in {"idle", "done"}) => inUse = 0

\* A kill that kill_run answers "awaiting" finds a rendezvous to submit to, so
\* that the run resolves itself killed, unless it is ending already
\* (concurrency.py:842-845).
AwaitingKillIsDelivered ==
  \A r \in Runs : registry[r] = "slotless" /\ pc[r] \notin {"killing", "failing"}
                  => decision[r] # "absent"

\* A paused engagement rejects new tool runs until a member resumes it, also
\* after a restart (mcp/repository.py:198-203).
PauseSurvivesRestart == dbPaused => paused

-----------------------------------------------------------------------------
(* Liveness.                                                               *)

\* A queued run is not starved: it is admitted or ends, whatever members decide
\* about the others (concurrency.py:30-34).
QueuedAdvances == \A r \in Runs : pc[r] \in Waiting ~> pc[r] \notin Waiting

\* A cancelled task ends, wherever the cancellation found it (service.py:1542-1546).
CancelEnds == \A r \in Runs : r \in cancel ~> pc[r] = "done"

\* A "kill" accepted for a parked run, from the prompt, the kill button or a
\* pause, ends it with a terminal row (concurrency.py:842-845).
KillDecisionEnds == \A r \in Runs : decision[r] = "kill" ~> row[r] \in Terminal
=============================================================================
