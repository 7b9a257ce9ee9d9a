# Adeptus: a TLA+ model of the backend's concurrent core

Adeptus is a penetration-testing workbench: a FastAPI backend
(`src/backend/app`), a React frontend, and a few MCP tool servers that wrap
command-line tools. Several members work on one *engagement* at a time, an AI
assistant proposes and sometimes runs tools for them, and everything runs in one
asyncio process over one Postgres database. What is hard in this program is not
any single computation but what happens between two awaits: runs that wait for a
slot, are cancelled, parked on a decision, paused; several sockets streaming one
AI turn; a graph kept twice; an audit chain that must not fork.

This directory holds TLA+ modules for that core, TLC configurations that check
them on small instances, and proofs checked by TLAPS.

| file | what it is |
| --- | --- |
| `Admission.tla` | the admission manager of one engagement: pool, host locks, queue; one operator per operation |
| `ToolRuns.tla` | tool runs over the admission manager, with kills, decisions, pauses, limits, restarts |
| `SlotPool.tla` | what the admission manager promises, abstractly |
| `StdioServer.tla` | one MCP tool server: child process, two pipes, the lock of its handle, the calls |
| `OutputChannel.tla` | from the server to the browser: run tasks, channels, WebSockets, over `StdioServer` |
| `AiTurns.tla` | AI turns, the commands they propose, decisions on them, standing autonomy |
| `GraphStore.tla` | what the graph of an engagement promises, abstractly |
| `GraphWriter.tla` | the single writer: queue, consumer, rows, the copy in memory |
| `GraphUndo.tla` | the requests around the writer and the personal undo stacks |
| `AuditChain.tla` | the hash chain: appending, verifying, listing |
| `Findings.tla` | concurrent changes to findings, each audited in its transaction, over `AuditChain` |
| `Engagements.tla` | sessions, members and settings, and what the process is told of them |
| `MC*.tla` | instances for TLC |
| `ToolRuns_proofs.tla`, `RunLifecycle_proofs.tla`, `SlotPool_proofs.tla` | theorems about `ToolRuns`: the pool; the life of one run; the queue and the refinement. Each extends the one before |
| `OutputChannel_proofs.tla`, `AiTurns_proofs.tla`, `GraphUndo_proofs.tla`, `Findings_proofs.tla`, `Engagements_proofs.tla` | theorems about the module of that name and those it extends, for any number of runs, turns, requests, users, ... |
| `*.cfg` | one per run |
| `PROJECT.json` | components, runs, mutants, the map from definitions to source lines, findings, hazards, theorems |

    tlc -workers 2 -config Safety.cfg MCToolRuns
    tlc -workers 2 -config Graph.cfg MCGraph
    tlapm Engagements_proofs.tla

## Inventory

Paths are below `src/backend/app/features` unless they start with `src`.

| component | state | operations | interacts with | what is hard |
| --- | --- | --- | --- | --- |
| Admission manager (`mcp/concurrency.py`) | per engagement: slots in use, limit, locked hosts, FIFO of tickets, paused; process-wide: cancellation registry, decision rendezvous | acquire, release, set_slot_limit, kill_run, set_paused, submit and await a decision | run tasks; engagement events | a waiter is admitted in another task's step and resumes later; cancellation between the two |
| Tool-run lifecycle (`mcp/service.py`, `repository.py`) | `tool_runs` rows, one task per asynchronous run | submit, stream, save, time out, park, resume, kill, fail, reconcile at start-up | admission manager, subprocess manager, audit | a dozen awaits, each of which may be cancelled, with error handlers that await too |
| MCP subprocess manager (`mcp/subprocess_manager.py`) | child processes, one lock and one pipe each | start, call, stream a call | run tasks | an abandoned call leaves its answer in the pipe |
| Output channel and WebSocket (`mcp/service.py`, `router.py`) | replay buffer, subscriber queues | publish, subscribe, replay | run tasks, sockets | replay against live events; a subscriber that waits for an event nobody sends |
| MCP registry and configuration (`mcp/registry.py`) | cached configuration | load, validate | all of `mcp` | nothing concurrent |
| Graph single writer (`graph/writer.py`) | a command queue and an in-memory graph per engagement, node and edge rows | enqueue, apply, warm | graph service, chat | the graph is kept twice; warm-up races writes |
| Graph undo and staleness (`graph/service.py`) | per-user undo stacks | mutate and push, pop newest fresh entry, invert | writer | test and inverse are two turns of the event loop |
| Audit hash chain (`audit/`) | entries and the chain head per engagement | append, verify | every mutator | concurrent appends, first append, rollback |
| Approvals and risk (`approvals/`) | pending requests | classify, create per turn, approve, reject | chat, autonomy, `execute_tool_run` | two deciders; approval and run commit separately |
| Standing autonomy (`autonomy/`) | grants per engagement and reason | grant, revoke, list | approvals | a grant revoked while a turn runs |
| Chat turns (`chat/service.py`, `repository.py`, `router.py`) | messages with a status | post, stream, finalize, fail | approvals, graph, audit, MCP | several sockets stream one pending message |
| Chat parsers and LLM clients (`chat/`) | none | parse, stream HTTP | chat turns | text, no protocol |
| Engagements and events (`engagements/`) | engagement rows: members, pause, limit, privacy mode | create, update, pause, add and remove members | admission manager through synchronous events | events fire before the commit; a membership is read in one await and used in a later one |
| Findings (`findings/`) | rows with a history | create, update, delete | audit | rows are read without a lock and updated later |
| Authentication (`auth/`) | users, sessions | login, logout, resolve and slide | every router | a slide that races a logout |
| Personas (`personas/`) | rows with a built-in fallback | create, read, update, delete | chat | no concurrency |
| Start-up and sessions (`src/backend/app/main.py`, `core/`) | wiring, session factory | reconcile, bootstrap | all | what is rebuilt after a restart, and what is not |
| MCP tool servers (`src/mcp-servers`) | none | one tool call per line | subprocess manager | external programs |
| Frontend (`src/frontend`) | client caches | views | REST and WebSocket API | presentation |
| Migrations (`src/backend/alembic`) | schema | upgrade | database | DDL |

What makes each of the concurrent components correct:

- **Admission manager.** Never two runs on one target host; never an admission
  beyond the limit in force; every slot taken is given back exactly once;
  first come, first served except past a host lock; nobody enters while paused;
  nobody waits for ever.
- **Tool-run lifecycle.** A heavy run works only while it holds a slot; a kill
  or a pause reaches a run wherever it is; a killed or failed run is never
  revived; an ended run has a terminal row, also across a restart; a decision
  has exactly one reader and ends or resumes the run.
- **Subprocess manager and output channel.** An answer goes to the call that
  asked; every subscriber sees every event once and then an end.
- **Graph.** After every command the in-memory graph is the rows'; undo
  restores what its user changed and never undoes somebody else's change.
- **Audit.** The entries form one chain; nothing recorded can be lost or forked
  by concurrent or rolled-back requests; the verifier accepts exactly that.
- **Findings.** A change touches its own columns and nobody else's.
- **Engagements and sessions.** The process knows the settings that are
  committed; only members act; there is always one owner; a logout is final.
- **AI turns.** A pending message is finalized once; its commands are gated or
  run once; nothing gated runs without an approval or a grant.

## What is modelled now, and how it corresponds to the code

### `Admission.tla`

The variables are the fields of `_EngagementState` and `_Ticket`. The queue, an
`OrderedDict`, is its set of keys `queue` and the order `ahead` (`ahead[r]` is
the set of keys inserted before `r`): the proofs need no sequence and TLC
identifies queues that differ in nothing. `ticket[r]` is what the ticket tells
the coroutine that waits on it: its event not set, set by an admission, or set
with the `killed` flag. A ticket that was removed from the queue keeps its
answer until its waiter looks.

`Admits` says which waiters the front-to-back walk of `_scan_and_admit` lets
in, as a property of the set rather than a loop: whether a waiter gets in depends
on the pool and on the admissions ahead of it only, so going front to back
determines the set, and it is the loop's. `Acquire*` are the four ways through
the first step of `acquire`.

### `ToolRuns.tla`

asyncio runs one task at a time and switches only where a coroutine suspends, so
an action is everything a coroutine does from one await to the next, and `pc[r]`
names the await the coroutine of run `r` is suspended in:

| `pc` | the await |
| --- | --- |
| `inserting`, `committed` | the INSERT and the commit of the request that submits the run |
| `created` | the task exists and has not run yet |
| `onQueued`, `requeued` | `await on_queued(...)` in `acquire`, first time and after a timeout |
| `waiting`, `rewaiting` | `await ticket.admitted.wait()` |
| `onStarted` | `await on_started()`: the slot is charged, the handle not yet returned |
| `streaming`, `saving` | reading the server's events; the terminal write |
| `parking`, `deciding` | writing `awaiting_decision`; `await_timeout_decision` |
| `resuming` | writing `running` after the re-acquire |
| `killing`, `failing`, `cancelled` | the writes of the three ways to end badly |
| `calling`, `replying` | a blocking run: the call to the server, the commit of its result |
| `done` | the coroutine has ended, its finally block included |

`task.cancel()` puts the run into `cancel`; the `CancelledError` is raised when
the coroutine next resumes, so every awaiting action has an alternative for it.
What that alternative does depends on where it is: in `waiting` the ticket is
removed; in `onQueued` it is not (the await is outside the `try`); in `created`
nothing at all runs; in a handler the rest of the handler is skipped but
`finally` runs. A write whose await is cancelled may or may not have reached
the database (`Interrupted`). With `DbFaults`, best-effort writes may fail.

The other variables are: `held` (`_current_handle`), `unlimited` (no deadline),
`asked` (the limit the request read from the engagement row and hands to
`acquire`), `registry` (`_registry`), `decision` (`_decisions`), and the
database's `row`, `dbLimit` and `dbPaused`. `Restart` empties everything but
the database and reconciles the rows.

Runs are `heavy` (asynchronous, take slots), `light` (asynchronous, take a slot
only when they resume after a timeout, as the code does) or `blocking` (heavy,
driven by the request handler itself).

Simplifications, each of which the properties cannot tell from the code:

- positions, reasons and snapshots of the queue are read-only and left out; the
  position re-broadcast rewrites a `queued` the row already has, and where it
  gets in the way of the waiter's own write it is a best-effort write that fails;
- `completed` also stands for `timed_out` (exit code 124): both are terminal;
- a stream that ends without a result takes the `failing` path;
- presets, audit entries and the findings hook are data; output chunks are
  `OutputChannel`'s;
- the blocking *light* path shares no state with anything and is left out;
- a change of the settings is one step here: `Engagements` has the steps it
  really takes, and `ProcessFollowsRow` says when one step is as good;
- an INSERT that fails is left out (no run comes of it);
- one engagement: the pools of two engagements share nothing.

### `SlotPool.tla`

A set of holders and a limit: some holders leave, some runs enter, entering
respects the limit, and no two holders share a host. `ImplementsSlotPool` is the
refinement, with `holders` mapped to `Holders`: the runs that have a handle and
those admitted that have not been handed theirs.

### `AiTurns.tla`

Here the shared state is the database, and what interleaves is transactions: each
socket that streams a message, and each request that decides, has a session of
its own. The committed tables are variables (`status` of messages, number of
`ai_call` entries, `request`, number of decision entries, `autoGranted`, number
of `runs`, active `grants`); what a transaction has written and not committed is
the session's own state (`open`, `reply`, `covered`, `dpc`, `choice`) and becomes
visible in one step, `Publish` or `CommitDecision`, or is dropped, `Close`,
`Answer`, `Crash`.

A socket's `pc` names what its coroutine does next:

| `pc` | in the code |
| --- | --- |
| `streaming` | the token loop of `stream_assistant_reply`; no row is locked |
| `finalizing`, `failing` | about to run `finalize_assistant`, with a reply or after an error |
| `classifying` | the row is won (and locked); `create_requests_for_turn` reads the grants |
| `recording` | requests, auto-grants and `ai_call` are written: needs the head of the audit chain |
| `running`, `inserting` | the next command's checks; its row, audit entry and commit |
| `reporting` | `_finalize_failed`: the `ai_call` and the commit |

and `dpc` what a decision does next: `claiming` (read as pending), `auditing` (row
claimed and locked), `checking`, `inserting` (an approval's run).

Locks are not variables: who holds what follows from where the sessions are.
`MessageFree` is the row lock of the guarded UPDATE on a message, the conjunct
of `Claim` that of a request, `AuditFree` the `SELECT ... FOR UPDATE` of the
chain head in `audit/repository.py`, which every recorded action takes and holds
to its commit. A guarded UPDATE that had to wait sees what the lock's holder
committed, as READ COMMITTED has it.

`execute_tool_run` appears twice: its checks (`CheckRun`, `CheckApproved`) may
refuse at any time, because of a pause, a full queue or the sandbox guard, and
its insert commits *the caller's* transaction (`InsertRun`, `InsertApproved`).
What the accepted run does afterwards is `ToolRuns`.

Simplifications:

- `ReasonsOf`, what `classify` finds against a command, is a constant, as is the
  turn that may propose it; which subset a model proposes is free, and may
  differ between two streams of one message;
- `grant` and `revoke` are one step each: nobody can see anything of them before
  their commit (two grants of one reason are ordered by the unique index);
- the pointer from a request to its run, written after the commit, is read by
  views only and left out; so is the archived guard, since nothing in the code
  archives an engagement;
- the audit head is one row for the whole database, so a second engagement would
  only be another reason to wait for it.

### `GraphWriter.tla`, `GraphUndo.tla`, `GraphStore.tla`

The writer of an engagement is a queue and one consumer task. A command is three
steps of the consumer: `Take` (dequeue and, if the copy is cold, load it), one
`Handle*` (the handler's reads, writes, history rows and commit, or its
exception), `Apply` (the copy follows, the future is resolved). No other step of
the consumer has an await in it that anybody could use: nobody else writes graph
rows. A reader that finds the copy cold loads it beside the consumer, nodes first
and edges in a second statement (`StartLoad`, `LoadEdges`, `Install`), which is
how the copy can end up older than the rows; `late` remembers that it happened.

`GraphUndo` puts the requests around it. A mutating request submits and awaits
(`Submit`, `Reply`), reads `updated_at` again if it was a deletion (`ReRead`),
inserts the undo entry and trims the stack in its own transaction (`Insert`), and
commits it with the audit entry (`Push`). A pop lists the stack once
(`StartPop`) and walks it: a stale entry is marked (`DropStale`), for a fresh one
the inverse is submitted (`StartInverse`) and its answer awaited (`EndInverse`).
Rows of the undo table that a transaction has updated or deleted are locked until
it ends: `CanMark` and the second conjunct of `Insert`. `updated_at` is a counter
per entity (`stamp`): func.now() of two transactions is taken to differ, and the
ORM emits no UPDATE when nothing changed.

`GraphStore` is the abstraction: every entity has a row and the state before its
last write; creating, changing, removing (with the cascade to live edges) and
undoing are single steps. `ImplementsGraphStore` maps `before` to the newest
history row.

Left out: membership and archived checks, label and properties beyond one value
(`label`), the summaries, chat's and the parsers' writes (they submit the same
commands).

### `AuditChain.tla`, `Findings.tla`

`append_entry` reads the head row FOR UPDATE, so a transaction that has appended
holds `lock` until it commits or rolls back; `own[w]` is what it has appended. A
hash is modelled as the sequence of the contents that went into it: SHA-256 over
canonical bytes is taken to be injective, nothing else is assumed of it. The
verifier takes two statements and so sees two states (`ScanEntries`, `ScanHead`);
a list of pages takes one per page. `Tamper` is what the verifier is there to
find: an entry altered or deleted in the database (`Alter`), by somebody who may
come back and undo it, or the head row deleted (`DropHead`). The next append makes
a missing head anew (`Seeded`) and starts from the genesis: beside the entries that
are still there it fails on the unique `seq` and can only be rolled back; on an
empty table it begins a second chain. Entries carry the time of their creation
(`at`), counted by `clock` in entries, which is what tells a second beginning from
the first. `written` is a history variable: every entry the program has committed
since it last found no head, as it was then; a scan is `dirty` if the table it read
differs from it or had no head.

`Findings` is the one caller of `record` that is modelled in full, with the four
ways to change a finding. `Flush` is the UPDATE of the columns whose value is not
the one that was read (that is what SQLAlchemy writes), and waits for other
transactions with an UPDATE on the row; `Audit` waits for the head of the chain;
`Commit` publishes row, history and entries together.

### `StdioServer.tla`, `OutputChannel.tla`

`stdin` and `stdout` are the pipes, `line` the asyncio lock with its waiters in
order. `send_tool_call` and `stream_tool_call` are the same few steps with
different rules for lines that are not their own (`SkipLine`, `Desync`), and the
second keeps the lock until its generator is closed. `HangUp` is the time-out of
`readline`, `TooLong` the 4 MB limit of the reader, which an escaped result of
1 MB can exceed, `EndOfFile` and `BrokenPipe` a dead process. `Abandon` is
`aclose()` or a cancellation: the process is not told. What it prints afterwards
is read by the next call. A streaming call skips it; a sending call that finds a
result with another id takes the server out of service (`tracked` becomes FALSE)
until the process restarts. The latter is what a killed or parked run costs the
next blocking run of the same server.

`OutputChannel` adds the task of a run (`stage`), its row, its channel and the
WebSockets. A channel exists from the first chunk to the last; `LastWord` posts
the last chunk and discards the channel without an await between. A socket that
finds a channel gets a copy of the replay buffer and a queue; one that finds none
reads the row and makes a "done" of it (`ServeRow`). `said` and `heard` are
history variables for the properties.

A cancellation is caught where the body of the task is at an await (`Cancel`): the
call is abandoned, the row becomes "killed" and a "killed" chunk is the last one
(`EndCancelled`, a step of its own, the handler writes the row). It is not caught
before the first step of the task nor in one of the two handlers (`CancelUnheard`):
no chunk is sent, the write under way may be committed or not, and only `finally`
runs, or in the first case nothing, when there is no channel to discard yet.

Left out: admission (a run starts, parks and resumes at any time), and failing
writes except that of the result.

### `Engagements.tla`

A request is a little program: authenticated (`Begin`), its session slid and
committed (`Slide`), the caller's role read (`Check`), for members the target
looked up (`CheckTarget`), then the write. A change of the settings is three
steps: `Update` takes the row's lock, `Tell` emits the event, which the listener
of the admission manager handles synchronously, `CommitSettings` commits; `Fail`
may come in between, after which the process has been told what the row does not
say. A submission reads the limit with the caller's role (`Check`) and hands it to
`acquire` later (`Acquire`), which applies it whatever it is by then. `torn` is
the set of settings last told by one of these two, or forgotten by a restart:
a history variable.

One engagement and its members; the role of an owner never changes hands in this
code, and the properties say so. Left out: privacy mode, which nobody caches.

## The runs

| run | instance | states | what it asks |
| --- | --- | --- | --- |
| `Safety` | two heavy runs on one host, a blocking one on another; limit 1 or 2; kills, decisions, pauses, restarts, failing writes; symmetric | 413,822 | slot accounting, a slot behind all heavy work, kills routed to something alive, no run admitted while paused, terminal rows final, refinement of `SlotPool` |
| `Progress` | same runs; limits 1 and 3, changed while running; decisions, restarts; fair | 150,504 | host exclusion, no overtaking, no starvation, every ended run recorded |
| `Kills` | one run of each kind, heavy and blocking on one host; one slot, queue of one; kills, decisions, pauses; fair | 59,561 | a cancelled task ends from every await; an accepted "kill" ends its run |
| `Turns` | two turns, of a harmless and a delegable command and of a command with a reason that is not delegable; two sockets, two members; fair | 209,188 | one `ai_call` a turn, runs only as authorised, decisions bind, nothing settled changes, every transaction ends |
| `Graph` | three nodes, two edges with the same ends; two clients, of one member or of two; three requests, one restart, failing transactions | 1,359,632 | who awaits is served, the copy mirrors the rows, cascades, no audit entry without a write, refinement of `GraphStore`, an entry is undone once |
| `Records` | one finding, two writers, three requests, two acts of tampering, the head row deleted among them, a verifier or a lister with one entry a page | 283,900 | the chain, the verifier's verdict, complete pages, no column reverted |
| `Streams` | a run that may be resumed once, a blocking call, one browser; two requests of one line each; fair | 268,671 | answers reach their caller, output is continuous, "done" means committed, calls and sockets end |
| `Settings` | two users with a session each, two requests at a time and five in all, one restart; symmetric in the requests | 2,116,086 | the process follows the row, one owner, logouts are final, only members act |
| `DanglingSlot`, `LostKill`, `LostPause`, `StaleUndo` | violations | | see Findings |

**Bounds.** In `ToolRuns`, every pairwise interaction needs a run that holds, one that waits
and one that overtakes or is overtaken: three runs. Two hosts make a lock of
another run matter and not matter; limits 1 and 2 (1 and 3) make slots scarce,
equal to the demand per host, and changing both ways; a queue of depth 1 or 2 is
full while a run remains to find it so. A run is submitted once, and times out
as often as it is extended: nothing else in the model counts up, so no bound
cuts a behaviour short. What members do is split over the runs (`Requests`)
because all of it together with failing writes is beyond an exhaustive run;
each property is checked with the requests that can threaten it.

In `Turns`, two sockets and two members are what a race needs, on one turn or on
two; the three commands stand for no reason, reasons that can all be delegated
and a mixture. The first turn has two commands that run by themselves, so one
commits and the other still has to run. Sockets reconnect, grants come and go and
the process crashes without bound; each turn is posted once.

In `Graph`, three requests are a write, a teammate's write and an undo, in any
interleaving; one of the nodes and one of the parallel edges do not exist at the
start, so both can be created. `UndoCap` is 1 instead of 20: the trim happens
with the second entry. `MaxRestarts` 1 lets a restart fall at any await and the
rest of the requests run on the rows it leaves.

In `Records`, three requests make a change, one that was read before it and one
that was read after it; the reader is a verifier or a lister in one behaviour,
since they do not see each other. Two acts of tampering are one and a second
that hides it or puts the table back.

In `Streams`, one browser is enough because sockets neither see nor affect each
other; two requests are a run's call and its resumption, or the call and the
neighbour's, so that a leftover line finds a reader of each kind. Two leftovers in
the pipe at once need a third request, and more than one line of a request a larger
`MaxOutput`: the safety properties are proved for any number of either, and only
`CallsEnd` and `SocketsClose` rest on these bounds. The process restarts without bound.

In `Settings`, a logout, a removal or a change of the settings needs one other
request to race with; five requests in all are a creation, an addition and three
more. Requests are interchangeable, and no property of this run is a liveness
property, so the symmetry is sound.

**Deadlock** is checked in `Turns`, `Graph` and `Streams`. The requests of `Graph`
are bounded, so its `Next` has a step (`Rest`) that is enabled only when all of
them have ended: anything else that stops is reported. The other configurations
say `CHECK_DEADLOCK FALSE`: once every run has ended, or the bound on requests is
used up, the system does stop. In `Turns` and `Streams` the process may restart in
every state, so the check says little there; that nobody waits for ever is
`SessionsEnd`, `CallsEnd` and `SocketsClose`.

**Fairness.** For `ToolRuns`, `WF_vars(Step(r))` for each run: the event loop resumes every
coroutine whose await is over, a database await ends, and a stream ends by its
deadline or, when a "wait" decision removed it, by the transport timeout of the
subprocess manager. Nothing is assumed of members: nobody has to decide, kill,
resume or change a limit. A parked run may stay parked for ever, and
`QueuedAdvances` holds all the same because a parked run holds no slot.

For `AiTurns` it is `SF_vars(Finish(s))` and `SF_vars(Decide(d))`: a step that
waits for a row lock is disabled while somebody else holds it, and others take it
again and again; Postgres queues those who wait for a lock, so the step is not
passed over for ever. Nothing is assumed of the model's stream, of clients,
members or crashes: a socket may stream for ever. A process that crashes for
ever satisfies `SessionsEnd` by crashing; one that does not has to finish.

For `OutputChannel` it is weak fairness of each task, sending call and socket (the
event loop) and of the server while it works on a request: each tool server runs
its command under a time limit of its own. Nothing is assumed of time-outs,
deaths, cancellations, decisions or browsers. The lock needs no strong fairness:
asyncio's lock is first come, first served, and `line` is its order.

**Broken variants.** Each property has a mutant, an operator named in
the modules as a broken variant (`ReleaseWithoutScan`, `RegainUnmarked`,
`StaleAny`, ...): a plausible bug of the code under which TLC refutes the
property in the same run. They are referred to by nothing else.

## What is proved

Every invariant, every action property and both refinements that a passing run
checks are theorems: they hold for every value of the constants that the named
assumptions admit, of which the runs are instances (`EndIsRecorded` under two
hypotheses, which its run meets). The assumptions say what kind
of value a constant is; TLC evaluates them in every run. What stays with TLC is
liveness, listed at the end.

`ToolRuns_proofs.tla` proves, for every finite set of runs, all hosts, limits
and queue depths:

- `TypeCorrect`: `Spec => []TypeOK`;
- `Invariant`: `Spec => []IInv`, the inductive invariant;
- `SlotsAreCharged`: `Spec => []SlotsCharged`;
- `HostsExclusive`: `Spec => []HostExclusive`.

`SlotsCharged` and `HostExclusive` are not inductive: both are about `Holders`,
which the code does not keep, and a release subtracts from a counter and a set
of locks that other runs share. `IInv` adds what ties them together:

- `Charged`: the holders number at most `inUse`; each holder's host is locked;
  no two holders share one;
- `CallsHold`: a run with a handle is where the code can have one;
- `QueueTotal`: `ahead` orders the queue totally, so a scan that admits two
  waiters admits one of them *after* the other and sees its lock.

Every action is one of five moves of the pool: nobody enters or leaves (`Quiet`),
one enters (`Enters`), one leaves with its slot (`Leaves`) and the queue is
scanned, the queue is scanned under a new limit (`Rescans`), everything is reset
(`PoolReset`). One lemma per move says that `Charged` survives it; one lemma per action
says which move it is. `Charged` is an inequality on purpose: equality is what
`NoDanglingSlot` refutes.

The proofs use the assumptions `RunsAssumption`, `HostAssumption` and
`LimitAssumption` of `Admission.tla`.

`RunLifecycle_proofs.tla` follows one run from its row to its end:

- `LifeInvariant`: `Spec => []LifeInv`;
- `HeavyRunsHoldSlots`, `StreamsAreKillable`: `Spec => []P` for
  `HeavyWorkHoldsSlot`, `StreamIsKillable`;
- `KilledRunsStayKilled`: `Spec => KilledIsFinal`;
- `EndsAreRecorded`: `Spec /\ [](cancel = {}) => []EndIsRecorded` if `~DbFaults`.

`LifeInv` is a fact about each run alone: what the registry says where the coroutine
is (`Registered`), where it has its handle (`WorkHeld`), which row it can have
(`Written`), that a ticket in the queue is waited for or was left behind by a
cancellation (`QueuedWaits`), and how little of this a blocking run has
(`BlockingLife`). A step of one run disturbs no other's, except that a scan may
take it out of the queue. The two hypotheses of `EndsAreRecorded` are those of the
run `Progress`: the writes of a status are best effort in the code, so a failing
database loses the last one; and a task that is cancelled before its first step
(see Observed), or while it writes its own failure,
writes nothing more. Under `Kills`, with
cancellations, `CancelEnds` says that the task ends, not what its row says.

`SlotPool_proofs.tla` proves what the queue promises and that the pool implements
its abstract specification:

- `QueueInvariant`: `Spec => []QueueInv`;
- `NobodyIsOvertaken`: `Spec => NoOvertaking`;
- `PauseAdmitsNobody`: `Spec => PauseStopsAdmission`;
- `PoolImplementsSlotPool`: `Spec => ImplementsSlotPool`.

`QueueInv`: whoever is ahead of a waiter is in the queue as well, with all who
are ahead of them; and a paused engagement has no queue. `Admits` defines the set a
scan lets in by a condition on that same set, so a proof about it needs an
induction along the queue; `ahead` orders a finite set totally, so a
counterexample has a first one, about whom everybody ahead is right. For the
refinement, every action is classified by what it does to `Holders`, with the five
moves of the pool; `Charged` gives that two holders never share a host and that
whoever enters does so within the limit in force after the step, which is what a
`Turnover` of `SlotPool` asks.

`OutputChannel_proofs.tla`, for any runs, blocking calls, browsers, number of calls
and resumptions and lengths of output:

- `ChannelInvariant`: `Spec => []ServerAndChannels`, and `StreamsTyped`:
  `Spec => []TypeOK`;
- `SubscribersMissNothing`, `AnnouncedIsCommitted`: `Spec => []P` for
  `ContinuousOutput`, `OutcomeIsCommitted`;
- `LinesInvariant`: `Spec => [](ServerAndChannels /\ LinesInStep)`, and
  `AnswersAreRight`: `Spec => []RightAnswer`.

The argument has two layers. Above the server it needs only that a task and its
call agree (`TasksTyped`): a channel holds all that was said and a run without one
has said nothing yet or its last word (`ChannelKept`), and what a run announces was
saved before (`SavedFirst`). Each step says one chunk (`Speaks`), ends with one
(`Ends`) or says nothing (`Mute`). Below, requests are worked on in the order in
which they were made (`Numbered`); their lines lie in the pipe in that order, the
leftovers of abandoned calls before those of the current one (`InTurn`), and count
up without a gap (`NoGaps`). So a caller that hears its own number hears the line
after the last one it heard (`InStep`), and what a run has said is what its call
has heard (`SaidAsHeard`); without these, nothing keeps a result that was cut short
from being announced as the whole. Used: `ServerAssumption` (finitely many
callers), `ChannelAssumption`, `NoChannelAssumption`.

`AiTurns_proofs.tla` proves all the safety properties of `AiTurns`, for any sets of
turns, commands, reasons, sockets and deciding requests:

- `TurnsTyped`, `TurnsAuditedOnce`, `CommandsAuthorised`, `GrantsDelegable`,
  `DecisionsAudited`: `Spec => []P` for `TypeOK`, `OneAiCall`, `RunsAuthorised`,
  `OnlyDelegated`, `DecisionsBind`;
- `DecisionsFinal`: `Spec => DecidedForGood`, an action property;
- `TurnsInvariant`: `Spec => []IInv`, which they all follow from.

`IInv` says what the code relies on without writing it down. A socket that won a
message (`Winners`) and has not committed finds it still `pending`; one that has
committed and goes on running commands finds it `complete`, its auto-grants on
record and the commands still to run not run and without a request (`SocketOK`).
Two winners never have the same message, before or after the first commit
(`OneWinner`); two deciding requests never hold the same row (`OneClaim`), and the
row is pending while held (`DeciderOK`). `CommandOK` ties request, decision
entries, auto-grant and runs of one command together. `SocketStep`,
`DeciderStep`, `PublishStep` and `DecisionStep` say once for each kind of step
that everybody else's part survives; one lemma per action shows it is of that
kind. Used: `CommandAssumption`; crashes and rollbacks need no argument
of their own because nothing uncommitted is in the tables.

`GraphUndo_proofs.tla` proves, for any graph, labels, members, clients, stack depth
and number of requests and restarts, with transactions that fail at any time:

- `GraphInvariant`: `Spec => []IInv`, and `GraphTyped`: `Spec => []TypeOK`;
- `AwaitedServed`, `CopyMirrors`, `NoEdgeHangs`: `Spec => []P` for
  `AwaitedIsServed`, `MirrorsRows`, `CascadeHolds`;
- `RefinesStore`: `Spec => ImplementsGraphStore`, the refinement;
- `AuditsAreBacked`: `Spec => []NoOrphanEntry`;
- `InversesApplyOnce`: `Spec => AppliedOnce`, an action property.

None of these is inductive. A command in the queue is served because its client
has no other (`Served`): only a request in `wait` or `apply` has a future. A create
command inserts a row that is not there because two requests never create the same
entity and whatever is being created has no row (`Creations`); without it a commit
could be no step of the store. A warm copy equals the rows between commands because,
between commit and `Apply`, it lacks exactly what `Apply` is going to do (`Mirror`,
`After`), and because a copy that is still cold has been loaded from rows that no
command has touched yet. A row that does not exist has no history (`Past`), so what
the store calls `before` is the newest history row. One lemma per handler shows that
its commit keeps the invariant, and one per kind of transaction that it is `Create`,
`Change`, `Remove` or `Undo` of the store (`HandlerRefines`); everything else leaves
rows and history alone (`OthersStutter`).

`AuditsAreBacked` counts. A write is audited by its request, in another transaction,
when the writer has answered; until then the request owes an entry (`Owes`), and
the entries of an entity together with those owed number at most its writes
(`Covered`). That is preserved because a request that was answered "ok" owes for
the command its own request asked for (`Ordered`), and because an entity that was
there at the start counts its insertion before everything else (`Kept`). The other
direction is false: a crash between the two commits loses the entry.

`InversesApplyOnce` needs to know that a pending inverse has not been applied. An
undo entry is younger than its target's version, and strictly older than the
version that its inverse makes (`Dated`), so the staleness test keeps it from being
applied again as long as nobody else pops for the same member; an id names one
entry of one member wherever it is held (`OneEach`); a request takes its base from
the row it read (`Bases`); and `Unapplied` follows through the staleness test, the
queue and the commit.

Used: `GraphAssumption`, `CommandAssumption`, `UndoAssumption` (finitely many
clients, for the counting) and, for the initial state of `CascadeHolds`,
`StartAssumption`: live edges of the rows a behaviour starts from join live nodes.

`Findings_proofs.tla`: for any writers, findings, values, page size and number of
requests, and any number of edits (`Tamper`) of the audit table behind the program's back:

- `RecordsInvariant`: `Spec => []IInv`;
- `ChainNeverForks`: `Spec => []ChainIntact`;
- `ColumnsKept`: `Spec => NoColumnReverted`;
- `VerdictsAreTrue`: `Spec => []VerdictTrue`;
- `ListingIsComplete`: `Spec => []PagesComplete`.

The invariant says that only the transaction that holds the head row has an entry
of its own, that it continues what was committed, that all that was committed since
the head was last missing (`written`) is one sound chain, which ends at the head if
there is one, and that the table is that chain unless somebody tampered (`Table`). `ColumnsKept` needs in addition that a
request in `commit` has the row it read and sets what its operation sets; the row
may have changed meanwhile, which is the point.

For the verdict: two sound sequences with the same end are the same sequence,
because the hash of an entry determines the entry and everything before it
(`HashFixesPast`, `EndFixesAll`). So a table that differs from `written` has a
fault or ends elsewhere than the head. The head may move on between the verifier's
statements, be deleted, and even be made anew, but then it carries an entry that is
younger than all that was scanned (`ScanOK`, `NewHeadIsNew`). This is
where the injective hash of the model is used; it stands for SHA-256, and the
theorem says nothing about collisions. The edits are those of `Tamper`, in any
number and at any time, between the verifier's two statements too; forging a row
with the hash of another one is what injectivity rules out. For the pages: what was due when the
listing began and is not below the cursor has been listed (`PagerOK`), with
`tampers = 0` as `PagesComplete` says, since a deleted entry cannot be listed.

`Engagements_proofs.tla`: for any users, sessions, requests, limits and bounds:

- `SettingsInvariant`: `Spec => []IInv`, and `SettingsTyped`: `Spec => []TypeOK`;
- `OwnerStays`, `ProcessTold`: `Spec => []P` for `OneOwner`, `ProcessFollowsRow`;
- `LogoutFinal`, `StrangersChangeNothing`: the action properties
  `LoggedOutForGood` and `OnlyMembersAct`.

`IInv` ties the lock to the one request between its UPDATE and its commit, says
what a request past its role check may rely on (an owner stays owner; a member may
have been removed, but then was one after the request began), and that a setting
that is not `torn` and not being changed is the same in the row and the process.

Only model-checked are the six liveness properties, `QueuedAdvances`, `CancelEnds`,
`KillDecisionEnds`, `SessionsEnd`, `CallsEnd` and `SocketsClose`: fairness and
ENABLED are out of the prover's reach. The runs that check them state the fairness
they assume.

## Findings

Four statements of the repository that the code does not keep; each is a run
that must end in a violation, and `PROJECT.json` quotes the lines.

- `DanglingSlot` (`mcp/concurrency.py:633`, `:612`): a run cancelled between its
  admission and the return of `acquire` leaves its slot and host lock taken
  until the process restarts; so does a ticket left in the queue by a
  cancellation during `on_queued`.
- `LostKill` (`mcp/service.py:1059`): a kill of a run that waits to re-acquire
  after "extend" or "wait" is answered "awaiting" and dropped.
- `LostPause` (`mcp/concurrency.py:884`): a paused engagement accepts tool runs
  after a restart.
- `StaleUndo` (`graph/service.py:725`): a teammate's write between the staleness
  test of an undo entry and its inverse is undone in place of the caller's.

**Observed.** Behaviours of the code that the models have and that a reader may
not expect; they are the exceptions the properties name, or bound what they say.

- A newcomer whose host and slot are free queues behind a host-locked ticket and
  waits for an unrelated release (`mcp/concurrency.py:574`).
- `acquire` applies the limit its request read earlier, over a newer one that is
  committed (`mcp/concurrency.py:565`), where slice-05 says that "the new limit
  governs subsequently admitted runs" (line 310); a settings commit that fails
  leaves the process told (`engagements/service.py:142`). Both are `torn`.
- A kill that comes before the first step of the task it cancels is answered
  "cancelled" and leaves the row `queued` and the registry entry in place until the
  process restarts: neither the handlers of the task nor its `finally` block run
  (`mcp/service.py:546`). `mcp/concurrency.py:833-836` says of such a run that its
  `finally` block will "persist ``status='killed'``".
- Of two members that change one finding, the later records as history the state it
  loaded (`findings/service.py:267`): one state is recorded twice and the one it
  replaces never, although slice-19 says that a row is written before each mutation
  to capture "the state a revert would restore" (line 292).
- A load of the graph that ends after a commit it has not seen writes older rows
  over the copy (`graph/writer.py:186`), which differs from the rows from then on;
  slice-07 says that the two "never diverge" (line 384). The exception is `late`.
- The first command of an AI turn commits the turn; if a later one is refused,
  its recorded auto-grant never leads to a run (`chat/service.py:802`). A grant
  revoked while its turn is being finalized still authorises
  (`approvals/service.py:234`).
- An undo restores an edge although one of its nodes is gone, and a node without
  the edges its deletion took along (`graph/writer.py:530`): `restored`.
- A member who is removed after a request of theirs was checked still has that
  request carried out (`engagements/service.py:238`); `OnlyMembersAct` is about
  callers who have not been members since it began.
- A crash between the writer's commit and the request's leaves a write without
  an undo entry and without an audit entry (`graph/service.py:235`).
- The verifier reports a head mismatch on an intact chain if somebody appends
  between its two statements (`audit/verify.py:131`): `raced`.
- A table of entries that was emptied together with its head row is begun anew by
  the next append, and the verifier passes what there is from then on
  (`audit/repository.py:58`); until then it reports the missing head.
- A browser that opens the WebSocket of a light run before its first output finds
  no channel and is told "done" (`mcp/router.py:471`); a killed run sends "killed",
  after which the socket waits for a chunk that never comes (`mcp/router.py:459`).
- A run abandoned while its tool works leaves the answer in the pipe, and the next
  blocking call takes the server out of service (`mcp/subprocess_manager.py:363`).

## Not modelled

The components without a module are listed in `PROJECT.json` with the reason.
The registry's configuration, personas, the frontend and the migrations have no
protocol of their own worth a model; parsers, prompt building, risk classification
and scope matching are functions of text, whose outcome the models leave free
(`ReasonsOf`) instead of computing. Which user message a reply answers, and the
text of either, is not in `AiTurns`. The REST handlers that only read are left out
throughout, as are engagements other than the one at hand, with which the tables
share nothing but the audit chain.

What could follow: the order of messages and replies in `AiTurns`; and risk
classification and scope matching as operators over a small grammar of commands.
