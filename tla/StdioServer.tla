---------------------------- MODULE StdioServer ----------------------------
(***************************************************************************)
(* One MCP server: a child process that reads request lines from a pipe,   *)
(* runs one tool at a time and writes notifications and results to another *)
(* pipe (mcp-servers/*/server.py), and the calls that share the two pipes  *)
(* under the lock of its handle                                            *)
(* (backend/app/features/mcp/subprocess_manager.py).                       *)
(*                                                                         *)
(* A sending call wants the result only; a streaming call also yields the  *)
(* notifications, keeps the lock until its generator is closed, and may be *)
(* abandoned at any await: the process is not told, and what it writes for *)
(* the abandoned request stays in the pipe for whoever reads next.         *)
(***************************************************************************)
EXTENDS Naturals, Sequences, FiniteSets, SequencesExt

CONSTANTS
  Runs,      \* callers of stream_tool_call, one run each
  Senders,   \* callers of send_tool_call
  MaxCalls,  \* bound: requests between two restarts
  MaxOutput  \* bound: notifications of a request

Callers == Runs \cup Senders

ASSUME ServerAssumption ==
  /\ Runs \cap Senders = {} /\ IsFiniteSet(Callers)
  /\ MaxCalls \in Nat /\ MaxOutput \in Nat

VARIABLES
  tracked,  \* handle.process is set
  alive,    \* the process runs
  line,     \* who has the lock, and who waits for it in order
  call,     \* where each call is
  id,       \* id[c]: the id of the last request of c
  asked,    \* asked[i]: who sent request i
  stdin,    \* requests not yet read by the process
  stdout,   \* lines not yet read by a call
  working,  \* the request the process works on, 0 when none
  printed,  \* notifications it has written for it
  heard     \* heard[c]: the lines of its own request c has taken (history variable)

serverVars == <<tracked, alive, line, call, id, asked, stdin, stdout, working, printed, heard>>

Ids   == 0..MaxCalls
Lines == [kind : {"output", "result", "tooLong", "tail"}, of : Ids, n : 0..MaxOutput]
InCall(c)  == call[c] \in {"waiting", "reading", "answered"}
\* The request of the reader that holds the lock has been answered with l.
Mine(c, l) == l.of = id[c]

ServerTypeOK ==
  /\ tracked \in BOOLEAN /\ alive \in BOOLEAN
  /\ line \in Seq(Callers) /\ IsInjective(line)
  /\ call \in [Callers -> {"idle", "waiting", "reading", "answered", "ok", "down"}]
  /\ id \in [Callers -> Ids] /\ asked \in Seq(Callers)
  /\ stdin \in Seq(Ids) /\ stdout \in Seq(Lines)
  /\ working \in Ids /\ printed \in 0..MaxOutput
  /\ heard \in [Callers -> Seq(Lines)]
  /\ \A c \in Callers : InCall(c) <=> c \in Range(line)

\* startup spawns every server of the registry.
ServerInit ==
  /\ tracked = TRUE /\ alive = TRUE
  /\ line = <<>> /\ call = [c \in Callers |-> "idle"]
  /\ id = [c \in Callers |-> 0] /\ asked = <<>>
  /\ stdin = <<>> /\ stdout = <<>> /\ working = 0 /\ printed = 0
  /\ heard = [c \in Callers |-> <<>>]

\* shutdown and startup: the pipes, the handle and the calls are new.
RestartServer ==
  /\ tracked' = TRUE /\ alive' = TRUE
  /\ line' = <<>> /\ call' = [c \in Callers |-> "idle"]
  /\ id' = [c \in Callers |-> 0] /\ asked' = <<>>
  /\ stdin' = <<>> /\ stdout' = <<>> /\ working' = 0 /\ printed' = 0
  /\ heard' = [c \in Callers |-> <<>>]
-----------------------------------------------------------------------------
(* The process: one request at a time, each within a time limit of its own.*)

processIdle == UNCHANGED <<tracked, line, call, id, asked, heard>>
Write(kind, n) == stdout' = Append(stdout, [kind |-> kind, of |-> working, n |-> n])

TakeRequest ==
  /\ alive /\ working = 0 /\ stdin # <<>>
  /\ working' = Head(stdin) /\ stdin' = Tail(stdin)
  /\ processIdle /\ UNCHANGED <<alive, stdout, printed>>

PrintLine ==
  /\ working # 0 /\ printed < MaxOutput
  /\ printed' = printed + 1 /\ Write("output", printed')
  /\ processIdle /\ UNCHANGED <<alive, stdin, working>>

\* The result, also of a command whose own time is over.  Escaped, a result
\* within the cap of the server can still exceed the limit of the reader.
WriteResult ==
  /\ working # 0
  /\ \E kind \in {"result", "tooLong"} : Write(kind, printed)
  /\ working' = 0 /\ printed' = 0
  /\ processIdle /\ UNCHANGED <<alive, stdin>>

\* An exception that nobody handles.  What is in the pipe can still be read.
Die ==
  /\ alive /\ alive' = FALSE /\ working' = 0 /\ printed' = 0 /\ stdin' = <<>>
  /\ processIdle /\ UNCHANGED stdout
-----------------------------------------------------------------------------
(* A call.  The process is looked up before the lock is asked for: a call  *)
(* that waits uses it even if it is marked stopped meanwhile.              *)

pipesIdle == UNCHANGED <<alive, stdin, working, printed>>
Holds(c)  == line # <<>> /\ Head(line) = c

\* The lock is released, or no longer waited for, and the call is forgotten.
Leave(c) == /\ \E p \in DOMAIN line : line[p] = c /\ line' = RemoveAt(line, p)
            /\ id' = [id EXCEPT ![c] = 0]

\* Every waiting call may still send one request.
Enter(c) ==
  /\ call[c] = "idle" /\ tracked
  /\ Len(asked) + Cardinality({d \in Callers : call[d] = "waiting"}) < MaxCalls
  /\ call' = [call EXCEPT ![c] = "waiting"] /\ line' = Append(line, c)
  /\ heard' = [heard EXCEPT ![c] = <<>>]
  /\ pipesIdle /\ UNCHANGED <<tracked, id, asked, stdout>>

\* A dead process is noticed once its exit code is known.
NoServer(c) ==
  /\ call[c] = "idle" /\ ~(tracked /\ alive)
  /\ call' = [call EXCEPT ![c] = "down"]
  /\ pipesIdle /\ UNCHANGED <<tracked, line, id, asked, stdout, heard>>

\* Broken variant: a call that ends does not release the lock.
FailHolding(c) ==
  /\ call' = [call EXCEPT ![c] = "down"]
  /\ heard' = [heard EXCEPT ![c] = <<>>]
  /\ UNCHANGED <<line, id>>

Fail(c) ==
  /\ call' = [call EXCEPT ![c] = "down"] /\ Leave(c)
  /\ heard' = [heard EXCEPT ![c] = <<>>]

Stop    == tracked' = FALSE

\* A write to a process that died may succeed; then the read finds the end.
SendRequest(c) ==
  /\ Holds(c) /\ call[c] = "waiting"
  /\ call' = [call EXCEPT ![c] = "reading"]
  /\ asked' = Append(asked, c) /\ id' = [id EXCEPT ![c] = Len(asked) + 1]
  /\ stdin' = IF alive THEN Append(stdin, Len(asked) + 1) ELSE stdin
  /\ UNCHANGED <<tracked, alive, line, stdout, working, printed, heard>>

BrokenPipe(c) ==
  /\ Holds(c) /\ call[c] = "waiting" /\ ~alive
  /\ asked' = Append(asked, c) /\ Stop /\ Fail(c)
  /\ pipesIdle /\ UNCHANGED stdout

Reads(c, kind) == /\ Holds(c) /\ call[c] = "reading"
                  /\ stdout # <<>> /\ Head(stdout).kind = kind
Taken          == stdout' = Tail(stdout) /\ pipesIdle /\ UNCHANGED asked
Kept(c)        == heard' = [heard EXCEPT ![c] = Append(@, Head(stdout))]

\* Broken variant: a notification is taken for one's own whatever its id.
AnyOutput(c) == Reads(c, "output") /\ c \in Runs

\* A streaming call yields the notifications of its own request.
OwnOutput(c) == Reads(c, "output") /\ c \in Runs /\ Mine(c, Head(stdout))

Hear(c) ==
  /\ OwnOutput(c) /\ Taken /\ Kept(c)
  /\ UNCHANGED <<tracked, line, call, id>>

\* A sending call skips every notification; a streaming one those of others,
\* and the results of others too.
SkipLine(c) ==
  /\ \/ Reads(c, "output") /\ ~OwnOutput(c)
     \/ Reads(c, "result") /\ c \in Runs /\ ~Mine(c, Head(stdout))
  /\ Taken
  /\ UNCHANGED <<tracked, line, call, id, heard>>

\* A sending call releases the lock with its result; a streaming one yields the
\* result and holds the lock while the caller saves it.
Reply(c) ==
  /\ Reads(c, "result") /\ Mine(c, Head(stdout))
  /\ Taken /\ Kept(c)
  /\ IF c \in Runs THEN call' = [call EXCEPT ![c] = "answered"] /\ UNCHANGED <<line, id>>
                   ELSE call' = [call EXCEPT ![c] = "ok"] /\ Leave(c)
  /\ UNCHANGED tracked

\* The answer is an error: no such tool.
Refuse(c) ==
  /\ Reads(c, "result") /\ Mine(c, Head(stdout))
  /\ Taken /\ Fail(c)
  /\ UNCHANGED tracked

\* To a sending call the result of another request is a loss of step.
Desync(c) ==
  /\ Reads(c, "result") /\ c \in Senders /\ ~Mine(c, Head(stdout))
  /\ Taken /\ Stop /\ Fail(c)

\* The reader drops what it has of a line that is too long; what had not arrived
\* by then is the next line.  The handle stays as it is.
TooLong(c) ==
  /\ Reads(c, "tooLong")
  /\ \/ stdout' = Tail(stdout)
     \/ stdout' = <<[Head(stdout) EXCEPT !.kind = "tail"]>> \o Tail(stdout)
  /\ Fail(c)
  /\ pipesIdle /\ UNCHANGED <<tracked, asked>>

NotJson(c) ==
  /\ Reads(c, "tail") /\ Taken /\ Fail(c)
  /\ UNCHANGED tracked

EndOfFile(c) ==
  /\ Holds(c) /\ call[c] = "reading" /\ stdout = <<>> /\ ~alive
  /\ Stop /\ Fail(c)
  /\ pipesIdle /\ UNCHANGED <<asked, stdout>>

\* The time of readline is over.
HangUp(c) ==
  /\ Holds(c) /\ call[c] = "reading" /\ stdout = <<>>
  /\ Stop /\ Fail(c)
  /\ pipesIdle /\ UNCHANGED <<asked, stdout>>

\* Broken variant: the generator is not closed.
AbandonOpen(c) ==
  /\ call' = [call EXCEPT ![c] = "idle"]
  /\ heard' = [heard EXCEPT ![c] = <<>>]
  /\ pipesIdle /\ UNCHANGED <<tracked, line, id, asked, stdout>>

\* aclose, or a cancellation, at any await of the generator.
Abandon(c) ==
  /\ call' = [call EXCEPT ![c] = "idle"] /\ Leave(c)
  /\ heard' = [heard EXCEPT ![c] = <<>>]
  /\ pipesIdle /\ UNCHANGED <<tracked, asked, stdout>>
=============================================================================
