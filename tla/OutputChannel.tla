--------------------------- MODULE OutputChannel ---------------------------
(***************************************************************************)
(* From the server to the browser: the background task of a run turns what *)
(* its streaming call yields into chunks, posts them to the channel of the *)
(* run, and writes the outcome to the row                                  *)
(* (backend/app/features/mcp/service.py); a WebSocket replays the channel  *)
(* and follows it, or, when there is none, serves the row (mcp/router.py). *)
(*                                                                         *)
(* Admission, decisions and kills are those of ToolRuns, reduced to when   *)
(* they come: a run starts, parks and resumes, and its task is cancelled   *)
(* at any time, in a handler too; of the writes to the row only that of    *)
(* the result can fail.  The runs are light ones, whose first admission    *)
(* says nothing.                                                           *)
(***************************************************************************)
EXTENDS StdioServer

CONSTANTS
  Sockets,    \* WebSockets; each is opened once
  Watches,    \* Watches[w]: the run of the URL of w
  MaxResumes, \* bound: times a run is resumed
  NoChannel   \* the channel map has no entry

ASSUME ChannelAssumption ==
  Watches \in [Sockets -> Runs] /\ MaxResumes \in Nat

VARIABLES
  stage,   \* where the task of each run is
  row,     \* tool_runs.status as committed
  stored,  \* the request whose result the row holds
  channel, \* the replay buffer of each run
  said,    \* everything a run has broadcast (history variable)
  at,      \* where each socket is
  left,    \* what it still has to replay
  queue,   \* what was posted to it since
  shown    \* what it has sent to the browser

taskVars   == <<stage, row, stored, channel, said>>
socketVars == <<at, left, queue, shown>>
vars       == <<serverVars, taskVars, socketVars>>

Chunk(type, i, n) == [type |-> type, of |-> i, n |-> n]
Plain(type)       == Chunk(type, 0, 0)
Types    == {"output", "timeout", "started", "done", "error", "killed"}
Chunks   == [type : Types, of : Ids, n : 0..MaxOutput]
Final    == {"done", "error"}
Statuses == {"none", "running", "awaiting_decision", "completed", "failed", "killed"}
Terminal == {"completed", "failed", "killed"}

ASSUME NoChannelAssumption == NoChannel \notin Seq(Chunks)

TypeOK ==
  /\ ServerTypeOK
  /\ stage \in [Runs -> {"idle", "fresh", "opening", "streaming", "saving", "saved",
                         "failing", "cancelled", "parked", "ended"}]
  /\ row \in [Runs -> Statuses] /\ stored \in [Runs -> Ids]
  /\ channel \in [Runs -> Seq(Chunks) \cup {NoChannel}]
  /\ said \in [Runs -> Seq(Chunks)]
  /\ at \in [Sockets -> {"idle", "accepted", "live", "late", "closed"}]
  /\ left \in [Sockets -> Seq(Chunks)] /\ queue \in [Sockets -> Seq(Chunks)]
  /\ shown \in [Sockets -> Seq(Chunks)]
  /\ \A r \in Runs : call[r] = "answered" <=> stage[r] \in {"saving", "saved"}

Init ==
  /\ ServerInit
  /\ stage = [r \in Runs |-> "idle"] /\ row = [r \in Runs |-> "none"]
  /\ stored = [r \in Runs |-> 0]
  /\ channel = [r \in Runs |-> NoChannel] /\ said = [r \in Runs |-> <<>>]
  /\ at = [w \in Sockets |-> "idle"] /\ left = [w \in Sockets |-> <<>>]
  /\ queue = [w \in Sockets |-> <<>>] /\ shown = [w \in Sockets |-> <<>>]
-----------------------------------------------------------------------------
(* The channel.                                                            *)

Go(r, where) == stage' = [stage EXCEPT ![r] = where]
Subscribers(r) == {w \in Sockets : at[w] = "live" /\ Watches[w] = r}
Replay(r)      == IF channel[r] = NoChannel THEN <<>> ELSE channel[r]
Follow(r, chunk) ==
  queue' = [w \in Sockets |-> IF w \in Subscribers(r) THEN Append(queue[w], chunk)
                                                      ELSE queue[w]]

\* Broken variant: the snapshot is the buffer itself and not a copy of it.
BroadcastShared(r, chunk) ==
  /\ channel' = [channel EXCEPT ![r] = Append(Replay(r), chunk)]
  /\ said' = [said EXCEPT ![r] = Append(@, chunk)]
  /\ Follow(r, chunk)
  /\ left' = [w \in Sockets |-> IF w \in Subscribers(r) THEN Append(left[w], chunk) ELSE left[w]]
  /\ UNCHANGED <<at, shown>>

\* The first chunk creates the channel.
Broadcast(r, chunk) ==
  /\ channel' = [channel EXCEPT ![r] = Append(Replay(r), chunk)]
  /\ said' = [said EXCEPT ![r] = Append(@, chunk)]
  /\ Follow(r, chunk)
  /\ UNCHANGED <<at, left, shown>>

\* Broken variant: the channel is gone before the last chunk is posted.
LastWordUnheard(r, chunk) ==
  /\ channel' = [channel EXCEPT ![r] = NoChannel]
  /\ said' = [said EXCEPT ![r] = Append(@, chunk)]
  /\ UNCHANGED socketVars

\* The last chunk and the discarding of the channel, with no await between.
LastWord(r, chunk) ==
  /\ channel' = [channel EXCEPT ![r] = NoChannel]
  /\ said' = [said EXCEPT ![r] = Append(@, chunk)]
  /\ Follow(r, chunk)
  /\ UNCHANGED <<at, left, shown>>

\* The channel goes without a last chunk.
Hush(r) ==
  /\ channel' = [channel EXCEPT ![r] = NoChannel]
  /\ UNCHANGED <<said, socketVars>>

Silent == UNCHANGED <<channel, said, socketVars>>

Record(r, status) == row' = [row EXCEPT ![r] = status] /\ UNCHANGED stored
-----------------------------------------------------------------------------
(* The task of a run.                                                      *)

Submit(r) ==
  /\ stage[r] = "idle" /\ Go(r, "fresh")
  /\ row' = [row EXCEPT ![r] = "running"]
  /\ Silent /\ UNCHANGED <<serverVars, stored>>

Open(r) ==
  /\ stage[r] \in {"fresh", "opening"}
  /\ \/ Enter(r) /\ Go(r, "streaming")
     \/ NoServer(r) /\ Go(r, "failing")
  /\ Silent /\ UNCHANGED <<row, stored>>

Relay(r) ==
  /\ Hear(r)
  /\ Broadcast(r, Chunk("output", Head(stdout).of, Head(stdout).n))
  /\ UNCHANGED <<stage, row, stored>>

Idle(r) == Silent /\ UNCHANGED <<stage, row, stored>>

\* What a call does that its run does not hear of, or hears as an exception.
CallSteps(c) ==
  \/ /\ SendRequest(c) \/ SkipLine(c)
     /\ Idle(c)
  \/ /\ BrokenPipe(c) \/ TooLong(c) \/ NotJson(c) \/ EndOfFile(c) \/ Refuse(c)
     /\ IF c \in Runs THEN Go(c, "failing") ELSE UNCHANGED stage
     /\ Silent /\ UNCHANGED <<row, stored>>

Answered(r) ==
  /\ Reply(r) /\ Go(r, "saving")
  /\ Silent /\ UNCHANGED <<row, stored>>

Save(r) ==
  /\ stage[r] = "saving"
  /\ \/ /\ Go(r, "saved")
        /\ row' = [row EXCEPT ![r] = "completed"] /\ stored' = [stored EXCEPT ![r] = id[r]]
        /\ UNCHANGED serverVars
     \/ /\ Go(r, "failing") /\ Abandon(r)
        /\ UNCHANGED <<row, stored>>
  /\ Silent

\* Broken variant: the outcome is announced before it is committed.
AnnounceEarly(r) ==
  /\ stage[r] \in {"saving", "saved"} /\ Go(r, "ended") /\ Abandon(r)
  /\ LastWord(r, Chunk("done", id[r], Last(heard[r]).n))
  /\ UNCHANGED <<row, stored>>

Announce(r) ==
  /\ stage[r] = "saved" /\ Go(r, "ended") /\ Abandon(r)
  /\ LastWord(r, Chunk("done", id[r], Last(heard[r]).n))
  /\ UNCHANGED <<row, stored>>

GiveUp(r) ==
  /\ stage[r] = "failing" /\ Go(r, "ended")
  /\ Record(r, "failed") /\ LastWord(r, Plain("error"))
  /\ UNCHANGED serverVars

\* The deadline: the call is abandoned, the run asks what to do.
Park(r) ==
  /\ stage[r] = "streaming" /\ Abandon(r) /\ Go(r, "parked")
  /\ Record(r, "awaiting_decision") /\ Broadcast(r, Plain("timeout"))

\* "extend" and "wait" make a new call of the same tool.
Resume(r) ==
  /\ stage[r] = "parked" /\ Go(r, "opening")
  /\ Cardinality({i \in DOMAIN said[r] : said[r][i].type = "started"}) < MaxResumes
  /\ Record(r, "running") /\ Broadcast(r, Plain("started"))
  /\ UNCHANGED serverVars

\* A kill or a pause, where the body of the task catches it.  A result that is
\* being saved may be committed all the same and is overwritten.
Cancel(r) ==
  /\ stage[r] \in {"fresh", "opening", "streaming", "saving", "saved", "parked"}
  /\ Go(r, "cancelled")
  /\ IF InCall(r) THEN Abandon(r) ELSE UNCHANGED serverVars
  /\ Silent /\ UNCHANGED <<row, stored>>

EndCancelled(r) ==
  /\ stage[r] = "cancelled" /\ Go(r, "ended")
  /\ Record(r, "killed") /\ LastWord(r, Plain("killed"))
  /\ UNCHANGED serverVars

\* A task cancelled before its first step, or again in one of its two handlers,
\* ends without a word; what the handler was writing may be committed all the same.
CancelUnheard(r) ==
  /\ Go(r, "ended") /\ Hush(r) /\ UNCHANGED serverVars
  /\ \/ stage[r] \in {"fresh", "failing", "cancelled"} /\ UNCHANGED <<row, stored>>
     \/ stage[r] = "failing" /\ Record(r, "failed")
     \/ stage[r] = "cancelled" /\ Record(r, "killed")
-----------------------------------------------------------------------------
(* A WebSocket.                                                            *)

\* Authenticated by the cookie, authorised by the row.
Connect(w) ==
  /\ at[w] = "idle" /\ row[Watches[w]] # "none"
  /\ at' = [at EXCEPT ![w] = "accepted"]
  /\ UNCHANGED <<serverVars, taskVars, left, queue, shown>>

TrySubscribe(w) ==
  /\ at[w] = "accepted"
  /\ IF channel[Watches[w]] = NoChannel
       THEN at' = [at EXCEPT ![w] = "late"] /\ UNCHANGED left
       ELSE /\ at' = [at EXCEPT ![w] = "live"]
            /\ left' = [left EXCEPT ![w] = channel[Watches[w]]]
  /\ UNCHANGED <<serverVars, taskVars, queue, shown>>

Pending(w) == left[w] \o queue[w]

\* The replay first, then the queue, up to the chunk that ends the run.
SendChunk(w) ==
  /\ at[w] = "live" /\ Pending(w) # <<>>
  /\ LET chunk == Head(Pending(w))
     IN  /\ shown' = [shown EXCEPT ![w] = Append(@, chunk)]
         /\ at' = IF chunk.type \in Final THEN [at EXCEPT ![w] = "closed"] ELSE at
  /\ IF left[w] # <<>>
       THEN left' = [left EXCEPT ![w] = Tail(@)] /\ UNCHANGED queue
       ELSE queue' = [queue EXCEPT ![w] = Tail(@)] /\ UNCHANGED left
  /\ UNCHANGED <<serverVars, taskVars>>

\* A browser that has left is noticed when something is sent to it.
Disconnected(w) ==
  /\ at[w] = "live" /\ Pending(w) # <<>>
  /\ at' = [at EXCEPT ![w] = "closed"]
  /\ left' = [left EXCEPT ![w] = <<>>] /\ queue' = [queue EXCEPT ![w] = <<>>]
  /\ shown' = [shown EXCEPT ![w] = <<>>]
  /\ UNCHANGED <<serverVars, taskVars>>

\* No channel: the row, read again, and a "done" made from it.
ServeRow(w) ==
  /\ at[w] = "late"
  /\ at' = [at EXCEPT ![w] = "closed"]
  /\ shown' = [shown EXCEPT ![w] = Append(@, Chunk("done", stored[Watches[w]], 0))]
  /\ UNCHANGED <<serverVars, taskVars, left, queue>>
-----------------------------------------------------------------------------
\* Shutdown and startup: tasks, channels and sockets are gone; reconciliation
\* fails the rows that were in flight.
Restart ==
  /\ RestartServer
  /\ stage' = [r \in Runs |-> IF stage[r] = "idle" THEN "idle" ELSE "ended"]
  /\ row' = [r \in Runs |-> IF row[r] \in {"running", "awaiting_decision"} THEN "failed"
                                                                          ELSE row[r]]
  /\ stored' = [r \in Runs |-> 0]
  /\ channel' = [r \in Runs |-> NoChannel] /\ said' = [r \in Runs |-> <<>>]
  /\ at' = [w \in Sockets |-> "idle"] /\ left' = [w \in Sockets |-> <<>>]
  /\ queue' = [w \in Sockets |-> <<>>] /\ shown' = [w \in Sockets |-> <<>>]

ServerStep == TakeRequest \/ PrintLine \/ WriteResult

SenderStep(c) ==
  \/ CallSteps(c)
  \/ (Enter(c) \/ NoServer(c) \/ Reply(c) \/ Desync(c)) /\ Idle(c)
TaskStep(r) ==
  \/ Open(r) \/ Relay(r) \/ CallSteps(r) \/ Answered(r) \/ Save(r) \/ Announce(r)
  \/ GiveUp(r) \/ EndCancelled(r)
SocketStep(w) == TrySubscribe(w) \/ SendChunk(w) \/ ServeRow(w)

\* Nobody has to do any of this.
Outside ==
  \/ (ServerStep \/ Die) /\ UNCHANGED <<taskVars, socketVars>>
  \/ \E c \in Senders : HangUp(c) /\ Idle(c)
  \/ \E r \in Runs : \/ HangUp(r) /\ Go(r, "failing") /\ Silent /\ UNCHANGED <<row, stored>>
                     \/ Submit(r) \/ Park(r) \/ Resume(r) \/ Cancel(r) \/ CancelUnheard(r)
  \/ \E w \in Sockets : Connect(w) \/ Disconnected(w)
  \/ Restart

Next ==
  \/ Outside
  \/ \E c \in Senders : SenderStep(c)
  \/ \E r \in Runs : TaskStep(r)
  \/ \E w \in Sockets : SocketStep(w)

Spec == Init /\ [][Next]_vars

\* The event loop resumes every coroutine, and the process answers: a tool has
\* a time limit.
FairSpec ==
  /\ Spec
  /\ WF_vars(ServerStep /\ UNCHANGED <<taskVars, socketVars>>)
  /\ \A c \in Senders : WF_vars(SenderStep(c))
  /\ \A r \in Runs : WF_vars(TaskStep(r))
  /\ \A w \in Sockets : WF_vars(SocketStep(w))
-----------------------------------------------------------------------------
(* What must hold.                                                         *)

\* What s has of request i are its first n lines, each once and in order.
Tells(s, i, n) ==
  LET lines == {p \in DOMAIN s : s[p].type = "output" /\ s[p].of = i}
  IN  /\ {s[p].n : p \in lines} = 1..n
      /\ \A p, q \in lines : p < q => s[p].n < s[q].n

\* No caller is given what another request printed or returned, although what is
\* left of an abandoned call is read by the next one; and a run that is done has
\* broadcast every line of its last call once and in order
\* (subprocess_manager.py:287-288, :477-487).
RightAnswer ==
  /\ \A c \in Callers : \A k \in Range(heard[c]) : asked[k.of] = c
  /\ \A r \in Runs : \A k \in Range(said[r]) :
       /\ k.type = "output" => asked[k.of] = r
       /\ k.type = "done" => Tells(said[r], k.of, k.n)

\* A subscriber has been sent, or will be, everything the run ever said, once and
\* in order, whenever it subscribed (router.py docstring, "continuous output").
ContinuousOutput ==
  \A w \in Sockets : at[w] = "live" => shown[w] \o Pending(w) = said[Watches[w]]

\* A run that said "done" has the result in its row, and keeps it
\* (service.py:985-997, docstring "once the final DB row is committed").
OutcomeIsCommitted ==
  \A r \in Runs : \A k \in Range(said[r]) :
    k.type = "done" => row[r] = "completed" /\ stored[r] = k.of

\* A call that was made ends: no death, lost line, time-out or abandoned
\* neighbour leaves it waiting for the lock or for a line.
CallsEnd == \A c \in Callers : InCall(c) ~> ~InCall(c)

\* A subscriber of a run that ends with "done" or "error" is closed.
SocketsClose ==
  \A w \in Sockets :
    at[w] = "live" /\ (\E k \in Range(said[Watches[w]]) : k.type \in Final) ~> at[w] # "live"
=============================================================================
