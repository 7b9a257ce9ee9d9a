------------------------------ MODULE AiTurns ------------------------------
(***************************************************************************)
(* AI turns of one engagement and the commands they propose                *)
(* (backend/app/features/chat, approvals, autonomy).  A turn is a pending  *)
(* assistant message that any number of sockets may stream at once; one of *)
(* them finalizes it.  Its commands run by themselves, run under standing  *)
(* autonomy, or wait for a member's decision.                              *)
(*                                                                         *)
(* Every socket and every deciding request has a database session of its   *)
(* own.  What a transaction has written and not committed is seen by       *)
(* nobody, but its row locks are: a guarded UPDATE waits for the           *)
(* transaction that holds the row and then sees what that one committed    *)
(* (READ COMMITTED), and an audit entry waits for the lock on the head of  *)
(* the audit chain, held until commit.  The tool pipeline is ToolRuns';    *)
(* here it accepts a run or, paused or full, refuses it.                   *)
(***************************************************************************)
EXTENDS Naturals, FiniteSets

CONSTANTS
  Turns, Commands, Reasons,  \* assistant messages, proposed commands, ApprovalReason
  TurnOf,      \* the turn that may propose a command
  ReasonsOf,   \* what classify finds against a command; {} is autonomous
  Delegable,   \* DELEGABLE_REASONS
  Sockets, Deciders,
  None         \* no turn, no command

ASSUME CommandAssumption == TurnOf \in [Commands -> Turns]
                            /\ ReasonsOf \in [Commands -> SUBSET Reasons]
ASSUME DelegableAssumption == Delegable \subseteq Reasons
ASSUME NoneAssumption == None \notin Turns \cup Commands

VARIABLES
  \* committed
  status,       \* chat_messages.status of each turn; "none" is not posted
  aiCalls,      \* number of ai_call audit entries of each turn
  request,      \* approval_requests.status of each command; "none" is no row
  decisions,    \* number of approval_granted and approval_rejected entries
  autoGranted,  \* commands with an approval_auto_granted entry
  runs,         \* number of tool_runs rows of each command
  grants,       \* reasons with an active autonomy grant
  \* in the process
  pc, turn,     \* where each socket's coroutine is suspended, and its turn
  open,         \* sockets whose finalization is written and not committed
  reply,        \* the commands the model proposed to each socket
  covered,      \* the grants each socket has read for its turn
  todo,         \* the commands each socket has still to run
  dpc, on, choice  \* each deciding request, its command and its decision

committed == <<status, aiCalls, request, decisions, autoGranted, runs>>
sockets   == <<pc, turn, open, reply, covered, todo>>
deciders  == <<dpc, on, choice>>
vars      == <<committed, grants, sockets, deciders>>

\* From the end of the model's stream to the end of the transaction.
Finalizing == {"finalizing", "classifying", "recording", "running", "inserting",
               "failing", "reporting"}
\* Deciding requests that hold their request's row.
Claimed == {"auditing", "checking", "inserting"}

TypeOK ==
  /\ status \in [Turns -> {"none", "pending", "complete", "failed"}]
  /\ aiCalls \in [Turns -> Nat]
  /\ request \in [Commands -> {"none", "pending", "approved", "rejected"}]
  /\ decisions \in [Commands -> Nat] /\ runs \in [Commands -> Nat]
  /\ autoGranted \in SUBSET Commands
  /\ grants \in SUBSET Delegable
  /\ pc \in [Sockets -> {"closed", "streaming"} \cup Finalizing]
  /\ turn \in [Sockets -> Turns \cup {None}] /\ open \in SUBSET Sockets
  /\ reply \in [Sockets -> SUBSET Commands] /\ todo \in [Sockets -> SUBSET Commands]
  /\ covered \in [Sockets -> SUBSET Delegable]
  /\ dpc \in [Deciders -> {"idle", "claiming"} \cup Claimed]
  /\ on \in [Deciders -> Commands \cup {None}]
  /\ choice \in [Deciders -> {"none", "approved", "rejected"}]

Init ==
  /\ status = [t \in Turns |-> "none"] /\ aiCalls = [t \in Turns |-> 0]
  /\ request = [c \in Commands |-> "none"] /\ decisions = [c \in Commands |-> 0]
  /\ autoGranted = {} /\ grants = {}
  /\ runs = [c \in Commands |-> 0]
  /\ pc = [s \in Sockets |-> "closed"] /\ turn = [s \in Sockets |-> None]
  /\ open = {}
  /\ reply = [s \in Sockets |-> {}] /\ todo = [s \in Sockets |-> {}]
  /\ covered = [s \in Sockets |-> {}]
  /\ dpc = [d \in Deciders |-> "idle"] /\ on = [d \in Deciders |-> None]
  /\ choice = [d \in Deciders |-> "none"]
-----------------------------------------------------------------------------
(* Locks and classification.                                               *)

Goto(s, label) == pc' = [pc EXCEPT ![s] = label]

\* Nobody else has an uncommitted UPDATE of the message of socket s.
MessageFree(s) == \A o \in open \ {s} : turn[o] # turn[s]

\* Sockets and deciding requests that hold the head of the audit chain.
AuditingSockets  == {s \in open : pc[s] \in {"running", "inserting"}}
AuditingDeciders == {d \in Deciders : dpc[d] \in {"checking", "inserting"}}

AuditFree(S) == AuditingSockets \subseteq S /\ AuditingDeciders = {}

\* Broken variant: the UPDATE does not look at the status.
AnyMessage(s) == TRUE

\* The WHERE clause of finalize_assistant.
PendingMessage(s) == status[turn[s]] = "pending"

Autonomous(s) == {c \in reply[s] : ReasonsOf[c] = {}}

\* Broken variant: one granted reason is enough.
CoveredInPart(s, known) ==
  {c \in reply[s] : ReasonsOf[c] \cap known # {}}

\* Gated commands all of whose reasons are among the grants read for the turn.
AutoApproved(s, known) ==
  {c \in reply[s] : ReasonsOf[c] # {} /\ ReasonsOf[c] \subseteq known}

\* Broken variant: gated commands are taken for ungated ones.
EveryCommand(s, known) == reply[s]

\* The commands that run with the turn; the others get a request.
Ungated(s, known) == Autonomous(s) \cup AutoApproved(s, known)

Gated(s) == reply[s] \ Ungated(s, covered[s])

-----------------------------------------------------------------------------
(* A turn is posted and streamed.                                          *)

\* send_message: the user's message and the pending placeholder.
Post(t) ==
  /\ status[t] = "none"
  /\ status' = [status EXCEPT ![t] = "pending"]
  /\ UNCHANGED <<aiCalls, request, decisions, autoGranted, runs,
                 grants, sockets, deciders>>

\* A socket reads the row.  A terminal message is replayed and changes nothing.
Connect(s, t) ==
  /\ pc[s] = "closed" /\ status[t] = "pending"
  /\ Goto(s, "streaming")
  /\ turn' = [turn EXCEPT ![s] = t]
  /\ UNCHANGED <<committed, grants, open, reply, covered, todo, deciders>>

\* Broken variant: the transaction is left open.
CloseUncommitted(s) ==
  /\ Goto(s, "closed")
  /\ turn' = [turn EXCEPT ![s] = None]
  /\ reply' = [reply EXCEPT ![s] = {}]
  /\ covered' = [covered EXCEPT ![s] = {}]
  /\ todo' = [todo EXCEPT ![s] = {}]
  /\ UNCHANGED open

\* The generator is closed and with it the session: what is not committed is
\* rolled back.
Close(s) ==
  /\ Goto(s, "closed")
  /\ turn' = [turn EXCEPT ![s] = None]
  /\ open' = open \ {s}
  /\ reply' = [reply EXCEPT ![s] = {}]
  /\ covered' = [covered EXCEPT ![s] = {}]
  /\ todo' = [todo EXCEPT ![s] = {}]

\* The client goes away between two tokens: the row stays pending.
Disconnect(s) ==
  /\ pc[s] = "streaming"
  /\ Close(s)
  /\ UNCHANGED <<committed, grants, deciders>>

\* The model's reply ends with some commands, or fails.
StreamEnds(s) ==
  /\ pc[s] = "streaming"
  /\ \/ Goto(s, "finalizing")
        /\ \E C \in SUBSET {c \in Commands : TurnOf[c] = turn[s]} :
             reply' = [reply EXCEPT ![s] = C]
     \/ Goto(s, "failing") /\ UNCHANGED reply
  /\ UNCHANGED <<committed, grants, turn, open, covered, todo, deciders>>

-----------------------------------------------------------------------------
(* The transaction that finalizes a turn.                                  *)

\* finalize_assistant: one socket wins the row, the others commit nothing.
Finalize(s) ==
  /\ pc[s] \in {"finalizing", "failing"} /\ MessageFree(s)
  /\ \/ /\ PendingMessage(s)
        /\ Goto(s, IF pc[s] = "finalizing" THEN "classifying" ELSE "reporting")
        /\ open' = open \cup {s}
        /\ UNCHANGED <<turn, reply, covered, todo>>
     \/ ~PendingMessage(s) /\ Close(s)
  /\ UNCHANGED <<committed, grants, deciders>>

\* create_requests_for_turn: the grants are read once, then every command is
\* classified.
Classify(s) ==
  /\ pc[s] = "classifying"
  /\ covered' = [covered EXCEPT ![s] = grants]
  /\ todo' = [todo EXCEPT ![s] = Ungated(s, grants)]
  /\ Goto(s, "recording")
  /\ UNCHANGED <<committed, grants, turn, open, reply, deciders>>

\* The requests of the gated commands, the approval_auto_granted entries and
\* the ai_call entry are written; the first entry takes the chain head.
Record(s) ==
  /\ pc[s] = "recording" /\ AuditFree({s})
  /\ Goto(s, "running")
  /\ UNCHANGED <<committed, grants, turn, open, reply, covered, todo, deciders>>

\* What a commit of socket s makes visible of its turn.
Publish(s, outcome) ==
  IF s \in open
  THEN /\ status' = [status EXCEPT ![turn[s]] = outcome]
       /\ aiCalls' = [aiCalls EXCEPT ![turn[s]] = @ + 1]
       /\ request' = [c \in Commands |-> IF c \in Gated(s) THEN "pending" ELSE request[c]]
       /\ autoGranted' = autoGranted \cup AutoApproved(s, covered[s])
  ELSE UNCHANGED <<status, aiCalls, request, autoGranted>>

\* The pre-flight checks of execute_tool_run for the next command.  A refusal is
\* an exception that leaves the generator.
CheckRun(s) ==
  /\ pc[s] = "running" /\ todo[s] # {}
  /\ \/ Goto(s, "inserting") /\ UNCHANGED <<turn, open, reply, covered, todo>>
     \/ Close(s)
  /\ UNCHANGED <<committed, grants, deciders>>

\* Autonomous commands first, then those under standing autonomy.
NextCommands(s) ==
  IF todo[s] \cap Autonomous(s) # {} THEN todo[s] \cap Autonomous(s) ELSE todo[s]

\* The row of the run and its audit entry; its commit commits the turn as well.
InsertRun(s) ==
  /\ pc[s] = "inserting" /\ AuditFree({s})
  /\ \E c \in NextCommands(s) :
       /\ runs' = [runs EXCEPT ![c] = @ + 1]
       /\ todo' = [todo EXCEPT ![s] = @ \ {c}]
  /\ Publish(s, "complete")
  /\ open' = open \ {s}
  /\ Goto(s, "running")
  /\ UNCHANGED <<decisions, grants, turn, reply, covered, deciders>>

\* The last commit; the cards and the done frame follow.
CommitTurn(s) ==
  /\ pc[s] = "running" /\ todo[s] = {}
  /\ Publish(s, "complete")
  /\ Close(s)
  /\ UNCHANGED <<decisions, runs, grants, deciders>>

\* _finalize_failed: the ai_call entry and the commit.
CommitFailed(s) ==
  /\ pc[s] = "reporting" /\ AuditFree({s})
  /\ Publish(s, "failed")
  /\ Close(s)
  /\ UNCHANGED <<decisions, runs, grants, deciders>>

-----------------------------------------------------------------------------
(* A member decides on a gated command.                                    *)

DGoto(d, label) == dpc' = [dpc EXCEPT ![d] = label] /\ UNCHANGED <<on, choice>>

\* The request is answered; what it has not committed is rolled back.
Answer(d) ==
  /\ dpc' = [dpc EXCEPT ![d] = "idle"]
  /\ on' = [on EXCEPT ![d] = None]
  /\ choice' = [choice EXCEPT ![d] = "none"]

\* decide reads the request; one that is decided already is refused.
Load(d, c, decision) ==
  /\ dpc[d] = "idle" /\ request[c] = "pending"
  /\ on' = [on EXCEPT ![d] = c]
  /\ choice' = [choice EXCEPT ![d] = decision]
  /\ dpc' = [dpc EXCEPT ![d] = "claiming"]
  /\ UNCHANGED <<committed, grants, sockets>>

\* Broken variant: the UPDATE trusts what the request was when it was read.
AnyRequest(d) == TRUE

\* The WHERE clause of decide_request.
PendingRequest(d) == request[on[d]] = "pending"

\* decide_request: waits for another decision of the same request, then claims
\* the row or finds it decided.
Claim(d) ==
  /\ dpc[d] = "claiming"
  /\ \A e \in Deciders \ {d} : dpc[e] \in Claimed => on[e] # on[d]
  /\ \/ PendingRequest(d) /\ DGoto(d, "auditing")
     \/ ~PendingRequest(d) /\ Answer(d)
  /\ UNCHANGED <<committed, grants, sockets>>

\* The decision, with its audit entry, is committed.
CommitDecision(d) ==
  /\ request' = [request EXCEPT ![on[d]] = choice[d]]
  /\ decisions' = [decisions EXCEPT ![on[d]] = @ + 1]
  /\ UNCHANGED <<status, aiCalls, autoGranted>>

\* The approval_granted or approval_rejected entry takes the chain head.  A
\* rejection is committed right after it.
AuditDecision(d) ==
  /\ dpc[d] = "auditing" /\ AuditFree({})
  /\ \/ /\ choice[d] = "rejected"
        /\ CommitDecision(d) /\ UNCHANGED runs
        /\ Answer(d)
     \/ /\ choice[d] = "approved"
        /\ DGoto(d, "checking")
        /\ UNCHANGED committed
  /\ UNCHANGED <<grants, sockets>>

\* The pre-flight checks of the approved run; a refusal rolls the decision back.
CheckApproved(d) ==
  /\ dpc[d] = "checking"
  /\ DGoto(d, "inserting") \/ Answer(d)
  /\ UNCHANGED <<committed, grants, sockets>>

\* execute_tool_run commits the run together with the decision.  The pointer from
\* the request to the run is written afterwards and read by nobody here.
InsertApproved(d) ==
  /\ dpc[d] = "inserting"
  /\ CommitDecision(d)
  /\ runs' = [runs EXCEPT ![on[d]] = @ + 1]
  /\ Answer(d)
  /\ UNCHANGED <<grants, sockets>>

-----------------------------------------------------------------------------
(* Standing autonomy, and a crash.                                         *)

\* Broken variant: a grant for any reason.
GrantAny(k) ==
  /\ k \notin grants /\ AuditFree({})
  /\ grants' = grants \cup {k}
  /\ UNCHANGED <<committed, sockets, deciders>>

\* autonomy.service.grant; the unique index admits one active grant per reason.
Grant(k) ==
  /\ k \in Delegable \ grants /\ AuditFree({})
  /\ grants' = grants \cup {k}
  /\ UNCHANGED <<committed, sockets, deciders>>

Revoke(k) ==
  /\ k \in grants /\ AuditFree({})
  /\ grants' = grants \ {k}
  /\ UNCHANGED <<committed, sockets, deciders>>

\* The process dies: every session is rolled back.
Crash ==
  /\ pc' = [s \in Sockets |-> "closed"]
  /\ open' = {}
  /\ reply' = [s \in Sockets |-> {}] /\ todo' = [s \in Sockets |-> {}]
  /\ covered' = [s \in Sockets |-> {}]
  /\ turn' = [s \in Sockets |-> None]
  /\ dpc' = [d \in Deciders |-> "idle"]
  /\ on' = [d \in Deciders |-> None] /\ choice' = [d \in Deciders |-> "none"]
  /\ UNCHANGED <<committed, grants>>

-----------------------------------------------------------------------------

\* What a socket does by itself once the model's reply has ended.
Finish(s) == Finalize(s) \/ Classify(s) \/ Record(s) \/ CheckRun(s) \/ InsertRun(s)
             \/ CommitTurn(s) \/ CommitFailed(s)

\* What a deciding request does by itself.
Decide(d) == Claim(d) \/ AuditDecision(d) \/ CheckApproved(d) \/ InsertApproved(d)

Next ==
  \/ \E t \in Turns : Post(t)
  \/ \E s \in Sockets, t \in Turns : Connect(s, t)
  \/ \E s \in Sockets : Disconnect(s) \/ StreamEnds(s) \/ Finish(s)
  \/ \E d \in Deciders, c \in Commands, decision \in {"approved", "rejected"} :
       Load(d, c, decision)
  \/ \E d \in Deciders : Decide(d)
  \/ \E k \in Reasons : Grant(k) \/ Revoke(k)
  \/ Crash

\* Strong, because these steps wait for row locks that others keep taking, and
\* the database grants a lock in the order it was asked for.
Fairness == /\ \A s \in Sockets : SF_vars(Finish(s))
            /\ \A d \in Deciders : SF_vars(Decide(d))

Spec == Init /\ [][Next]_vars

FairSpec == Spec /\ Fairness
-----------------------------------------------------------------------------
(* Safety.                                                                 *)

\* Exactly one ai_call entry for a turn that is over and none before, however
\* many sockets streamed it and however often it was rolled back
\* (chat/repository.py:176-181).
OneAiCall ==
  \A t \in Turns : aiCalls[t] = IF status[t] \in {"complete", "failed"} THEN 1 ELSE 0

\* A command runs at most once, in a completed turn, and one with reasons
\* against it only by a recorded decision or a recorded auto-grant, never both
\* (approvals/service.py:355-361, chat/service.py:708-711).
RunsAuthorised ==
  \A c \in Commands :
    /\ runs[c] <= 1
    /\ runs[c] = 1 => /\ status[TurnOf[c]] = "complete"
                      /\ ReasonsOf[c] # {} => c \in autoGranted \/ request[c] = "approved"
    /\ c \in autoGranted => request[c] = "none"

\* No command is auto-granted against a reason that cannot be delegated
\* (autonomy/service.py:73-76, approvals/service.py:229-233).
OnlyDelegated == \A c \in autoGranted : ReasonsOf[c] \subseteq Delegable

\* A request is decided exactly when one decision is in the audit log, and
\* approved exactly when its command has run (approvals/service.py:447-454).
DecisionsBind ==
  \A c \in Commands : request[c] # "none" =>
    /\ decisions[c] = IF request[c] = "pending" THEN 0 ELSE 1
    /\ runs[c] = IF request[c] = "approved" THEN 1 ELSE 0

\* A message that is over and a request that is decided stay as they are: no
\* late socket and no second decider changes them.
DecidedForGood ==
  [][/\ \A t \in Turns : status[t] \in {"complete", "failed"} => status'[t] = status[t]
     /\ \A c \in Commands : request[c] \in {"approved", "rejected"}
                            => request'[c] = request[c]]_vars

-----------------------------------------------------------------------------
(* Liveness.                                                               *)

\* A socket whose reply has ended finishes its transaction, and a decision is
\* answered: nobody waits for ever on somebody else's row lock.
SessionsEnd ==
  /\ \A s \in Sockets : pc[s] \in Finalizing ~> pc[s] = "closed"
  /\ \A d \in Deciders : dpc[d] # "idle" ~> dpc[d] = "idle"
=============================================================================
