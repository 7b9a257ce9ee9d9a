--------------------------- MODULE AiTurns_proofs ---------------------------
(***************************************************************************)
(* Any number of turns, commands, sockets and deciding requests: a turn    *)
(* has one ai_call, a command runs at most once and only authorised, and a *)
(* request is decided once.                                                *)
(***************************************************************************)
EXTENDS AiTurns, TLAPS

\* Sockets that have claimed their message and not ended yet.
Winners == open \cup {s \in Sockets : pc[s] \in {"running", "inserting"}}

\* What a socket that wins a message relies on until it ends.
SocketOK(s) ==
  /\ pc[s] # "closed" => turn[s] \in Turns
  /\ pc[s] \in {"classifying", "recording", "reporting"} => s \in open
  /\ s \in open => /\ pc[s] \in {"classifying", "recording", "running", "inserting", "reporting"}
                   /\ status[turn[s]] = "pending"
  /\ \A c \in reply[s] : TurnOf[c] = turn[s]
  /\ pc[s] \in {"closed", "streaming", "failing", "reporting"} => reply[s] = {}
  /\ todo[s] \subseteq reply[s]
  /\ todo[s] # {} => pc[s] \in {"recording", "running", "inserting"}
  /\ pc[s] \in {"recording", "running", "inserting"} => todo[s] \subseteq Ungated(s, covered[s])
  /\ s \in Winners \ open => /\ status[turn[s]] = "complete"
                             /\ AutoApproved(s, covered[s]) \subseteq autoGranted
                             /\ \A c \in todo[s] : runs[c] = 0 /\ request[c] = "none"

\* Two winners never have the same message.
OneWinner == \A s, o \in Winners : s # o => turn[s] # turn[o]

\* What a deciding request relies on once it holds the row.
DeciderOK(d) ==
  /\ dpc[d] # "idle" => on[d] \in Commands /\ choice[d] \in {"approved", "rejected"}
                        /\ request[on[d]] # "none"
  /\ dpc[d] \in Claimed => request[on[d]] = "pending"
  /\ dpc[d] \in {"checking", "inserting"} => choice[d] = "approved"

\* Two deciding requests never hold the same row.
OneClaim == \A d, e \in Deciders :
  d # e /\ dpc[d] \in Claimed /\ dpc[e] \in Claimed => on[d] # on[e]

\* What is committed about a command.
CommandOK(c) ==
  /\ status[TurnOf[c]] # "complete" => runs[c] = 0 /\ request[c] = "none" /\ c \notin autoGranted
  /\ request[c] = "none" => /\ decisions[c] = 0 /\ runs[c] \in {0, 1}
                            /\ runs[c] = 1 => ReasonsOf[c] = {} \/ c \in autoGranted
  /\ request[c] # "none" => /\ c \notin autoGranted
                            /\ decisions[c] = IF request[c] = "pending" THEN 0 ELSE 1
                            /\ runs[c] = IF request[c] = "approved" THEN 1 ELSE 0
  /\ c \in autoGranted => ReasonsOf[c] \subseteq Delegable

IInv ==
  /\ TypeOK
  /\ OneAiCall
  /\ \A s \in Sockets : SocketOK(s)
  /\ OneWinner
  /\ \A d \in Deciders : DeciderOK(d)
  /\ OneClaim
  /\ \A c \in Commands : CommandOK(c)

-----------------------------------------------------------------------------
(* Types.                                                                  *)

USE DEF Finalizing, Claimed

LEMMA InitTyped == Init => TypeOK
BY DEF Init, TypeOK

LEMMA SocketsTyped ==
  ASSUME TypeOK, NEW s \in Sockets, Finish(s)
  PROVE  TypeOK'
<1>1. CASE Finalize(s)
  BY <1>1 DEF TypeOK, Finalize, Close, Goto, committed, deciders
<1>2. CASE Classify(s)
  <2>1. Ungated(s, grants) \in SUBSET Commands
    BY DEF TypeOK, Ungated, Autonomous, AutoApproved
  <2> QED  BY <1>2, <2>1 DEF TypeOK, Classify, Goto, committed, deciders
<1>3. CASE Record(s)
  BY <1>3 DEF TypeOK, Record, Goto, committed, deciders
<1>4. CASE CheckRun(s)
  BY <1>4 DEF TypeOK, CheckRun, Close, Goto, committed, deciders
<1>5. ASSUME NEW outcome \in {"complete", "failed"}, Publish(s, outcome)
      PROVE  /\ status' \in [Turns -> {"none", "pending", "complete", "failed"}]
             /\ aiCalls' \in [Turns -> Nat]
             /\ request' \in [Commands -> {"none", "pending", "approved", "rejected"}]
             /\ autoGranted' \in SUBSET Commands
  BY <1>5 DEF TypeOK, Publish, AutoApproved
<1>6. CASE InsertRun(s)
  <2>1. PICK c \in NextCommands(s) : /\ runs' = [runs EXCEPT ![c] = @ + 1]
                                     /\ todo' = [todo EXCEPT ![s] = @ \ {c}]
    BY <1>6 DEF InsertRun
  <2>2. c \in Commands /\ runs' \in [Commands -> Nat]
    <3>1. c \in Commands
      BY DEF TypeOK, NextCommands
    <3> QED  BY <2>1, <3>1 DEF TypeOK
  <2>3. todo' \in [Sockets -> SUBSET Commands]
    BY <2>1 DEF TypeOK
  <2> QED  BY <1>6, <1>5, <2>2, <2>3 DEF TypeOK, InsertRun, Goto, deciders
<1>7. CASE CommitTurn(s)
  BY <1>7, <1>5 DEF TypeOK, CommitTurn, Close, Goto, deciders
<1>8. CASE CommitFailed(s)
  BY <1>8, <1>5 DEF TypeOK, CommitFailed, Close, Goto, deciders
<1> QED  BY <1>1, <1>2, <1>3, <1>4, <1>6, <1>7, <1>8 DEF Finish

LEMMA DecidersTyped ==
  ASSUME TypeOK, NEW d \in Deciders, DeciderOK(d), Decide(d)
  PROVE  TypeOK'
<1>1. CASE Claim(d)
  BY <1>1 DEF TypeOK, Claim, DGoto, Answer, committed, sockets
<1>2. ASSUME CommitDecision(d), dpc[d] # "idle"
      PROVE  /\ request' \in [Commands -> {"none", "pending", "approved", "rejected"}]
             /\ decisions' \in [Commands -> Nat]
             /\ UNCHANGED <<status, aiCalls, autoGranted>>
  <2>1. on[d] \in Commands /\ choice[d] \in {"approved", "rejected"}
    BY <1>2 DEF DeciderOK
  <2>2. request' \in [Commands -> {"none", "pending", "approved", "rejected"}]
    BY <1>2, <2>1 DEF TypeOK, CommitDecision
  <2>3. decisions' \in [Commands -> Nat]
    BY <1>2, <2>1 DEF TypeOK, CommitDecision
  <2> QED  BY <1>2, <2>2, <2>3 DEF CommitDecision
<1>3. CASE AuditDecision(d)
  BY <1>2, <1>3 DEF TypeOK, AuditDecision, DGoto, Answer, committed, sockets
<1>4. CASE CheckApproved(d)
  BY <1>4 DEF TypeOK, CheckApproved, DGoto, Answer, committed, sockets
<1>5. CASE InsertApproved(d)
  <2>1. on[d] \in Commands
    BY <1>5 DEF DeciderOK, InsertApproved
  <2>2. runs' \in [Commands -> Nat]
    BY <1>5, <2>1 DEF TypeOK, InsertApproved
  <2> QED  BY <1>2, <1>5, <2>2 DEF TypeOK, InsertApproved, Answer, sockets
<1> QED  BY <1>1, <1>3, <1>4, <1>5 DEF Decide

\* The model's types, for every instance.
LEMMA NextTyped ==
  ASSUME IInv, [Next]_vars
  PROVE  TypeOK'
<1> USE DEF IInv
<1>1. ASSUME NEW t \in Turns, Post(t) PROVE TypeOK'
  BY <1>1 DEF TypeOK, Post, sockets, deciders
<1>2. ASSUME NEW s \in Sockets, NEW t \in Turns, Connect(s, t) PROVE TypeOK'
  BY <1>2 DEF TypeOK, Connect, Goto, committed, deciders
<1>3. ASSUME NEW s \in Sockets, Disconnect(s) PROVE TypeOK'
  BY <1>3 DEF TypeOK, Disconnect, Close, Goto, committed, deciders
<1>4. ASSUME NEW s \in Sockets, StreamEnds(s) PROVE TypeOK'
  BY <1>4 DEF TypeOK, StreamEnds, Goto, committed, deciders
<1>5. ASSUME NEW d \in Deciders, NEW c \in Commands,
             NEW decision \in {"approved", "rejected"}, Load(d, c, decision)
      PROVE  TypeOK'
  BY <1>5 DEF TypeOK, Load, committed, sockets
<1>6. ASSUME NEW k \in Reasons, Grant(k) \/ Revoke(k) PROVE TypeOK'
  BY <1>6 DEF TypeOK, Grant, Revoke, committed, sockets, deciders
<1>7. CASE Crash
  BY <1>7 DEF TypeOK, Crash, committed
<1>8. CASE UNCHANGED vars
  BY <1>8 DEF TypeOK, vars, committed, sockets, deciders
<1> QED
  BY <1>1, <1>2, <1>3, <1>4, <1>5, <1>6, <1>7, <1>8, SocketsTyped, DecidersTyped DEF Next

-----------------------------------------------------------------------------
(* Steps that commit nothing.                                              *)

LEMMA InitInvariant == Init => IInv
<1> SUFFICES ASSUME Init PROVE IInv
  OBVIOUS
<1>1. TypeOK
  BY InitTyped
<1>2. Winners = {}
  BY DEF Init, Winners
<1>3. OneAiCall /\ OneWinner /\ OneClaim
  BY <1>2 DEF Init, OneAiCall, OneWinner, OneClaim
<1>4. ASSUME NEW s \in Sockets PROVE SocketOK(s)
  BY <1>2 DEF Init, SocketOK
<1>5. ASSUME NEW d \in Deciders PROVE DeciderOK(d)
  BY DEF Init, DeciderOK
<1>6. ASSUME NEW c \in Commands PROVE CommandOK(c)
  <2>1. status[TurnOf[c]] = "none"
    BY CommandAssumption DEF Init
  <2> QED  BY <2>1 DEF Init, CommandOK
<1> QED  BY <1>1, <1>3, <1>4, <1>5, <1>6 DEF IInv

\* The step does not touch socket o.
Same(o) == /\ pc'[o] = pc[o] /\ turn'[o] = turn[o] /\ (o \in open' <=> o \in open)
           /\ reply'[o] = reply[o] /\ covered'[o] = covered[o] /\ todo'[o] = todo[o]

\* The step does not touch deciding request e.
SameDecider(e) == dpc'[e] = dpc[e] /\ on'[e] = on[e] /\ choice'[e] = choice[e]

\* A socket the step does not touch keeps what it relies on, if the step keeps
\* its message pending while it holds it, and otherwise the message, its
\* auto-grants and the commands it has still to run.
LEMMA SocketKept ==
  ASSUME NEW o \in Sockets, SocketOK(o), Same(o),
         o \in open => status'[turn[o]] = status[turn[o]],
         o \in Winners \ open => /\ status'[turn[o]] = status[turn[o]]
                                 /\ autoGranted \subseteq autoGranted'
                                 /\ \A c \in todo[o] : runs'[c] = runs[c]
                                                       /\ request'[c] = request[c]
  PROVE  SocketOK(o)'
<1>1. (o \in Winners)' <=> o \in Winners
  BY DEF Same, Winners
<1>2. /\ Ungated(o, covered[o])' = Ungated(o, covered[o])
      /\ AutoApproved(o, covered[o])' = AutoApproved(o, covered[o])
  BY DEF Same, Ungated, Autonomous, AutoApproved
<1> QED  BY <1>1, <1>2 DEF SocketOK, Same

\* A step of one socket that commits nothing.
LEMMA SocketStep ==
  ASSUME IInv, TypeOK', NEW s \in Sockets, UNCHANGED <<committed, deciders>>,
         \A o \in Sockets \ {s} : Same(o),
         SocketOK(s)',
         s \in Winners' => \A o \in Winners \ {s} : turn'[s] # turn[o]
  PROVE  IInv'
<1> USE DEF IInv, committed
<1>1. OneAiCall'
  BY DEF OneAiCall
<1>2. ASSUME NEW o \in Sockets PROVE SocketOK(o)'
  BY SocketKept
<1>3. OneWinner'
  <2>1. \A o \in Winners' : o \in Sockets /\ (o # s => o \in Winners /\ turn'[o] = turn[o])
    BY DEF Winners, Same, TypeOK
  <2> QED  BY <2>1 DEF OneWinner
<1>4. ASSUME NEW d \in Deciders PROVE DeciderOK(d)'
  BY DEF DeciderOK, deciders
<1>5. OneClaim'
  BY DEF OneClaim, deciders
<1>6. ASSUME NEW c \in Commands PROVE CommandOK(c)'
  BY DEF CommandOK
<1> QED  BY <1>1, <1>2, <1>3, <1>4, <1>5, <1>6

\* A step of one deciding request that commits nothing.
LEMMA DeciderStep ==
  ASSUME IInv, TypeOK', NEW d \in Deciders, UNCHANGED <<committed, sockets>>,
         \A e \in Deciders \ {d} : SameDecider(e),
         DeciderOK(d)',
         dpc'[d] \in Claimed => \A e \in Deciders \ {d} : dpc[e] \in Claimed
                                                        => on[e] # on'[d]
  PROVE  IInv'
<1> USE DEF IInv, committed
<1>1. OneAiCall'
  BY DEF OneAiCall
<1>2. ASSUME NEW o \in Sockets PROVE SocketOK(o)'
  BY SocketKept DEF sockets, Same
<1>3. OneWinner'
  BY DEF OneWinner, Winners, sockets
<1>4. ASSUME NEW e \in Deciders PROVE DeciderOK(e)'
  BY DEF DeciderOK, SameDecider
<1>5. OneClaim'
  BY DEF OneClaim, SameDecider
<1>6. ASSUME NEW c \in Commands PROVE CommandOK(c)'
  BY DEF CommandOK
<1> QED  BY <1>1, <1>2, <1>3, <1>4, <1>5, <1>6

-----------------------------------------------------------------------------
(* Steps that commit a turn or a decision.                                 *)

\* A winner's commit: it publishes its turn, if that is not public yet, and
\* the runs of some of the commands it has still to run.
LEMMA PublishStep ==
  ASSUME IInv, TypeOK', NEW s \in Winners, NEW outcome \in {"complete", "failed"},
         Publish(s, outcome), UNCHANGED <<decisions, deciders>>,
         NEW C \in SUBSET todo[s],
         \A c \in Commands : runs'[c] = IF c \in C THEN runs[c] + 1 ELSE runs[c],
         outcome = "failed" => reply[s] = {},
         \A o \in Sockets \ {s} : Same(o),
         s \notin open', s \in Winners' => turn'[s] = turn[s],
         SocketOK(s)'
  PROVE  IInv'
<1> USE DEF IInv
<1>1. /\ s \in Sockets /\ turn[s] \in Turns /\ SocketOK(s)
      /\ C \subseteq reply[s] /\ C \subseteq Commands
      /\ s \in open => status[turn[s]] = "pending"
      /\ s \notin open => status[turn[s]] = "complete"
  BY DEF Winners, SocketOK, TypeOK
<1>2. ASSUME NEW t \in Turns, t # turn[s]
      PROVE  status'[t] = status[t] /\ aiCalls'[t] = aiCalls[t]
  BY <1>1, <1>2 DEF Publish, TypeOK
<1>3. IF s \in open THEN status'[turn[s]] = outcome /\ aiCalls'[turn[s]] = aiCalls[turn[s]] + 1
                    ELSE status' = status /\ aiCalls' = aiCalls
  BY <1>1 DEF Publish, TypeOK
<1>4. OneAiCall'
  <2> SUFFICES ASSUME NEW t \in Turns
               PROVE  aiCalls'[t] = IF status'[t] \in {"complete", "failed"} THEN 1 ELSE 0
    BY DEF OneAiCall
  <2>1. aiCalls[t] = IF status[t] \in {"complete", "failed"} THEN 1 ELSE 0
    BY DEF OneAiCall
  <2>2. CASE t = turn[s] /\ s \in open
    BY <1>1, <1>3, <2>1, <2>2
  <2> QED  BY <1>1, <1>2, <1>3, <2>1, <2>2
<1>5. ASSUME NEW c \in Commands, TurnOf[c] # turn[s]
      PROVE  /\ c \notin reply[s] /\ runs'[c] = runs[c] /\ request'[c] = request[c]
             /\ c \in autoGranted' <=> c \in autoGranted
  <2>1. c \notin reply[s]
    BY <1>1, <1>5 DEF SocketOK
  <2> QED  BY <1>1, <2>1 DEF Publish, Gated, AutoApproved, TypeOK
<1>6. ASSUME NEW o \in Winners, o # s
      PROVE  /\ turn[o] # turn[s] /\ turn[o] \in Turns
             /\ \A c \in todo[o] : c \in Commands /\ TurnOf[c] # turn[s]
  BY <1>6 DEF OneWinner, Winners, SocketOK, TypeOK
<1>7. autoGranted \subseteq autoGranted'
  BY DEF Publish
<1>8. ASSUME NEW o \in Sockets PROVE SocketOK(o)'
  <2>1. CASE o # s
    <3>1. o \in open => o \in Winners
      BY DEF Winners
    <3> QED  BY <1>2, <1>5, <1>6, <1>7, <2>1, <3>1, SocketKept
  <2> QED  BY <2>1
<1>9. OneWinner'
  <2>1. \A o \in Winners' : o \in Sockets /\ (o # s => o \in Winners /\ turn'[o] = turn[o])
    BY DEF Winners, Same, TypeOK
  <2> QED  BY <2>1 DEF OneWinner
<1>10. ASSUME NEW c \in Commands PROVE CommandOK(c)'
  <2>1. CommandOK(c) /\ TurnOf[c] \in Turns /\ runs[c] \in Nat
        /\ request[c] \in {"none", "pending", "approved", "rejected"}
    BY CommandAssumption DEF TypeOK
  <2>2. CASE TurnOf[c] # turn[s]
    BY <1>2, <1>5, <2>1, <2>2 DEF CommandOK
  <2>3. CASE TurnOf[c] = turn[s] /\ s \in open /\ c \notin reply[s]
    <3>1. /\ c \in autoGranted' <=> c \in autoGranted
          /\ runs'[c] = runs[c] /\ request'[c] = request[c]
      BY <1>1, <2>3 DEF Publish, Gated, AutoApproved, TypeOK
    <3> QED  BY <1>1, <1>3, <2>1, <2>3, <3>1 DEF CommandOK
  <2>4. CASE TurnOf[c] = turn[s] /\ s \in open /\ c \in reply[s]
    <3>1. outcome = "complete" /\ status'[TurnOf[c]] = "complete"
      BY <1>3, <2>4
    <3>2. runs[c] = 0 /\ request[c] = "none" /\ c \notin autoGranted /\ decisions[c] = 0
      BY <1>1, <2>1, <2>4 DEF CommandOK
    <3>3. covered[s] \subseteq Delegable
      BY <1>1 DEF TypeOK
    <3>4. CASE c \in Gated(s)
      <4>1. c \notin C
        BY <1>1, <3>4 DEF Gated, SocketOK, Winners
      <4>2. request'[c] = "pending" /\ c \notin autoGranted' /\ runs'[c] = 0
        BY <1>1, <2>4, <3>2, <3>4, <4>1 DEF Publish, Gated, Ungated, TypeOK
      <4> QED  BY <3>1, <3>2, <4>2 DEF CommandOK
    <3>5. CASE c \notin Gated(s)
      <4>1. ReasonsOf[c] = {} \/ c \in AutoApproved(s, covered[s])
        BY <2>4, <3>5 DEF Gated, Ungated, Autonomous
      <4>2. /\ request'[c] = "none" /\ runs'[c] \in {0, 1}
            /\ c \in autoGranted' <=> c \in AutoApproved(s, covered[s])
        BY <1>1, <2>4, <3>2, <3>5 DEF Publish, TypeOK
      <4>3. c \in autoGranted' => ReasonsOf[c] \subseteq Delegable
        BY <3>3, <4>2 DEF AutoApproved
      <4> QED  BY <3>1, <3>2, <4>1, <4>2, <4>3 DEF CommandOK
    <3> QED  BY <3>4, <3>5
  <2>5. CASE TurnOf[c] = turn[s] /\ s \notin open
    <3>1. UNCHANGED <<status, request, autoGranted>>
      BY <2>5 DEF Publish
    <3>2. c \in C => /\ runs[c] = 0 /\ request[c] = "none"
                     /\ ReasonsOf[c] = {} \/ c \in autoGranted
      <4>1. pc[s] \in {"running", "inserting"}
        BY <2>5 DEF Winners
      <4>2. c \in C => /\ c \in todo[s] /\ runs[c] = 0 /\ request[c] = "none"
                       /\ c \in Ungated(s, covered[s])
        BY <1>1, <2>5, <4>1 DEF SocketOK
      <4> QED  BY <1>1, <2>5, <4>1, <4>2 DEF SocketOK, Ungated, Autonomous
    <3>3. runs'[c] = IF c \in C THEN runs[c] + 1 ELSE runs[c]
      OBVIOUS
    <3>4. status'[TurnOf[c]] = "complete"
      BY <1>1, <2>5, <3>1
    <3> QED  BY <2>1, <3>1, <3>2, <3>3, <3>4 DEF CommandOK
  <2> QED  BY <2>2, <2>3, <2>4, <2>5
<1>11. ASSUME NEW d \in Deciders PROVE DeciderOK(d)'
  <2>1. ASSUME dpc[d] # "idle" PROVE request'[on[d]] = request[on[d]]
    <3>1. on[d] \in Commands /\ request[on[d]] # "none" /\ CommandOK(on[d])
      BY <2>1 DEF DeciderOK
    <3>2. status[TurnOf[on[d]]] = "complete"
      BY <3>1 DEF CommandOK
    <3>3. s \in open => TurnOf[on[d]] # turn[s]
      BY <1>1, <3>2
    <3> QED  BY <1>5, <3>1, <3>3 DEF Publish
  <2> QED  BY <2>1 DEF DeciderOK, deciders
<1>12. OneClaim'
  BY DEF OneClaim, deciders
<1> QED  BY <1>4, <1>8, <1>9, <1>10, <1>11, <1>12

\* A decision is committed, and its run with it if it is an approval.
LEMMA DecisionStep ==
  ASSUME IInv, TypeOK', NEW d \in Deciders, dpc[d] \in Claimed,
         CommitDecision(d), Answer(d), UNCHANGED sockets,
         \A c \in Commands : runs'[c] = IF c = on[d] /\ choice[d] = "approved"
                                        THEN runs[c] + 1 ELSE runs[c]
  PROVE  IInv'
<1> USE DEF IInv
<1>1. /\ on[d] \in Commands /\ choice[d] \in {"approved", "rejected"}
      /\ request[on[d]] = "pending"
  BY DEF DeciderOK
<1>2. UNCHANGED <<status, aiCalls, autoGranted>>
  BY DEF CommitDecision
<1>3. ASSUME NEW c \in Commands, c # on[d]
      PROVE  /\ runs'[c] = runs[c] /\ request'[c] = request[c]
             /\ decisions'[c] = decisions[c]
  BY <1>1, <1>3 DEF CommitDecision, TypeOK
<1>4. /\ request'[on[d]] = choice[d]
      /\ decisions'[on[d]] = decisions[on[d]] + 1
  BY <1>1 DEF CommitDecision, TypeOK
<1>5. OneAiCall'
  BY <1>2 DEF OneAiCall
<1>6. ASSUME NEW o \in Sockets PROVE SocketOK(o)'
  <2>1. Same(o)
    BY DEF Same, sockets
  <2>2. o \in Winners \ open => \A c \in todo[o] : c \in Commands /\ c # on[d]
    BY <1>1 DEF SocketOK, TypeOK
  <2> QED  BY <1>2, <1>3, <2>1, <2>2, SocketKept
<1>7. OneWinner'
  BY DEF OneWinner, Winners, sockets
<1>8. ASSUME NEW e \in Deciders PROVE DeciderOK(e)'
  <2>1. CASE e = d
    BY <2>1 DEF DeciderOK, Answer, TypeOK
  <2>2. CASE e # d
    <3>1. SameDecider(e)
      BY <2>2 DEF SameDecider, Answer, TypeOK
    <3>2. dpc[e] \in Claimed => on[e] # on[d]
      BY <2>2 DEF OneClaim
    <3> QED  BY <1>1, <1>3, <1>4, <3>1, <3>2 DEF DeciderOK, SameDecider
  <2> QED  BY <2>1, <2>2
<1>9. OneClaim'
  <2>1. \A e \in Deciders : dpc'[e] \in Claimed => dpc[e] \in Claimed /\ on'[e] = on[e]
    BY DEF Answer, TypeOK
  <2> QED  BY <2>1 DEF OneClaim
<1>10. ASSUME NEW c \in Commands PROVE CommandOK(c)'
  <2>1. CommandOK(c) /\ runs[c] \in Nat /\ decisions[c] \in Nat
    BY DEF TypeOK
  <2>2. CASE c = on[d]
    BY <1>1, <1>2, <1>4, <2>1, <2>2 DEF CommandOK
  <2>3. CASE c # on[d]
    BY <1>2, <1>3, <2>1, <2>3 DEF CommandOK
  <2> QED  BY <2>2, <2>3
<1> QED  BY <1>5, <1>6, <1>7, <1>8, <1>9, <1>10

-----------------------------------------------------------------------------
(* Every step preserves the invariant.                                     *)

LEMMA PostKeeps ==
  ASSUME IInv, TypeOK', NEW t \in Turns, Post(t)
  PROVE  IInv'
<1> USE DEF IInv
<1>1. /\ UNCHANGED <<aiCalls, request, decisions, autoGranted, runs, sockets, deciders>>
      /\ status[t] = "none" /\ status'[t] = "pending"
      /\ \A r \in Turns : r # t => status'[r] = status[r]
  BY DEF Post, TypeOK
<1>2. OneAiCall'
  BY <1>1 DEF OneAiCall
<1>3. ASSUME NEW o \in Sockets PROVE SocketOK(o)'
  <2>1. Same(o)
    BY <1>1 DEF Same, sockets
  <2>2. o \in Winners => turn[o] \in Turns /\ status[turn[o]] # "none"
    BY DEF SocketOK, Winners
  <2>3. o \in open => o \in Winners
    BY DEF Winners
  <2> QED  BY <1>1, <2>1, <2>2, <2>3, SocketKept
<1>4. OneWinner'
  BY <1>1 DEF OneWinner, Winners, sockets
<1>5. ASSUME NEW d \in Deciders PROVE DeciderOK(d)'
  BY <1>1 DEF DeciderOK, deciders
<1>6. OneClaim'
  BY <1>1 DEF OneClaim, deciders
<1>7. ASSUME NEW c \in Commands PROVE CommandOK(c)'
  <2>1. CommandOK(c) /\ TurnOf[c] \in Turns
    BY CommandAssumption
  <2>2. status'[TurnOf[c]] = "complete" <=> status[TurnOf[c]] = "complete"
    BY <1>1, <2>1
  <2> QED  BY <1>1, <2>1, <2>2 DEF CommandOK
<1> QED  BY <1>2, <1>3, <1>4, <1>5, <1>6, <1>7

LEMMA StreamingKeeps ==
  ASSUME IInv, TypeOK', NEW s \in Sockets,
         (\E t \in Turns : Connect(s, t)) \/ Disconnect(s) \/ StreamEnds(s)
  PROVE  IInv'
<1> USE DEF IInv
<1>1. /\ UNCHANGED <<committed, deciders>> /\ \A o \in Sockets \ {s} : Same(o)
  BY DEF Connect, Disconnect, StreamEnds, Close, Goto, Same, TypeOK
<1>2. s \notin open /\ SocketOK(s)
  BY DEF Connect, Disconnect, StreamEnds, SocketOK
<1>3. s \notin Winners'
  BY <1>2 DEF Connect, Disconnect, StreamEnds, Close, Goto, Winners, TypeOK
<1>4. SocketOK(s)'
  <2>1. ASSUME NEW t \in Turns, Connect(s, t) PROVE SocketOK(s)'
    BY <1>2, <1>3, <2>1 DEF Connect, Goto, SocketOK, TypeOK, committed
  <2>2. CASE Disconnect(s)
    BY <1>2, <1>3, <2>2 DEF Disconnect, Close, Goto, SocketOK, TypeOK
  <2>3. CASE StreamEnds(s)
    BY <1>2, <1>3, <2>3 DEF StreamEnds, Goto, SocketOK, TypeOK
  <2> QED  BY <2>1, <2>2, <2>3
<1> QED  BY <1>1, <1>3, <1>4, SocketStep

LEMMA FinalizeKeeps ==
  ASSUME IInv, TypeOK', NEW s \in Sockets, Finalize(s)
  PROVE  IInv'
<1> USE DEF IInv
<1>1. UNCHANGED <<committed, deciders>> /\ \A o \in Sockets \ {s} : Same(o)
  BY DEF Finalize, Close, Goto, Same, TypeOK
<1>2. SocketOK(s) /\ pc[s] \in {"finalizing", "failing"} /\ s \notin open /\ todo[s] = {}
      /\ turn[s] \in Turns
  BY DEF Finalize, SocketOK
<1>3. SocketOK(s)'
  <2>1. CASE Close(s)
    BY <1>2, <2>1 DEF Close, Goto, SocketOK, Winners, TypeOK
  <2>2. CASE ~Close(s)
    BY <1>1, <1>2, <2>2 DEF Finalize, PendingMessage, Goto, SocketOK, Winners, TypeOK, committed
  <2> QED  BY <2>1, <2>2
<1>4. ASSUME s \in Winners', NEW o \in Winners \ {s} PROVE turn'[s] # turn[o]
  <2>1. PendingMessage(s) /\ turn'[s] = turn[s]
    BY <1>2, <1>4 DEF Finalize, Close, Goto, Winners, TypeOK
  <2>2. CASE o \in open
    BY <2>1, <2>2 DEF Finalize, MessageFree, Winners
  <2>3. CASE o \notin open
    BY <2>1, <2>3 DEF Winners, SocketOK, PendingMessage
  <2> QED  BY <2>2, <2>3
<1> QED  BY <1>1, <1>3, <1>4, SocketStep

LEMMA WinnerKeeps ==
  ASSUME IInv, TypeOK', NEW s \in Sockets, Classify(s) \/ Record(s) \/ CheckRun(s)
  PROVE  IInv'
<1> USE DEF IInv
<1>1. UNCHANGED <<committed, deciders>> /\ \A o \in Sockets \ {s} : Same(o)
  BY DEF Classify, Record, CheckRun, Close, Goto, Same, TypeOK
<1>2. SocketOK(s) /\ s \in Winners
  BY DEF Classify, Record, CheckRun, SocketOK, Winners
<1>3. s \in Winners' => turn'[s] = turn[s]
  BY DEF Classify, Record, CheckRun, Close, Goto, Winners, TypeOK
<1>4. SocketOK(s)'
  <2>1. CASE Classify(s)
    <3>1. s \in open /\ pc'[s] = "recording" /\ UNCHANGED <<open, turn, reply>>
      BY <1>2, <2>1 DEF Classify, Goto, SocketOK, TypeOK
    <3>2. todo'[s] = Ungated(s, grants) /\ covered'[s] = grants
      BY <2>1 DEF Classify, TypeOK
    <3>3. Ungated(s, covered[s])' = todo'[s] /\ todo'[s] \subseteq reply[s]
      BY <3>1, <3>2 DEF Ungated, Autonomous, AutoApproved
    <3> QED  BY <1>1, <1>2, <3>1, <3>2, <3>3 DEF SocketOK, Winners, committed
  <2>2. CASE Record(s)
    <3>1. /\ s \in open /\ pc[s] = "recording" /\ pc'[s] = "running"
          /\ UNCHANGED <<open, turn, reply, covered, todo>>
      BY <1>2, <2>2 DEF Record, Goto, SocketOK, TypeOK
    <3>2. Ungated(s, covered[s])' = Ungated(s, covered[s])
      BY <3>1 DEF Ungated, Autonomous, AutoApproved
    <3> QED  BY <1>1, <1>2, <3>1, <3>2 DEF SocketOK, Winners, committed
  <2>3. CASE CheckRun(s) /\ Close(s)
    BY <2>3 DEF Close, Goto, SocketOK, Winners, TypeOK
  <2>4. CASE CheckRun(s) /\ ~Close(s)
    <3>1. /\ pc[s] = "running" /\ pc'[s] = "inserting"
          /\ UNCHANGED <<open, turn, reply, covered, todo>>
      BY <2>4 DEF CheckRun, Goto, TypeOK
    <3>2. /\ Ungated(s, covered[s])' = Ungated(s, covered[s])
          /\ AutoApproved(s, covered[s])' = AutoApproved(s, covered[s])
      BY <3>1 DEF Ungated, Autonomous, AutoApproved
    <3> QED  BY <1>1, <1>2, <3>1, <3>2 DEF SocketOK, Winners, committed
  <2> QED  BY <2>1, <2>2, <2>3, <2>4
<1>5. s \in Winners' => \A o \in Winners \ {s} : turn'[s] # turn[o]
  BY <1>2, <1>3 DEF OneWinner
<1> QED  BY <1>1, <1>4, <1>5, SocketStep

LEMMA CommitKeeps ==
  ASSUME IInv, TypeOK', NEW s \in Sockets, CommitTurn(s) \/ CommitFailed(s)
  PROVE  IInv'
<1> USE DEF IInv
<1>1. PICK outcome \in {"complete", "failed"} :
        Publish(s, outcome) /\ (outcome = "failed" => pc[s] = "reporting")
  BY DEF CommitTurn, CommitFailed
<1>2. s \in Winners /\ SocketOK(s)
  BY DEF CommitTurn, CommitFailed, SocketOK, Winners
<1>3. Close(s) /\ UNCHANGED <<decisions, runs, deciders>>
  BY DEF CommitTurn, CommitFailed
<1>4. \A o \in Sockets \ {s} : Same(o)
  BY <1>3 DEF Close, Goto, Same, TypeOK
<1>5. s \notin open' /\ s \notin Winners' /\ SocketOK(s)'
  BY <1>3 DEF Close, Goto, SocketOK, Winners, TypeOK
<1>6. outcome = "failed" => reply[s] = {}
  BY <1>1, <1>2 DEF SocketOK
<1>7. {} \in SUBSET todo[s]
      /\ \A c \in Commands : runs'[c] = IF c \in {} THEN runs[c] + 1 ELSE runs[c]
  BY <1>3
<1> HIDE DEF IInv
<1> QED  BY <1>1, <1>2, <1>3, <1>4, <1>5, <1>6, <1>7, PublishStep

LEMMA InsertKeeps ==
  ASSUME IInv, TypeOK', NEW s \in Sockets, InsertRun(s)
  PROVE  IInv'
<1> USE DEF IInv
<1>1. PICK c \in NextCommands(s) : /\ runs' = [runs EXCEPT ![c] = @ + 1]
                                   /\ todo' = [todo EXCEPT ![s] = @ \ {c}]
  BY DEF InsertRun
<1>2. /\ Publish(s, "complete") /\ s \in Winners /\ SocketOK(s)
      /\ UNCHANGED <<decisions, deciders, turn, reply, covered>>
      /\ pc[s] = "inserting" /\ pc'[s] = "running" /\ s \notin open'
  BY DEF InsertRun, Winners, Goto, TypeOK
<1>3. c \in todo[s] /\ c \in Commands /\ todo[s] \subseteq reply[s] /\ turn[s] \in Turns
      /\ todo[s] \subseteq Ungated(s, covered[s]) /\ todo[s] \subseteq Commands
  BY <1>2 DEF NextCommands, SocketOK, TypeOK
<1>4. \A o \in Sockets \ {s} : Same(o)
  BY <1>1 DEF InsertRun, Goto, Same, TypeOK
<1>5. todo'[s] = todo[s] \ {c} /\ \A x \in todo'[s] : runs'[x] = runs[x]
  BY <1>1, <1>3 DEF TypeOK
<1>6. /\ Ungated(s, covered[s])' = Ungated(s, covered[s])
      /\ AutoApproved(s, covered[s])' = AutoApproved(s, covered[s])
  BY <1>2 DEF Ungated, Autonomous, AutoApproved
<1>7. status'[turn[s]] = "complete" /\ AutoApproved(s, covered[s]) \subseteq autoGranted'
  BY <1>2, <1>3 DEF Publish, SocketOK, TypeOK
<1>8. ASSUME NEW x \in todo'[s] PROVE runs'[x] = 0 /\ request'[x] = "none"
  <2>1. x \in todo[s] /\ runs'[x] = runs[x] /\ x \in Commands
    BY <1>3, <1>5
  <2>2. runs[x] = 0 /\ request[x] = "none"
    <3>1. CASE s \in open
      BY <1>2, <1>3, <2>1, <3>1 DEF SocketOK, CommandOK
    <3>2. CASE s \notin open
      BY <1>2, <2>1, <3>2 DEF SocketOK
    <3> QED  BY <3>1, <3>2
  <2>3. request'[x] = request[x]
    BY <1>2, <1>3, <2>1 DEF Publish, Gated
  <2> QED  BY <2>1, <2>2, <2>3
<1>9. SocketOK(s)'
  BY <1>2, <1>3, <1>5, <1>6, <1>7, <1>8 DEF SocketOK
<1>10. {c} \in SUBSET todo[s]
       /\ \A x \in Commands : runs'[x] = IF x \in {c} THEN runs[x] + 1 ELSE runs[x]
  BY <1>1, <1>3 DEF TypeOK
<1> HIDE DEF IInv
<1> QED  BY <1>2, <1>4, <1>9, <1>10, PublishStep

LEMMA DecideKeeps ==
  ASSUME IInv, TypeOK', NEW d \in Deciders,
         Decide(d) \/ \E c \in Commands, decision \in {"approved", "rejected"} :
                        Load(d, c, decision)
  PROVE  IInv'
<1> USE DEF IInv
<1>1. DeciderOK(d)
  OBVIOUS
<1>2. ASSUME NEW c \in Commands, NEW decision \in {"approved", "rejected"},
             Load(d, c, decision)
      PROVE  IInv'
  <2>1. UNCHANGED <<committed, sockets>> /\ dpc'[d] = "claiming" /\ dpc'[d] \notin Claimed
        /\ \A e \in Deciders \ {d} : SameDecider(e)
    BY <1>2 DEF Load, SameDecider, TypeOK
  <2>2. DeciderOK(d)'
    BY <1>2 DEF Load, DeciderOK, TypeOK, committed
  <2> QED  BY <2>1, <2>2, DeciderStep
<1>3. CASE UNCHANGED committed /\ Decide(d)
  <2>1. UNCHANGED <<committed, sockets>> /\ \A e \in Deciders \ {d} : SameDecider(e)
    BY <1>3 DEF Decide, Claim, AuditDecision, CheckApproved, InsertApproved, DGoto, Answer,
                SameDecider, TypeOK
  <2>2. CASE Answer(d)
    <3>1. dpc'[d] = "idle" /\ dpc'[d] \notin Claimed
      BY <2>2 DEF Answer, TypeOK
    <3>2. DeciderOK(d)'
      BY <3>1 DEF DeciderOK
    <3> QED  BY <2>1, <3>1, <3>2, DeciderStep
  <2>3. CASE ~Answer(d)
    <3>1. /\ dpc[d] \in Claimed \/ (dpc[d] = "claiming" /\ PendingRequest(d) /\ dpc'[d] = "auditing")
          /\ dpc'[d] \in Claimed /\ on'[d] = on[d] /\ choice'[d] = choice[d]
          /\ dpc'[d] \in {"checking", "inserting"} => choice[d] = "approved"
      BY <1>1, <1>3, <2>3 DEF Decide, Claim, AuditDecision, CheckApproved, InsertApproved,
                              DGoto, DeciderOK, TypeOK
    <3>2. DeciderOK(d)'
      BY <1>1, <2>1, <3>1 DEF DeciderOK, PendingRequest, committed
    <3>3. \A e \in Deciders \ {d} : dpc[e] \in Claimed => on[e] # on[d]
      <4>1. CASE dpc[d] \in Claimed
        BY <4>1 DEF OneClaim
      <4>2. CASE dpc[d] = "claiming"
        BY <1>3, <4>2 DEF Decide, Claim, AuditDecision, CheckApproved, InsertApproved
      <4> QED  BY <3>1, <4>1, <4>2
    <3> QED  BY <2>1, <3>1, <3>2, <3>3, DeciderStep
  <2> QED  BY <2>2, <2>3
<1>4. CASE CommitDecision(d) /\ Decide(d) /\ ~UNCHANGED committed
  <2>1. /\ dpc[d] \in Claimed /\ Answer(d) /\ UNCHANGED sockets
        /\ \/ choice[d] = "rejected" /\ UNCHANGED runs
           \/ choice[d] = "approved" /\ runs' = [runs EXCEPT ![on[d]] = @ + 1]
    BY <1>1, <1>4 DEF Decide, Claim, AuditDecision, CheckApproved, InsertApproved, DeciderOK
  <2>2. \A c \in Commands : runs'[c] = IF c = on[d] /\ choice[d] = "approved"
                                       THEN runs[c] + 1 ELSE runs[c]
    BY <1>1, <2>1 DEF TypeOK, DeciderOK
  <2> HIDE DEF IInv
  <2> QED  BY <1>4, <2>1, <2>2, DecisionStep
<1>5. Decide(d) => UNCHANGED committed \/ CommitDecision(d)
  BY DEF Decide, Claim, AuditDecision, CheckApproved, InsertApproved
<1> QED  BY <1>2, <1>3, <1>4, <1>5

LEMMA CrashKeeps ==
  ASSUME IInv, TypeOK', Crash
  PROVE  IInv'
<1> USE DEF IInv
<1>1. UNCHANGED committed /\ open' = {} /\ \A s \in Sockets : pc'[s] = "closed"
  BY DEF Crash
<1>2. Winners' = {}
  BY <1>1 DEF Winners
<1>3. OneAiCall' /\ OneWinner'
  BY <1>1, <1>2 DEF OneAiCall, OneWinner, committed
<1>4. ASSUME NEW s \in Sockets PROVE SocketOK(s)'
  BY <1>2, <1>4 DEF Crash, SocketOK
<1>5. ASSUME NEW d \in Deciders PROVE DeciderOK(d)'
  BY <1>5 DEF Crash, DeciderOK
<1>6. OneClaim'
  BY DEF Crash, OneClaim
<1>7. ASSUME NEW c \in Commands PROVE CommandOK(c)'
  BY <1>1 DEF CommandOK, committed
<1> QED  BY <1>3, <1>4, <1>5, <1>6, <1>7

\* A step that touches no socket, no deciding request and nothing committed.
LEMMA IdleKeeps ==
  ASSUME IInv, TypeOK', UNCHANGED <<committed, sockets, deciders>>
  PROVE  IInv'
<1> USE DEF IInv
<1>1. ASSUME NEW s \in Sockets PROVE SocketOK(s)'
  BY SocketKept DEF Same, sockets, committed
<1>2. OneAiCall' /\ OneWinner' /\ OneClaim'
  BY DEF OneAiCall, OneWinner, OneClaim, Winners, committed, sockets, deciders
<1>3. ASSUME NEW d \in Deciders PROVE DeciderOK(d)'
  BY DEF DeciderOK, committed, deciders
<1>4. ASSUME NEW c \in Commands PROVE CommandOK(c)'
  BY DEF CommandOK, committed
<1> QED  BY <1>1, <1>2, <1>3, <1>4

LEMMA NextKeeps ==
  ASSUME IInv, [Next]_vars
  PROVE  IInv'
<1>1. TypeOK'
  BY NextTyped
<1>2. ASSUME NEW s \in Sockets, Finish(s) PROVE IInv'
  BY <1>1, <1>2, FinalizeKeeps, WinnerKeeps, InsertKeeps, CommitKeeps DEF Finish
<1>3. ASSUME NEW k \in Reasons, Grant(k) \/ Revoke(k) PROVE IInv'
  BY <1>1, <1>3, IdleKeeps DEF Grant, Revoke
<1>4. CASE UNCHANGED vars
  BY <1>1, <1>4, IdleKeeps DEF vars
<1> QED
  BY <1>1, <1>2, <1>3, <1>4, PostKeeps, StreamingKeeps, DecideKeeps, CrashKeeps DEF Next

-----------------------------------------------------------------------------

\* The inductive invariant.
THEOREM TurnsInvariant == Spec => []IInv
<1>1. Init => IInv
  BY InitInvariant
<1>2. IInv /\ [Next]_vars => IInv'
  BY NextKeeps
<1> QED  BY <1>1, <1>2, PTL DEF Spec

\* The model's types.
THEOREM TurnsTyped == Spec => []TypeOK
<1>1. IInv => TypeOK
  BY DEF IInv
<1> QED  BY <1>1, TurnsInvariant, PTL

\* A turn that is over has exactly one ai_call entry, any other none, for any
\* number of sockets, rollbacks and crashes (chat/repository.py:176-181).
THEOREM TurnsAuditedOnce == Spec => []OneAiCall
<1>1. IInv => OneAiCall
  BY DEF IInv
<1> QED  BY <1>1, TurnsInvariant, PTL

\* A command runs at most once, and a gated one only by a decision or an
\* auto-grant on record, never both (approvals/service.py:355-361).
THEOREM CommandsAuthorised == Spec => []RunsAuthorised
<1>1. IInv => RunsAuthorised
  <2> SUFFICES ASSUME IInv, NEW c \in Commands
               PROVE  /\ runs[c] <= 1
                      /\ runs[c] = 1 => /\ status[TurnOf[c]] = "complete"
                                        /\ ReasonsOf[c] # {} => c \in autoGranted
                                                                \/ request[c] = "approved"
                      /\ c \in autoGranted => request[c] = "none"
    BY DEF RunsAuthorised
  <2>1. CommandOK(c) /\ runs[c] \in Nat
    BY DEF IInv, TypeOK
  <2> QED  BY <2>1 DEF CommandOK
<1> QED  BY <1>1, TurnsInvariant, PTL

\* No command is auto-granted against a reason that cannot be delegated
\* (autonomy/service.py:73-76).
THEOREM GrantsDelegable == Spec => []OnlyDelegated
<1>1. IInv => OnlyDelegated
  BY DEF IInv, TypeOK, OnlyDelegated, CommandOK
<1> QED  BY <1>1, TurnsInvariant, PTL

\* A request, its decision in the audit log and the run of its command agree
\* (approvals/service.py:447-454).
THEOREM DecisionsAudited == Spec => []DecisionsBind
<1>1. IInv => DecisionsBind
  BY DEF IInv, DecisionsBind, CommandOK
<1> QED  BY <1>1, TurnsInvariant, PTL

\* What DecidedForGood says of one step.
Stays == /\ \A t \in Turns : status[t] \in {"complete", "failed"} => status'[t] = status[t]
         /\ \A c \in Commands : request[c] \in {"approved", "rejected"}
                                => request'[c] = request[c]

LEMMA PublishStays ==
  ASSUME IInv, NEW s \in Winners, NEW outcome \in {"complete", "failed"}, Publish(s, outcome)
  PROVE  Stays
<1>1. CASE s \in open
  <2>1. s \in Sockets /\ SocketOK(s) /\ status[turn[s]] = "pending"
    <3>1. s \in Sockets
      BY DEF IInv, TypeOK, Winners
    <3> QED  BY <1>1, <3>1 DEF IInv, SocketOK
  <2>2. ASSUME NEW c \in Gated(s) PROVE request[c] = "none"
    <3>1. c \in Commands /\ TurnOf[c] = turn[s] /\ CommandOK(c)
      BY <2>1 DEF Gated, IInv, SocketOK, TypeOK
    <3> QED  BY <2>1, <3>1 DEF CommandOK
  <2> QED  BY <1>1, <2>1, <2>2 DEF Publish, Stays, IInv, TypeOK
<1>2. CASE s \notin open
  BY <1>2 DEF Publish, Stays
<1> QED  BY <1>1, <1>2

LEMMA CommitDecisionStays ==
  ASSUME IInv, NEW d \in Deciders, dpc[d] \in Claimed, CommitDecision(d)
  PROVE  Stays
<1>1. request[on[d]] = "pending"
  BY DEF IInv, DeciderOK
<1> QED  BY <1>1 DEF CommitDecision, Stays, IInv, TypeOK

LEMMA NextStays ==
  ASSUME IInv, [Next]_vars
  PROVE  Stays
<1>1. ASSUME UNCHANGED committed PROVE Stays
  BY <1>1 DEF committed, Stays
<1>2. ASSUME NEW t \in Turns, Post(t) PROVE Stays
  BY <1>2 DEF Post, Stays, IInv, TypeOK
<1>3. ASSUME NEW s \in Sockets, Finish(s) PROVE Stays
  <2>1. CASE InsertRun(s) \/ CommitTurn(s) \/ CommitFailed(s)
    <3>1. s \in Winners
      BY <2>1 DEF InsertRun, CommitTurn, CommitFailed, Winners, IInv, SocketOK
    <3> QED  BY <2>1, <3>1, PublishStays DEF InsertRun, CommitTurn, CommitFailed
  <2> QED  BY <1>1, <1>3, <2>1 DEF Finish, Finalize, Classify, Record, CheckRun
<1>4. ASSUME NEW d \in Deciders, Decide(d) PROVE Stays
  BY <1>1, <1>4, CommitDecisionStays
     DEF Decide, Claim, AuditDecision, CheckApproved, InsertApproved
<1> QED
  BY <1>1, <1>2, <1>3, <1>4 DEF Next, vars, Connect, Disconnect, StreamEnds, Load, Grant,
                                Revoke, Crash

\* A finished message and a decided request never change again, whatever late
\* sockets and second deciders do (chat/repository.py:199, approvals/repository.py:168).
THEOREM DecisionsFinal == Spec => DecidedForGood
<1>1. IInv /\ [Next]_vars => [Stays]_vars
  BY NextStays
<1> QED  BY <1>1, TurnsInvariant, PTL DEF Spec, DecidedForGood, Stays
=============================================================================
