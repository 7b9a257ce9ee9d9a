------------------------- MODULE OutputChannel_proofs -------------------------
(***************************************************************************)
(* Proofs about OutputChannel and the server under it: the types, that a   *)
(* subscriber misses nothing and hears nothing twice, and that what a run  *)
(* says of its outcome is what its row holds.                              *)
(***************************************************************************)
EXTENDS OutputChannel, FiniteSetTheorems, SequenceTheorems, TLAPS

-----------------------------------------------------------------------------
(* Sequences.                                                              *)

LEMMA AppendRange ==
  ASSUME NEW S, NEW s \in Seq(S), NEW e \in S
  PROVE  Range(Append(s, e)) = Range(s) \cup {e}
<1>1. Append(s, e) \in Seq(S) /\ Len(Append(s, e)) = Len(s) + 1 /\ Len(s) \in Nat
      /\ (\A i \in 1..Len(s) : Append(s, e)[i] = s[i]) /\ Append(s, e)[Len(s) + 1] = e
  BY AppendProperties, LenProperties
<1>2. Range(s) = {s[i] : i \in 1..Len(s)}  BY RangeEquality
<1>3. Range(Append(s, e)) = {Append(s, e)[i] : i \in 1..(Len(s) + 1)}
  BY <1>1, RangeEquality
<1>4. 1..(Len(s) + 1) = 1..Len(s) \cup {Len(s) + 1}  BY <1>1
<1> QED  BY <1>1, <1>2, <1>3, <1>4

LEMMA AppendInjects ==
  ASSUME NEW S, NEW s \in Seq(S), NEW e \in S, IsInjective(s), e \notin Range(s)
  PROVE  IsInjective(Append(s, e))
<1>1. /\ DOMAIN s = 1..Len(s) /\ Len(s) \in Nat
      /\ DOMAIN Append(s, e) = 1..(Len(s) + 1)
      /\ \A i \in 1..Len(s) : Append(s, e)[i] = s[i]
      /\ Append(s, e)[Len(s) + 1] = e
  BY AppendProperties, LenProperties
<1>2. \A i \in 1..Len(s) : s[i] # e  BY <1>1 DEF Range
<1>3. ASSUME NEW i \in 1..(Len(s) + 1), NEW j \in 1..(Len(s) + 1),
             Append(s, e)[i] = Append(s, e)[j]
      PROVE  i = j
  <2>1. CASE i \in 1..Len(s) /\ j \in 1..Len(s)
    BY <1>1, <1>3, <2>1 DEF IsInjective
  <2>2. CASE i = Len(s) + 1 \/ j = Len(s) + 1
    BY <1>1, <1>2, <1>3, <2>2
  <2> QED  BY <1>1, <2>1, <2>2
<1> QED  BY <1>1, <1>3 DEF IsInjective

\* Taking one place out of the line.
LEMMA RemoveAtProperties ==
  ASSUME NEW S, NEW s \in Seq(S), NEW p \in DOMAIN s, IsInjective(s)
  PROVE  /\ RemoveAt(s, p) \in Seq(S)
         /\ IsInjective(RemoveAt(s, p))
         /\ Range(RemoveAt(s, p)) = Range(s) \ {s[p]}
         /\ p # 1 => RemoveAt(s, p) # <<>> /\ Head(RemoveAt(s, p)) = Head(s)
<1> DEFINE a == SubSeq(s, 1, p - 1)
           b == SubSeq(s, p + 1, Len(s))
           t == a \o b
<1>1. DOMAIN s = 1..Len(s) /\ Len(s) \in Nat /\ p \in 1..Len(s) /\ \A i \in 1..Len(s) : s[i] \in S
  BY LenProperties, ElementOfSeq
<1>2. /\ a \in Seq(S) /\ Len(a) = p - 1
      /\ \A i \in 1..(p - 1) : a[i] = s[i]
  <2>1. \A i \in 1..(p - 1) : s[i] \in S  BY <1>1
  <2>2. 1 \in Int /\ p - 1 \in Int  BY <1>1
  <2>3. /\ a \in Seq(S)
        /\ Len(a) = IF 1 <= p - 1 THEN (p - 1) - 1 + 1 ELSE 0
        /\ \A i \in 1..((p - 1) - 1 + 1) : a[i] = s[1 + i - 1]
    BY <2>1, <2>2, SubSeqProperties
  <2> QED  BY <1>1, <2>3
<1>3. /\ b \in Seq(S) /\ Len(b) = Len(s) - p
      /\ \A i \in 1..(Len(s) - p) : b[i] = s[p + i]
  <2>1. \A i \in (p + 1)..Len(s) : s[i] \in S  BY <1>1
  <2>2. p + 1 \in Int /\ Len(s) \in Int  BY <1>1
  <2>3. /\ b \in Seq(S)
        /\ Len(b) = IF p + 1 <= Len(s) THEN Len(s) - (p + 1) + 1 ELSE 0
        /\ \A i \in 1..(Len(s) - (p + 1) + 1) : b[i] = s[(p + 1) + i - 1]
    BY <2>1, <2>2, SubSeqProperties
  <2> QED  BY <1>1, <2>3
<1> HIDE DEF a, b
<1>4. /\ t \in Seq(S) /\ Len(t) = Len(s) - 1
      /\ \A i \in 1..(Len(s) - 1) : t[i] = IF i < p THEN s[i] ELSE s[i + 1]
  <2>1. /\ t \in Seq(S) /\ Len(t) = Len(a) + Len(b)
        /\ \A i \in 1..(Len(a) + Len(b)) : t[i] = IF i <= Len(a) THEN a[i] ELSE b[i - Len(a)]
    BY <1>2, <1>3, ConcatProperties
  <2> HIDE DEF t
  <2>2. Len(a) + Len(b) = Len(s) - 1  BY <1>1, <1>2, <1>3
  <2>3. ASSUME NEW i \in 1..(Len(s) - 1)  PROVE t[i] = IF i < p THEN s[i] ELSE s[i + 1]
    <3>1. CASE i < p  BY <1>1, <1>2, <2>1, <2>2, <3>1
    <3>2. CASE i >= p
      <4>1. PICK j \in 1..(Len(s) - p) : j = i - (p - 1)  BY <1>1, <3>2
      <4>2. t[i] = b[j]
        <5>1. ~(i <= Len(a)) /\ i - Len(a) = j  BY <1>1, <1>2, <3>2, <4>1
        <5> QED  BY <2>1, <2>2, <5>1
      <4>3. b[j] = s[p + j] /\ p + j = i + 1  BY <1>1, <1>3, <4>1
      <4> QED  BY <1>1, <3>2, <4>2, <4>3
    <3> QED  BY <1>1, <3>1, <3>2
  <2> QED  BY <2>1, <2>2, <2>3
<1>5. RemoveAt(s, p) = t  BY DEF RemoveAt, a, b
<1> HIDE DEF t
<1>6. DOMAIN t = 1..(Len(s) - 1)  BY <1>4, LenProperties
<1>7. IsInjective(t)
  BY <1>1, <1>4, <1>6 DEF IsInjective
<1>8. Range(t) = Range(s) \ {s[p]}
  <2>1. ASSUME NEW x \in Range(t)  PROVE x \in Range(s) \ {s[p]}
    <3>1. PICK i \in 1..(Len(s) - 1) : x = t[i]  BY <1>6 DEF Range
    <3>2. PICK j \in 1..Len(s) : x = s[j] /\ j # p  BY <1>1, <1>4, <3>1
    <3> QED  BY <1>1, <3>2 DEF Range, IsInjective
  <2>2. ASSUME NEW x \in Range(s) \ {s[p]}  PROVE x \in Range(t)
    <3>1. PICK j \in 1..Len(s) : x = s[j] /\ j # p  BY <1>1 DEF Range
    <3>2. PICK i \in 1..(Len(s) - 1) : x = t[i]
      <4>1. CASE j < p  BY <1>1, <1>4, <3>1, <4>1
      <4>2. CASE j > p
        <5>1. j - 1 \in 1..(Len(s) - 1) /\ ~(j - 1 < p) /\ (j - 1) + 1 = j  BY <1>1, <4>2
        <5> QED  BY <1>4, <3>1, <5>1
      <4> QED  BY <1>1, <3>1, <4>1, <4>2
    <3> QED  BY <1>6, <3>2 DEF Range
  <2> QED  BY <2>1, <2>2
<1>9. p # 1 => t # <<>> /\ Head(t) = Head(s)
  <2>1. p # 1 => 1 \in 1..(Len(s) - 1) /\ 1 < p  BY <1>1
  <2>2. p # 1 => Len(t) # 0 /\ t[1] = s[1]  BY <1>1, <1>4, <2>1
  <2>3. p # 1 => t # <<>> /\ s # <<>>  BY <1>1, <1>4, <2>2, EmptySeq
  <2> QED  BY <1>4, <2>2, <2>3
<1> QED  BY <1>4, <1>5, <1>7, <1>8, <1>9

-----------------------------------------------------------------------------
(* The server and the calls.                                               *)

\* All that happens to the two pipes and the calls.
CallEvent(c) ==
  \/ Enter(c) \/ NoServer(c) \/ SendRequest(c) \/ BrokenPipe(c) \/ Hear(c) \/ SkipLine(c)
  \/ Reply(c) \/ Refuse(c) \/ Desync(c) \/ TooLong(c) \/ NotJson(c) \/ EndOfFile(c)
  \/ HangUp(c) \/ Abandon(c)

PipeNext   == \/ TakeRequest \/ PrintLine \/ WriteResult \/ Die
              \/ \E c \in Callers : CallEvent(c)
ServerNext == PipeNext \/ RestartServer

\* Every step of the composition takes one of these, or leaves the server alone.
LEMMA ServerMoves == [Next]_vars => PipeNext \/ (Restart /\ RestartServer) \/ UNCHANGED serverVars
<1> SUFFICES ASSUME [Next]_vars
             PROVE  PipeNext \/ (Restart /\ RestartServer) \/ UNCHANGED serverVars
  OBVIOUS
<1> USE DEF Callers
<1>1. ASSUME NEW c \in Callers, CallSteps(c)  PROVE PipeNext
  BY <1>1 DEF CallSteps, PipeNext, CallEvent
<1>2. CASE Outside
  BY <1>2 DEF Outside, ServerStep, PipeNext, CallEvent, Submit, Park, Resume, Cancel,
              CancelUnheard, Connect, Disconnected, Restart
<1>3. ASSUME NEW c \in Senders, SenderStep(c)  PROVE PipeNext
  BY <1>1, <1>3 DEF SenderStep, PipeNext, CallEvent
<1>4. ASSUME NEW r \in Runs, TaskStep(r)  PROVE PipeNext \/ UNCHANGED serverVars
  BY <1>1, <1>4
  DEF TaskStep, PipeNext, CallEvent, Open, Relay, Answered, Save, Announce, GiveUp, EndCancelled
<1>5. ASSUME NEW w \in Sockets, SocketStep(w)  PROVE UNCHANGED serverVars
  BY <1>5 DEF SocketStep, TrySubscribe, SendChunk, ServeRow
<1>6. CASE UNCHANGED vars  BY <1>6 DEF vars
<1> QED  BY <1>2, <1>3, <1>4, <1>5, <1>6 DEF Next

\* What is in the pipes and counted.
PipesTyped ==
  /\ tracked \in BOOLEAN /\ alive \in BOOLEAN
  /\ asked \in Seq(Callers)
  /\ stdin \in Seq(Ids) /\ stdout \in Seq(Lines)
  /\ working \in Ids /\ printed \in 0..MaxOutput

\* The calls, and the line for the lock.
CallsTyped ==
  /\ line \in Seq(Callers) /\ IsInjective(line)
  /\ call \in [Callers -> {"idle", "waiting", "reading", "answered", "ok", "down"}]
  /\ id \in [Callers -> Ids]
  /\ heard \in [Callers -> Seq(Lines)]
  /\ \A c \in Callers : InCall(c) <=> c \in Range(line)

\* A request can be counted for every call that may still send one.
Awaiting == {c \in Callers : call[c] = "waiting"}
Bounded  == Len(asked) + Cardinality(Awaiting) <= MaxCalls

\* A call that was answered has heard its result.
AnswerHeard == \A c \in Callers : call[c] = "answered" => heard[c] # <<>>

ServerInv == PipesTyped /\ CallsTyped /\ Bounded /\ AnswerHeard

LEMMA TypedIsServerTypeOK == PipesTyped /\ CallsTyped <=> ServerTypeOK
BY DEF PipesTyped, CallsTyped, ServerTypeOK

LEMMA LeaveTyped ==
  ASSUME CallsTyped, NEW c \in Callers, Leave(c)
  PROVE  /\ line' \in Seq(Callers) /\ IsInjective(line')
         /\ Range(line') = Range(line) \ {c}
         /\ id' = [id EXCEPT ![c] = 0] /\ id' \in [Callers -> Ids]
<1>1. PICK p \in DOMAIN line : line[p] = c /\ line' = RemoveAt(line, p)
  BY DEF Leave
<1>2. line \in Seq(Callers) /\ IsInjective(line)  BY DEF CallsTyped
<1>3. 0 \in Ids  BY ServerAssumption DEF Ids
<1> QED  BY <1>1, <1>2, <1>3, RemoveAtProperties DEF Leave, CallsTyped

\* A call that ends leaves the line, and it is no longer in a call.
LEMMA EndKeepsCalls ==
  ASSUME CallsTyped, NEW c \in Callers, Leave(c),
         NEW where \in {"idle", "ok", "down"}, call' = [call EXCEPT ![c] = where],
         NEW lines \in Seq(Lines), heard' = [heard EXCEPT ![c] = lines]
  PROVE  CallsTyped'
<1>1. /\ line' \in Seq(Callers) /\ IsInjective(line')
      /\ Range(line') = Range(line) \ {c} /\ id' \in [Callers -> Ids]
  BY LeaveTyped
<1>2. \A d \in Callers : InCall(d)' <=> d \in Range(line')
  BY <1>1 DEF CallsTyped, InCall
<1> QED  BY <1>1, <1>2 DEF CallsTyped

LEMMA ListTail ==
  ASSUME NEW S, NEW s \in Seq(S), s # <<>>
  PROVE  Head(s) \in S /\ Tail(s) \in Seq(S)
BY HeadTailProperties

LEMMA CallEventCalls ==
  ASSUME PipesTyped, CallsTyped, Bounded, NEW c \in Callers, CallEvent(c)
  PROVE  CallsTyped'
<1> USE DEF InCall
<1>1. <<>> \in Seq(Lines)  BY EmptySeq
<1>2. stdout # <<>> => Append(heard[c], Head(stdout)) \in Seq(Lines)
  BY ListTail, AppendProperties DEF CallsTyped, PipesTyped
<1>3. CASE Enter(c)
  <2>1. line \in Seq(Callers) /\ IsInjective(line) /\ c \notin Range(line)
    BY <1>3 DEF Enter, CallsTyped
  <2>2. line' = Append(line, c)  BY <1>3 DEF Enter
  <2>3. line' \in Seq(Callers) /\ IsInjective(line') /\ Range(line') = Range(line) \cup {c}
    BY <2>1, <2>2, AppendProperties, AppendInjects, AppendRange
  <2>4. call' = [call EXCEPT ![c] = "waiting"] /\ heard' = [heard EXCEPT ![c] = <<>>] /\ id' = id
    BY <1>3 DEF Enter
  <2>5. \A d \in Callers : InCall(d)' <=> d \in Range(line')
    BY <2>3, <2>4 DEF CallsTyped
  <2> QED  BY <1>1, <2>3, <2>4, <2>5 DEF CallsTyped
<1>4. CASE NoServer(c)
  BY <1>4 DEF NoServer, CallsTyped
<1>5. CASE SendRequest(c)
  <2>1. Len(asked) + 1 \in Ids
    <3>1. c \in Awaiting /\ IsFiniteSet(Awaiting)
      BY <1>5, ServerAssumption, FS_Subset DEF SendRequest, Awaiting
    <3>2. Cardinality(Awaiting) >= 1
      BY <3>1, FS_EmptySet, FS_CardinalityType
    <3>3. Len(asked) \in Nat /\ Cardinality(Awaiting) \in Nat
      BY <3>1, LenProperties, FS_CardinalityType DEF PipesTyped
    <3> QED  BY <3>2, <3>3, ServerAssumption DEF Bounded, Ids
  <2>2. /\ call[c] = "waiting" /\ call' = [call EXCEPT ![c] = "reading"]
        /\ id' = [id EXCEPT ![c] = Len(asked) + 1] /\ line' = line /\ heard' = heard
    BY <1>5 DEF SendRequest
  <2> QED  BY <2>1, <2>2 DEF CallsTyped
<1>6. CASE Hear(c) \/ SkipLine(c)
  <2>1. /\ line' = line /\ call' = call /\ id' = id
        /\ heard' = heard \/ (heard' = [heard EXCEPT ![c] = Append(heard[c], Head(stdout))]
                               /\ stdout # <<>>)
    BY <1>6 DEF Hear, SkipLine, OwnOutput, Reads, Kept
  <2> QED  BY <1>2, <2>1 DEF CallsTyped
<1>7. CASE Reply(c) /\ c \in Runs
  <2>1. /\ line' = line /\ call' = [call EXCEPT ![c] = "answered"] /\ id' = id
        /\ call[c] = "reading" /\ stdout # <<>>
        /\ heard' = [heard EXCEPT ![c] = Append(heard[c], Head(stdout))]
    BY <1>7 DEF Reply, Reads, Kept
  <2> QED  BY <1>2, <2>1 DEF CallsTyped
<1>8. CASE Reply(c) /\ c \notin Runs
  <2>1. /\ call' = [call EXCEPT ![c] = "ok"] /\ Leave(c) /\ stdout # <<>>
        /\ heard' = [heard EXCEPT ![c] = Append(heard[c], Head(stdout))]
    BY <1>8 DEF Reply, Reads, Kept
  <2> QED  BY <1>2, <2>1, EndKeepsCalls
<1>9. CASE BrokenPipe(c) \/ Refuse(c) \/ Desync(c) \/ TooLong(c) \/ NotJson(c) \/ EndOfFile(c)
             \/ HangUp(c)
  <2>1. Fail(c)
    BY <1>9 DEF BrokenPipe, Refuse, Desync, TooLong, NotJson, EndOfFile, HangUp
  <2> QED  BY <1>1, <2>1, EndKeepsCalls DEF Fail
<1>10. CASE Abandon(c)
  BY <1>1, <1>10, EndKeepsCalls DEF Abandon
<1> QED
  BY <1>3, <1>4, <1>5, <1>6, <1>7, <1>8, <1>9, <1>10 DEF CallEvent

LEMMA CountAwaiting == IsFiniteSet(Awaiting) /\ Cardinality(Awaiting) \in Nat
BY ServerAssumption, FS_Subset, FS_CardinalityType DEF Awaiting

\* Nobody starts to wait: the bound is kept, also by a call that sends instead.
LEMMA BoundedKept ==
  ASSUME PipesTyped, CallsTyped, Bounded, NEW c \in Callers,
         \A d \in Callers : call'[d] = "waiting" => call[d] = "waiting",
         \/ asked' = asked
         \/ asked' = Append(asked, c) /\ call[c] = "waiting" /\ call'[c] # "waiting"
  PROVE  Bounded'
<1> DEFINE rest == {d \in Callers : call'[d] = "waiting"}
<1>1. Awaiting' = rest /\ rest \subseteq Awaiting  BY DEF Awaiting
<1>2. IsFiniteSet(Awaiting) /\ Cardinality(Awaiting) \in Nat  BY CountAwaiting
<1>3. Cardinality(rest) \in Nat /\ Cardinality(rest) <= Cardinality(Awaiting)
  BY <1>1, <1>2, FS_Subset, FS_CardinalityType
<1>4. Len(asked) \in Nat /\ MaxCalls \in Nat  BY LenProperties, ServerAssumption DEF PipesTyped
<1>5. CASE asked' = asked
  BY <1>1, <1>2, <1>3, <1>4, <1>5 DEF Bounded
<1>6. CASE asked' = Append(asked, c) /\ call[c] = "waiting" /\ call'[c] # "waiting"
  <2>1. c \in Awaiting /\ rest \subseteq Awaiting \ {c}  BY <1>1, <1>6 DEF Awaiting
  <2>2. Cardinality(Awaiting \ {c}) = Cardinality(Awaiting) - 1 /\ IsFiniteSet(Awaiting \ {c})
    BY <1>2, <2>1, FS_RemoveElement
  <2>3. Cardinality(rest) <= Cardinality(Awaiting \ {c})  BY <2>1, <2>2, FS_Subset
  <2>4. Len(asked') = Len(asked) + 1  BY <1>6, AppendProperties DEF PipesTyped
  <2> QED  BY <1>1, <1>2, <1>3, <1>4, <2>2, <2>3, <2>4 DEF Bounded
<1> QED  BY <1>5, <1>6

LEMMA CallEventBounded ==
  ASSUME PipesTyped, CallsTyped, Bounded, NEW c \in Callers, CallEvent(c)
  PROVE  Bounded'
<1>1. CASE Enter(c)
  <2> DEFINE more == {d \in Callers : call'[d] = "waiting"}
  <2>1. more = Awaiting \cup {c} /\ c \notin Awaiting
    BY <1>1 DEF Enter, Awaiting, CallsTyped
  <2>2. Cardinality(more) = Cardinality(Awaiting) + 1
    BY <2>1, CountAwaiting, FS_AddElement
  <2>3. Len(asked) + Cardinality(Awaiting) < MaxCalls /\ asked' = asked
    BY <1>1 DEF Enter, Awaiting
  <2>4. Awaiting' = more  BY DEF Awaiting
  <2>5. Len(asked) \in Nat /\ MaxCalls \in Nat  BY LenProperties, ServerAssumption DEF PipesTyped
  <2> HIDE DEF more
  <2> QED  BY <2>2, <2>3, <2>4, <2>5, CountAwaiting DEF Bounded
<1>2. CASE ~Enter(c)
  <2>1. /\ \A d \in Callers : call'[d] = "waiting" => call[d] = "waiting"
        /\ \/ asked' = asked
           \/ asked' = Append(asked, c) /\ call[c] = "waiting" /\ call'[c] # "waiting"
    <3>1. CASE SendRequest(c)  BY <3>1 DEF SendRequest, CallsTyped
    <3>2. CASE BrokenPipe(c)  BY <3>2 DEF BrokenPipe, Fail, CallsTyped
    <3>3. CASE NoServer(c) \/ Hear(c) \/ SkipLine(c) \/ Reply(c) \/ Abandon(c)
      BY <3>3 DEF NoServer, Hear, SkipLine, Reply, Abandon, Taken, CallsTyped
    <3>4. CASE Refuse(c) \/ Desync(c) \/ TooLong(c) \/ NotJson(c) \/ EndOfFile(c) \/ HangUp(c)
      BY <3>4 DEF Refuse, Desync, TooLong, NotJson, EndOfFile, HangUp, Fail, Taken, CallsTyped
    <3> QED  BY <1>2, <3>1, <3>2, <3>3, <3>4 DEF CallEvent
  <2> QED  BY <2>1, BoundedKept
<1> QED  BY <1>1, <1>2

LEMMA CallEventPipes ==
  ASSUME PipesTyped, CallsTyped, Bounded, NEW c \in Callers, CallEvent(c)
  PROVE  PipesTyped'
<1>1. stdout # <<>> => Head(stdout) \in Lines /\ Tail(stdout) \in Seq(Lines)
  BY ListTail DEF PipesTyped
<1>2. Append(asked, c) \in Seq(Callers)  BY AppendProperties DEF PipesTyped
<1>3. CASE SendRequest(c)
  <2>1. CallsTyped' /\ id'[c] = Len(asked) + 1
    BY <1>3, CallEventCalls DEF CallEvent, SendRequest, CallsTyped
  <2>2. Len(asked) + 1 \in Ids  BY <2>1 DEF CallsTyped
  <2>3. Append(stdin, Len(asked) + 1) \in Seq(Ids)  BY <2>2, AppendProperties DEF PipesTyped
  <2> QED  BY <1>2, <1>3, <2>3 DEF SendRequest, PipesTyped
<1>4. CASE BrokenPipe(c)
  BY <1>2, <1>4 DEF BrokenPipe, Stop, pipesIdle, PipesTyped
<1>5. CASE Hear(c) \/ SkipLine(c) \/ Reply(c) \/ Refuse(c) \/ Desync(c) \/ NotJson(c)
  <2>1. stdout # <<>> /\ stdout' = Tail(stdout) /\ pipesIdle /\ asked' = asked
    BY <1>5
    DEF Hear, SkipLine, Reply, Refuse, Desync, NotJson, OwnOutput, Reads, Taken
  <2>2. tracked' \in {tracked, FALSE}
    BY <1>5 DEF Hear, SkipLine, Reply, Refuse, Desync, NotJson, Stop
  <2> QED  BY <1>1, <2>1, <2>2 DEF pipesIdle, PipesTyped
<1>6. CASE TooLong(c)
  <2>1. stdout # <<>>  BY <1>6 DEF TooLong, Reads
  <2> DEFINE rest == [Head(stdout) EXCEPT !.kind = "tail"]
  <2>2. rest \in Lines  BY <1>1, <2>1 DEF Lines
  <2> HIDE DEF rest
  <2>3. <<rest>> \in Seq(Lines)  BY <2>2
  <2>4. <<rest>> \o Tail(stdout) \in Seq(Lines)  BY <1>1, <2>1, <2>3, ConcatProperties
  <2>5. stdout' \in {Tail(stdout), <<rest>> \o Tail(stdout)}  BY <1>6 DEF TooLong, rest
  <2>6. stdout' \in Seq(Lines)  BY <1>1, <2>1, <2>4, <2>5
  <2> QED  BY <1>6, <2>6 DEF TooLong, pipesIdle, PipesTyped
<1>7. CASE Enter(c) \/ NoServer(c) \/ EndOfFile(c) \/ HangUp(c) \/ Abandon(c)
  BY <1>7 DEF Enter, NoServer, EndOfFile, HangUp, Abandon, Stop, pipesIdle, PipesTyped
<1> QED  BY <1>3, <1>4, <1>5, <1>6, <1>7 DEF CallEvent

LEMMA ProcessTyped ==
  ASSUME PipesTyped, CallsTyped, TakeRequest \/ PrintLine \/ WriteResult \/ Die
  PROVE  PipesTyped' /\ UNCHANGED <<line, call, id, asked, heard>>
<1>1. CASE TakeRequest
  BY <1>1, ListTail DEF TakeRequest, processIdle, PipesTyped
<1>2. MaxOutput \in Nat /\ 0 \in Ids /\ 0 \in 0..MaxOutput  BY ServerAssumption DEF Ids
<1>3. ASSUME NEW kind \in {"output", "result", "tooLong"}, NEW n \in 0..MaxOutput,
             stdout' = Append(stdout, [kind |-> kind, of |-> working, n |-> n])
      PROVE  stdout' \in Seq(Lines)
  <2>1. [kind |-> kind, of |-> working, n |-> n] \in Lines  BY DEF Lines, PipesTyped
  <2> QED  BY <1>3, <2>1, AppendProperties DEF PipesTyped
<1>4. CASE PrintLine
  <2>1. printed + 1 \in 0..MaxOutput /\ printed' = printed + 1
    BY <1>2, <1>4 DEF PrintLine, PipesTyped
  <2>2. stdout' = Append(stdout, [kind |-> "output", of |-> working, n |-> printed + 1])
    BY <1>4, <2>1 DEF PrintLine, Write
  <2>3. stdout' \in Seq(Lines)  BY <1>3, <2>1, <2>2
  <2> QED  BY <1>4, <2>1, <2>3 DEF PrintLine, processIdle, PipesTyped
<1>5. CASE WriteResult
  <2>1. PICK kind \in {"result", "tooLong"} : Write(kind, printed)  BY <1>5 DEF WriteResult
  <2>2. stdout' \in Seq(Lines)  BY <1>3, <2>1 DEF Write, PipesTyped
  <2>3. working' = 0 /\ printed' = 0 /\ processIdle /\ UNCHANGED <<alive, stdin>>
    BY <1>5 DEF WriteResult
  <2> QED  BY <1>2, <2>2, <2>3 DEF processIdle, PipesTyped
<1>6. CASE Die
  BY <1>2, <1>6, EmptySeq DEF Die, processIdle, PipesTyped
<1> QED  BY <1>1, <1>4, <1>5, <1>6

LEMMA RestartTyped ==
  ASSUME RestartServer
  PROVE  ServerInv'
<1>1. 0 \in Ids /\ 0 \in 0..MaxOutput /\ MaxCalls \in Nat  BY ServerAssumption DEF Ids
<1>2. PipesTyped'  BY <1>1, EmptySeq DEF RestartServer, PipesTyped
<1>3. CallsTyped'
  <2>1. <<>> \in Seq(Callers) /\ <<>> \in Seq(Lines)  BY EmptySeq
  <2>2. DOMAIN <<>> = {}  OBVIOUS
  <2>3. IsInjective(<<>>) /\ Range(<<>>) = {}  BY <2>2 DEF IsInjective, Range
  <2> QED  BY <1>1, <2>1, <2>3 DEF RestartServer, CallsTyped, InCall
<1>4. Bounded'
  <2>1. Awaiting' = {}  BY DEF RestartServer, Awaiting
  <2> QED  BY <1>1, <2>1, FS_EmptySet, EmptySeq DEF RestartServer, Bounded
<1>5. AnswerHeard'  BY DEF RestartServer, AnswerHeard
<1> QED  BY <1>2, <1>3, <1>4, <1>5 DEF ServerInv

LEMMA CallEventHeard ==
  ASSUME PipesTyped, CallsTyped, AnswerHeard, NEW c \in Callers, CallEvent(c)
  PROVE  AnswerHeard'
<1>1. ASSUME NEW d \in Callers, d # c  PROVE call'[d] = call[d] /\ heard'[d] = heard[d]
  BY <1>1
  DEF CallEvent, Enter, NoServer, SendRequest, BrokenPipe, Hear, SkipLine, Reply, Kept, Refuse,
      Desync, TooLong, NotJson, EndOfFile, HangUp, Abandon, Fail, CallsTyped
<1>2. call'[c] = "answered" => heard'[c] # <<>>
  <2>1. CASE Reply(c)
    <3>1. stdout # <<>> /\ heard' = [heard EXCEPT ![c] = Append(heard[c], Head(stdout))]
      BY <2>1 DEF Reply, Reads, Kept
    <3>2. Append(heard[c], Head(stdout)) # <<>>
      BY <3>1, ListTail, AppendProperties DEF CallsTyped, PipesTyped
    <3> QED  BY <3>1, <3>2 DEF CallsTyped
  <2>2. CASE ~Reply(c)
    BY <2>2
    DEF CallEvent, Enter, NoServer, SendRequest, BrokenPipe, Hear, SkipLine, OwnOutput, Reads,
        Refuse, Desync, TooLong, NotJson, EndOfFile, HangUp, Abandon, Fail, CallsTyped, AnswerHeard
  <2> QED  BY <2>1, <2>2
<1> QED  BY <1>1, <1>2 DEF AnswerHeard

LEMMA ServerStays ==
  ASSUME ServerInv, ServerNext \/ UNCHANGED serverVars
  PROVE  ServerInv'
<1> USE DEF ServerInv
<1>1. ASSUME NEW c \in Callers, CallEvent(c)  PROVE ServerInv'
  BY <1>1, CallEventCalls, CallEventBounded, CallEventPipes, CallEventHeard
<1>2. CASE UNCHANGED <<line, call, id, asked, heard>> /\ PipesTyped'
  BY <1>2 DEF CallsTyped, InCall, Bounded, Awaiting, AnswerHeard
<1>3. CASE UNCHANGED serverVars
  <2>1. PipesTyped'  BY <1>3 DEF serverVars, PipesTyped
  <2> QED  BY <1>2, <1>3, <2>1 DEF serverVars
<1> QED  BY <1>1, <1>2, <1>3, ProcessTyped, RestartTyped DEF ServerNext, PipeNext

-----------------------------------------------------------------------------
(* The tasks, the channels and the sockets.                                *)

Stages == {"idle", "fresh", "opening", "streaming", "saving", "saved", "failing", "cancelled",
           "parked", "ended"}

\* Where a task is agrees with where its call is.
Fits(r) == /\ call[r] \in {"waiting", "reading"} <=> stage[r] = "streaming"
           /\ call[r] = "answered" <=> stage[r] \in {"saving", "saved"}

TasksTyped ==
  /\ stage \in [Runs -> Stages]
  /\ row \in [Runs -> Statuses] /\ stored \in [Runs -> Ids]
  /\ channel \in [Runs -> Seq(Chunks) \cup {NoChannel}]
  /\ said \in [Runs -> Seq(Chunks)]
  /\ \A r \in Runs : Fits(r)

SocketsTyped ==
  /\ at \in [Sockets -> {"idle", "accepted", "live", "late", "closed"}]
  /\ left \in [Sockets -> Seq(Chunks)] /\ queue \in [Sockets -> Seq(Chunks)]
  /\ shown \in [Sockets -> Seq(Chunks)]
  /\ \A w \in Sockets : at[w] \in {"idle", "accepted", "late"} =>
       left[w] = <<>> /\ queue[w] = <<>> /\ shown[w] = <<>>

\* A channel holds all that was said; a run without one has said nothing or
\* has said its last word.
ChannelKept ==
  \A r \in Runs :
    /\ channel[r] # NoChannel => channel[r] = said[r] /\ stage[r] # "ended"
    /\ channel[r] = NoChannel /\ stage[r] # "ended" => said[r] = <<>>

\* What is announced was saved before, and an ended run writes no more.
SavedFirst ==
  \A r \in Runs :
    /\ stage[r] = "saved" => row[r] = "completed" /\ stored[r] = id[r]
    /\ stage[r] # "ended" => \A k \in Range(said[r]) : k.type # "done"

ChannelInv ==
  TasksTyped /\ SocketsTyped /\ ChannelKept /\ ContinuousOutput /\ SavedFirst /\ OutcomeIsCommitted

LEMMA TypedIsTypeOK == ServerInv /\ TasksTyped /\ SocketsTyped => TypeOK
BY TypedIsServerTypeOK DEF TypeOK, ServerInv, TasksTyped, SocketsTyped, Stages, Fits

\* What a step does to the stages and rows: of one run, or of none.
Others(r) == \A s \in Runs \ {r} : stage'[s] = stage[s] /\ row'[s] = row[s]
                                   /\ stored'[s] = stored[s] /\ id'[s] = id[s]

SocketNext ==
  /\ UNCHANGED <<serverVars, taskVars>>
  /\ \E w \in Sockets : Connect(w) \/ TrySubscribe(w) \/ SendChunk(w) \/ Disconnected(w)
                        \/ ServeRow(w)
Mute(r) ==
  /\ Silent /\ Others(r)
  /\ stage'[r] = "ended" <=> stage[r] = "ended"
  /\ stage[r] = "ended" => row'[r] = row[r] /\ stored'[r] = stored[r]
  /\ stage'[r] = "saved" => row'[r] = "completed" /\ stored'[r] = id'[r]
Speaks(r, chunk) ==
  /\ Broadcast(r, chunk) /\ Others(r)
  /\ stage[r] # "ended" /\ stage'[r] \notin {"saved", "ended"} /\ chunk.type # "done"
Ends(r, chunk) ==
  /\ LastWord(r, chunk) /\ Others(r)
  /\ stage[r] # "ended" /\ stage'[r] = "ended"
  /\ chunk.type = "done" => stage[r] = "saved" /\ chunk.of = id[r] /\ UNCHANGED <<row, stored>>
Hushes(r) ==
  /\ Hush(r) /\ Others(r)
  /\ stage[r] # "ended" /\ stage'[r] = "ended"

ChannelNext ==
  \/ UNCHANGED vars \/ Restart \/ SocketNext
  \/ Silent /\ stage' = stage /\ row' = row /\ stored' = stored
       /\ \A r \in Runs : stage[r] = "saved" => id'[r] = id[r]
  \/ \E r \in Runs : Mute(r) \/ Hushes(r) \/ \E chunk \in Chunks : Speaks(r, chunk) \/ Ends(r, chunk)

\* What happens to a call leaves the others as they are.
LEMMA CallEventOthers ==
  ASSUME CallsTyped, NEW c \in Callers, CallEvent(c)
  PROVE  \A d \in Callers \ {c} : call'[d] = call[d] /\ id'[d] = id[d] /\ heard'[d] = heard[d]
BY DEF CallEvent, Kept, Enter, NoServer, SendRequest, BrokenPipe, Hear, SkipLine, Reply, Reads, Refuse,
   OwnOutput, Desync, TooLong, NotJson, EndOfFile, HangUp, Abandon, Fail, Leave, CallsTyped

\* Where the call of a task goes when the task moves.
LEMMA CallSent ==
  ASSUME CallsTyped, NEW c \in Callers
  PROVE  /\ Enter(c) => call[c] = "idle" /\ call'[c] = "waiting"
         /\ NoServer(c) => call[c] = "idle" /\ call'[c] = "down"
         /\ SendRequest(c) \/ SkipLine(c) \/ Hear(c) =>
              call[c] \in {"waiting", "reading"} /\ call'[c] \in {"waiting", "reading"}
         /\ BrokenPipe(c) \/ TooLong(c) \/ NotJson(c) \/ EndOfFile(c) \/ Refuse(c) \/ HangUp(c)
              \/ Desync(c) =>
              call[c] \in {"waiting", "reading"} /\ call'[c] = "down"
         /\ Reply(c) => call[c] = "reading" /\ call'[c] = IF c \in Runs THEN "answered" ELSE "ok"
         /\ Abandon(c) => call[c] \in {"waiting", "reading", "answered"} /\ call'[c] = "idle"
<1>1. Abandon(c) => c \in Range(line)
  BY DEF Abandon, Leave, Range
<1> QED
  BY <1>1 DEF Enter, NoServer, SendRequest, BrokenPipe, Hear, SkipLine, Reply, Reads, Refuse,
     OwnOutput, Desync, TooLong, NotJson, EndOfFile, HangUp, Abandon, Fail, CallsTyped, InCall

\* The rows and the stages after a step of one run.
RowsTyped == /\ stage \in [Runs -> Stages] /\ row \in [Runs -> Statuses] /\ stored \in [Runs -> Ids]
             /\ \A r \in Runs : Fits(r)

Acts(r) ==
  \/ Mute(r) \/ Hushes(r)
  \/ \E chunk \in Chunks : Speaks(r, chunk) \/ Ends(r, chunk)

\* A step of a run that leaves the others alone: what is to be shown of it.
LEMMA ActSuffices ==
  ASSUME TasksTyped, CallsTyped, NEW r \in Runs,
         UNCHANGED serverVars \/ CallEvent(r),
         NEW s \in Stages, stage' = [stage EXCEPT ![r] = s],
         NEW u \in Statuses, row' \in {row, [row EXCEPT ![r] = u]},
         NEW i \in Ids, stored' \in {stored, [stored EXCEPT ![r] = i]},
         Fits(r)'
  PROVE  RowsTyped' /\ Others(r)
<1>1. \A d \in Runs \ {r} : call'[d] = call[d] /\ id'[d] = id[d]
  BY CallEventOthers DEF serverVars, Callers
<1>2. \A d \in Runs \ {r} : stage'[d] = stage[d] /\ row'[d] = row[d] /\ stored'[d] = stored[d]
  BY DEF TasksTyped
<1>3. \A d \in Runs \ {r} : Fits(d)'  BY <1>1, <1>2 DEF TasksTyped, Fits
<1>4. stage' \in [Runs -> Stages] /\ row' \in [Runs -> Statuses] /\ stored' \in [Runs -> Ids]
  BY DEF TasksTyped
<1> QED  BY <1>1, <1>2, <1>3, <1>4 DEF RowsTyped, Others

LEMMA TaskActs ==
  ASSUME ServerInv, TasksTyped, SavedFirst, NEW r \in Runs,
         TaskStep(r) \/ Submit(r) \/ Park(r) \/ Resume(r) \/ Cancel(r) \/ CancelUnheard(r)
           \/ (HangUp(r) /\ Go(r, "failing") /\ Silent /\ UNCHANGED <<row, stored>>)
  PROVE  RowsTyped' /\ Acts(r)
<1> USE DEF Go, Stages, Statuses
<1>1. r \in Callers /\ 0 \in Ids /\ 0 \in 0..MaxOutput  BY ServerAssumption DEF Callers, Ids
<1>2. CallsTyped /\ PipesTyped /\ AnswerHeard /\ Fits(r) /\ stage[r] \in Stages /\ id[r] \in Ids
  BY <1>1 DEF ServerInv, TasksTyped, CallsTyped
<1>3. \A type \in Types : Plain(type) \in Chunks  BY <1>1 DEF Plain, Chunk, Chunks
<1>4. ASSUME NEW c \in {r}, CallEvent(c), call'[c] = "down", stage[c] # "ended",
             Go(c, "failing"), Silent, UNCHANGED <<row, stored>>
      PROVE  RowsTyped' /\ Acts(r)
  <2>1. Fits(r)'  BY <1>2, <1>4 DEF Fits, TasksTyped
  <2>2. RowsTyped' /\ Others(r)  BY <1>2, <1>4, <2>1, ActSuffices
  <2> QED  BY <1>2, <1>4, <2>2 DEF Acts, Mute, Silent, socketVars, TasksTyped
<1>5. CASE Submit(r)
  <2>1. Fits(r)'  BY <1>2, <1>5 DEF Submit, Fits, serverVars, TasksTyped
  <2>2. RowsTyped' /\ Others(r)  BY <1>2, <1>5, <2>1, ActSuffices DEF Submit, TasksTyped
  <2> QED  BY <1>2, <1>5, <2>2 DEF Submit, Acts, Mute, Silent, socketVars, TasksTyped
<1>6. CASE Open(r) /\ Enter(r) /\ Go(r, "streaming")
  <2>1. Fits(r)'  BY <1>1, <1>2, <1>6, CallSent DEF Fits, TasksTyped
  <2>2. RowsTyped' /\ Others(r)
    BY <1>2, <1>6, <2>1, ActSuffices DEF Open, CallEvent, TasksTyped
  <2> QED  BY <1>2, <1>6, <2>2 DEF Open, Acts, Mute, Silent, socketVars, TasksTyped
<1>7. CASE Open(r) /\ NoServer(r) /\ Go(r, "failing")
  <2>1. call'[r] = "down"  BY <1>1, <1>2, <1>7, CallSent
  <2> QED  BY <1>4, <1>7, <2>1 DEF Open, CallEvent
<1>8. CASE Relay(r)
  <2>1. /\ call[r] \in {"waiting", "reading"} /\ call'[r] \in {"waiting", "reading"}
        /\ stage[r] = "streaming" /\ stage' = [stage EXCEPT ![r] = "streaming"]
        /\ UNCHANGED <<row, stored>>
    BY <1>1, <1>2, <1>8, CallSent DEF Relay, Fits, TasksTyped
  <2>2. Fits(r)'  BY <2>1 DEF Fits, TasksTyped
  <2>3. RowsTyped' /\ Others(r)
    BY <1>2, <1>8, <2>1, <2>2, ActSuffices DEF Relay, CallEvent
  <2>4. Head(stdout) \in Lines
    BY <1>2, <1>8, ListTail DEF Relay, Hear, OwnOutput, Reads, PipesTyped
  <2> DEFINE chunk == Chunk("output", Head(stdout).of, Head(stdout).n)
  <2>5. chunk \in Chunks /\ chunk.type # "done"  BY <2>4 DEF Lines, Chunk, Chunks, Types
  <2>6. Broadcast(r, chunk)  BY <1>8 DEF Relay
  <2>7. stage'[r] = "streaming"  BY <2>1 DEF TasksTyped
  <2> HIDE DEF chunk
  <2> QED  BY <2>1, <2>3, <2>5, <2>6, <2>7 DEF Acts, Speaks
<1>9. CASE CallSteps(r) /\ (SendRequest(r) \/ SkipLine(r)) /\ Idle(r)
  <2>1. /\ call[r] \in {"waiting", "reading"} /\ call'[r] \in {"waiting", "reading"}
        /\ stage[r] = "streaming" /\ stage' = [stage EXCEPT ![r] = "streaming"]
        /\ UNCHANGED <<row, stored>>
    BY <1>1, <1>2, <1>9, CallSent DEF Idle, Fits, TasksTyped
  <2>2. Fits(r)'  BY <2>1 DEF Fits, TasksTyped
  <2>3. RowsTyped' /\ Others(r)
    BY <1>2, <1>9, <2>1, <2>2, ActSuffices DEF CallEvent
  <2> QED  BY <1>9, <2>1, <2>3 DEF Idle, Acts, Mute, Silent, socketVars, TasksTyped
<1>10. CASE CallSteps(r) /\ (BrokenPipe(r) \/ TooLong(r) \/ NotJson(r) \/ EndOfFile(r) \/ Refuse(r))
            /\ Go(r, "failing") /\ Silent /\ UNCHANGED <<row, stored>>
  <2>1. call'[r] = "down" /\ stage[r] # "ended"
    BY <1>1, <1>2, <1>10, CallSent DEF Fits
  <2> QED  BY <1>4, <1>10, <2>1 DEF CallEvent
<1>11. CASE HangUp(r) /\ Go(r, "failing") /\ Silent /\ UNCHANGED <<row, stored>>
  <2>1. call'[r] = "down" /\ stage[r] # "ended"
    BY <1>1, <1>2, <1>11, CallSent DEF Fits
  <2> QED  BY <1>4, <1>11, <2>1 DEF CallEvent
<1>12. CASE Answered(r)
  <2>1. call[r] = "reading" /\ call'[r] = "answered"
    BY <1>1, <1>2, <1>12, CallSent DEF Answered
  <2>2. Fits(r)'  BY <1>12, <2>1 DEF Answered, Fits, TasksTyped
  <2>3. RowsTyped' /\ Others(r)
    BY <1>2, <1>12, <2>2, ActSuffices DEF Answered, CallEvent, TasksTyped
  <2>4. stage[r] = "streaming" /\ stage'[r] = "saving" /\ Silent
    BY <1>2, <1>12, <2>1 DEF Answered, Fits, TasksTyped
  <2> QED  BY <2>3, <2>4 DEF Acts, Mute, Silent, socketVars
<1>13. CASE Save(r) /\ UNCHANGED serverVars
  <2>1. call[r] = "answered"  BY <1>2, <1>13 DEF Save, Fits
  <2>2. ~Abandon(r)  BY <1>1, <1>2, <1>13, <2>1, CallSent DEF serverVars
  <2>3. Fits(r)'  BY <1>13, <2>1, <2>2 DEF Save, serverVars, Fits, TasksTyped
  <2>4. RowsTyped' /\ Others(r)
    BY <1>2, <1>13, <2>2, <2>3, ActSuffices DEF Save, TasksTyped
  <2> QED
    BY <1>2, <1>13, <2>2, <2>4
    DEF Save, Acts, Mute, Silent, socketVars, serverVars, TasksTyped
<1>14. CASE Save(r) /\ Go(r, "failing") /\ Abandon(r) /\ UNCHANGED <<row, stored>>
  <2>1. call'[r] = "idle"  BY <1>1, <1>2, <1>14, CallSent
  <2>2. Fits(r)'  BY <1>14, <2>1 DEF Fits, TasksTyped
  <2>3. RowsTyped' /\ Others(r)
    BY <1>2, <1>14, <2>2, ActSuffices DEF CallEvent
  <2> QED  BY <1>14, <2>3 DEF Save, Acts, Mute, Silent, socketVars, TasksTyped
<1>15. CASE Announce(r)
  <2>1. call'[r] = "idle" /\ call[r] = "answered"
    BY <1>1, <1>2, <1>15, CallSent DEF Announce, Fits
  <2>2. Fits(r)'  BY <1>15, <2>1 DEF Announce, Fits, TasksTyped
  <2>3. RowsTyped' /\ Others(r)
    BY <1>2, <1>15, <2>2, ActSuffices DEF Announce, CallEvent
  <2>4. Last(heard[r]) \in Lines
    <3>1. heard[r] \in Seq(Lines) /\ heard[r] # <<>>
      BY <1>1, <1>2, <2>1 DEF AnswerHeard, CallsTyped
    <3>2. Len(heard[r]) \in 1..Len(heard[r])  BY <3>1, EmptySeq, LenProperties
    <3> QED  BY <3>1, <3>2, ElementOfSeq DEF Last
  <2> DEFINE chunk == Chunk("done", id[r], Last(heard[r]).n)
  <2>5. chunk \in Chunks /\ chunk.of = id[r]
    BY <1>2, <2>4 DEF Lines, Chunk, Chunks, Types
  <2>6. LastWord(r, chunk) /\ stage[r] = "saved" /\ UNCHANGED <<row, stored>>
    BY <1>15 DEF Announce
  <2>7. stage'[r] = "ended"  BY <1>15 DEF Announce, TasksTyped
  <2> HIDE DEF chunk
  <2> QED  BY <2>3, <2>5, <2>6, <2>7 DEF Acts, Ends
<1>16. CASE GiveUp(r)
  <2>1. Fits(r)'  BY <1>2, <1>16 DEF GiveUp, Fits, serverVars, TasksTyped
  <2>2. RowsTyped' /\ Others(r)
    BY <1>2, <1>16, <2>1, ActSuffices DEF GiveUp, Record
  <2>3. Plain("error") \in Chunks /\ Plain("error").type # "done"
    BY <1>3 DEF Types, Plain, Chunk
  <2>4. stage[r] # "ended" /\ stage'[r] = "ended" /\ LastWord(r, Plain("error"))
    BY <1>16 DEF GiveUp, TasksTyped
  <2> QED  BY <2>2, <2>3, <2>4 DEF Acts, Ends
<1>17. CASE Park(r)
  <2>1. call'[r] = "idle"  BY <1>1, <1>2, <1>17, CallSent DEF Park
  <2>2. Fits(r)'  BY <1>17, <2>1 DEF Park, Fits, TasksTyped
  <2>3. RowsTyped' /\ Others(r)
    BY <1>2, <1>17, <2>2, ActSuffices DEF Park, CallEvent, Record
  <2>4. Plain("timeout") \in Chunks /\ Plain("timeout").type # "done"
    BY <1>3 DEF Types, Plain, Chunk
  <2>5. stage[r] # "ended" /\ stage'[r] = "parked" /\ Broadcast(r, Plain("timeout"))
    BY <1>17 DEF Park, TasksTyped
  <2> QED  BY <2>3, <2>4, <2>5 DEF Acts, Speaks
<1>18. CASE Resume(r)
  <2>1. Fits(r)'  BY <1>2, <1>18 DEF Resume, Fits, serverVars, TasksTyped
  <2>2. RowsTyped' /\ Others(r)
    BY <1>2, <1>18, <2>1, ActSuffices DEF Resume, Record
  <2>3. Plain("started") \in Chunks /\ Plain("started").type # "done"
    BY <1>3 DEF Types, Plain, Chunk
  <2>4. stage[r] # "ended" /\ stage'[r] = "opening" /\ Broadcast(r, Plain("started"))
    BY <1>18 DEF Resume, TasksTyped
  <2> QED  BY <2>2, <2>3, <2>4 DEF Acts, Speaks
<1>19. CASE Cancel(r)
  <2>1. Fits(r)'
    <3>1. CASE InCall(r)
      BY <1>1, <1>2, <1>19, <3>1, CallSent DEF Cancel, Fits, TasksTyped
    <3>2. CASE ~InCall(r)
      BY <1>2, <1>19, <3>2 DEF Cancel, Fits, InCall, serverVars, TasksTyped
    <3> QED  BY <3>1, <3>2
  <2>2. RowsTyped' /\ Others(r)
    BY <1>2, <1>19, <2>1, ActSuffices DEF Cancel, CallEvent
  <2>3. /\ stage[r] # "ended" /\ stage'[r] = "cancelled"
        /\ Silent /\ row' = row /\ stored' = stored
    BY <1>19 DEF Cancel, TasksTyped
  <2> QED  BY <2>2, <2>3 DEF Acts, Mute
<1>20. CASE EndCancelled(r)
  <2>1. Fits(r)'  BY <1>2, <1>20 DEF EndCancelled, Fits, serverVars, TasksTyped
  <2>2. RowsTyped' /\ Others(r)
    BY <1>2, <1>20, <2>1, ActSuffices DEF EndCancelled, Record
  <2>3. Plain("killed") \in Chunks /\ Plain("killed").type # "done"
    BY <1>3 DEF Types, Plain, Chunk
  <2>4. stage[r] # "ended" /\ stage'[r] = "ended" /\ LastWord(r, Plain("killed"))
    BY <1>20 DEF EndCancelled, TasksTyped
  <2> QED  BY <2>2, <2>3, <2>4 DEF Acts, Ends
<1>21. CASE CancelUnheard(r)
  <2>1. Fits(r)'  BY <1>2, <1>21 DEF CancelUnheard, Fits, serverVars, TasksTyped
  <2>2. /\ UNCHANGED serverVars /\ stage' = [stage EXCEPT ![r] = "ended"]
        /\ \E u \in Statuses : row' \in {row, [row EXCEPT ![r] = u]}
        /\ stored' = stored
    BY <1>21 DEF CancelUnheard, Record
  <2>3. RowsTyped' /\ Others(r)  BY <1>2, <2>1, <2>2, ActSuffices
  <2>4. stage[r] # "ended" /\ stage'[r] = "ended" /\ Hush(r)
    BY <1>21 DEF CancelUnheard, TasksTyped
  <2> QED  BY <2>3, <2>4 DEF Acts, Hushes
<1> QED
  BY <1>5, <1>6, <1>7, <1>8, <1>9, <1>10, <1>11, <1>12, <1>13, <1>14, <1>15, <1>16, <1>17, <1>18,
     <1>19, <1>20, <1>21 DEF TaskStep, Open, CallSteps, Save

\* Every step: a restart, one of a socket, one that the runs do not see, or one
\* of a single run.
LEMMA ChannelMoves ==
  ASSUME ServerInv, TasksTyped, SavedFirst, [Next]_vars
  PROVE  ChannelNext /\ RowsTyped'
<1> USE DEF ChannelNext
<1>0. CallsTyped /\ RowsTyped  BY DEF ServerInv, TasksTyped, RowsTyped
<1>1. ASSUME NEW r \in Runs,
             TaskStep(r) \/ Submit(r) \/ Park(r) \/ Resume(r) \/ Cancel(r) \/ CancelUnheard(r)
               \/ (HangUp(r) /\ Go(r, "failing") /\ Silent /\ UNCHANGED <<row, stored>>)
      PROVE  ChannelNext /\ RowsTyped'
  BY <1>1, TaskActs DEF Acts
<1>2. ASSUME UNCHANGED taskVars, UNCHANGED socketVars, \A r \in Runs : call'[r] = call[r] /\ id'[r] = id[r]
      PROVE  ChannelNext /\ RowsTyped'
  BY <1>0, <1>2 DEF taskVars, socketVars, Silent, RowsTyped, Fits
<1>3. ASSUME NEW c \in Senders, SenderStep(c) \/ (HangUp(c) /\ Idle(c))
      PROVE  ChannelNext /\ RowsTyped'
  <2>1. c \in Callers /\ c \notin Runs  BY ServerAssumption DEF Callers
  <2>2. CallEvent(c) /\ Silent /\ UNCHANGED <<stage, row, stored>>
    BY <1>3, <2>1 DEF SenderStep, CallSteps, CallEvent, Idle
  <2>3. \A r \in Runs : call'[r] = call[r] /\ id'[r] = id[r]
    BY <1>0, <2>1, <2>2, CallEventOthers DEF Callers
  <2> QED  BY <1>2, <2>2, <2>3 DEF Silent, taskVars
<1>4. CASE (ServerStep \/ Die) /\ UNCHANGED <<taskVars, socketVars>>
  BY <1>2, <1>4 DEF ServerStep, TakeRequest, PrintLine, WriteResult, Die, processIdle
<1>5. CASE Restart
  <2>1. stage' \in [Runs -> Stages] /\ row' \in [Runs -> Statuses]
    BY <1>5 DEF Restart, TasksTyped, Stages, Statuses
  <2>2. stored' \in [Runs -> Ids]  BY <1>5, ServerAssumption DEF Restart, Ids
  <2>3. \A r \in Runs : Fits(r)'
    BY <1>5 DEF Restart, RestartServer, Fits, Callers, TasksTyped, Stages
  <2> QED  BY <1>5, <2>1, <2>2, <2>3 DEF RowsTyped
<1>6. ASSUME NEW w \in Sockets, Connect(w) \/ Disconnected(w) \/ SocketStep(w)
      PROVE  ChannelNext /\ RowsTyped'
  <2>1. UNCHANGED <<serverVars, taskVars>>
    BY <1>6 DEF Connect, Disconnected, SocketStep, TrySubscribe, SendChunk, ServeRow
  <2>2. SocketNext  BY <1>6, <2>1 DEF SocketNext, SocketStep
  <2> QED  BY <1>0, <2>1, <2>2 DEF serverVars, taskVars, RowsTyped, Fits
<1>7. CASE UNCHANGED vars
  BY <1>0, <1>7 DEF vars, serverVars, taskVars, RowsTyped, Fits
<1>8. CASE Outside
  BY <1>1, <1>3, <1>4, <1>5, <1>6, <1>8 DEF Outside
<1> QED  BY <1>1, <1>3, <1>6, <1>7, <1>8 DEF Next

\* A chunk that is posted: what is then in the channel and said.
LEMMA Posted ==
  ASSUME TasksTyped, ChannelKept, NEW r \in Runs, NEW chunk \in Chunks, stage[r] # "ended",
         said' = [said EXCEPT ![r] = Append(@, chunk)]
  PROVE  /\ Replay(r) = said[r] /\ said[r] \in Seq(Chunks)
         /\ said'[r] = Append(said[r], chunk) /\ said'[r] \in Seq(Chunks)
         /\ Append(said[r], chunk) # NoChannel
         /\ Range(said'[r]) = Range(said[r]) \cup {chunk}
         /\ \A s \in Runs \ {r} : said'[s] = said[s]
<1>1. said[r] \in Seq(Chunks) /\ said'[r] = Append(said[r], chunk)  BY DEF TasksTyped
<1>2. Append(said[r], chunk) \in Seq(Chunks)  BY <1>1, AppendProperties
<1>3. Replay(r) = said[r]  BY DEF Replay, ChannelKept
<1>4. Range(said'[r]) = Range(said[r]) \cup {chunk}  BY <1>1, AppendRange
<1>5. \A s \in Runs \ {r} : said'[s] = said[s]  BY DEF TasksTyped
<1> QED  BY <1>1, <1>2, <1>3, <1>4, <1>5, NoChannelAssumption

LEMMA ChannelTypedStays ==
  ASSUME TasksTyped, ChannelKept, ChannelNext, RowsTyped'
  PROVE  TasksTyped' /\ ChannelKept'
<1> USE DEF RowsTyped
<1>1. ASSUME channel' = channel, said' = said, \A r \in Runs : stage'[r] = "ended" <=> stage[r] = "ended"
      PROVE  TasksTyped' /\ ChannelKept'
  BY <1>1 DEF TasksTyped, ChannelKept
<1>2. CASE Restart
  BY <1>2, EmptySeq DEF Restart, TasksTyped, ChannelKept
<1>3. CASE UNCHANGED vars \/ SocketNext
            \/ (Silent /\ stage' = stage /\ row' = row /\ stored' = stored)
  BY <1>1, <1>3 DEF vars, taskVars, SocketNext, Silent
<1>4. ASSUME NEW r \in Runs, Mute(r)  PROVE TasksTyped' /\ ChannelKept'
  BY <1>1, <1>4 DEF Mute, Others, Silent
<1>5. ASSUME NEW r \in Runs, NEW chunk \in Chunks, Speaks(r, chunk)
      PROVE  TasksTyped' /\ ChannelKept'
  <2>1. /\ channel' = [channel EXCEPT ![r] = Append(Replay(r), chunk)]
        /\ said' = [said EXCEPT ![r] = Append(@, chunk)]
        /\ stage[r] # "ended" /\ stage'[r] # "ended" /\ \A s \in Runs \ {r} : stage'[s] = stage[s]
    BY <1>5 DEF Speaks, Broadcast, Others
  <2>2. /\ Replay(r) = said[r] /\ said'[r] = Append(said[r], chunk)
        /\ said'[r] \in Seq(Chunks) /\ Append(said[r], chunk) # NoChannel
    BY <2>1, Posted
  <2>3. channel'[r] = said'[r] /\ channel'[r] # NoChannel  BY <2>1, <2>2 DEF TasksTyped
  <2>4. \A s \in Runs \ {r} : channel'[s] = channel[s] /\ said'[s] = said[s]
    BY <2>1 DEF TasksTyped
  <2>5. channel' \in [Runs -> Seq(Chunks) \cup {NoChannel}] /\ said' \in [Runs -> Seq(Chunks)]
    BY <2>1, <2>2 DEF TasksTyped
  <2> QED  BY <2>1, <2>3, <2>4, <2>5 DEF TasksTyped, ChannelKept
<1>6. ASSUME NEW r \in Runs, NEW chunk \in Chunks, Ends(r, chunk)
      PROVE  TasksTyped' /\ ChannelKept'
  <2>1. /\ channel' = [channel EXCEPT ![r] = NoChannel]
        /\ said' = [said EXCEPT ![r] = Append(@, chunk)]
        /\ stage[r] # "ended" /\ stage'[r] = "ended" /\ \A s \in Runs \ {r} : stage'[s] = stage[s]
    BY <1>6 DEF Ends, LastWord, Others
  <2>2. said'[r] \in Seq(Chunks) /\ said'[r] = Append(said[r], chunk)  BY <2>1, Posted
  <2>3. \A s \in Runs \ {r} : channel'[s] = channel[s] /\ said'[s] = said[s]
    BY <2>1 DEF TasksTyped
  <2>4. channel'[r] = NoChannel  BY <2>1 DEF TasksTyped
  <2>5. channel' \in [Runs -> Seq(Chunks) \cup {NoChannel}] /\ said' \in [Runs -> Seq(Chunks)]
    BY <2>1, <2>2 DEF TasksTyped
  <2> QED  BY <2>1, <2>3, <2>4, <2>5 DEF TasksTyped, ChannelKept
<1>7. ASSUME NEW r \in Runs, Hushes(r)  PROVE TasksTyped' /\ ChannelKept'
  <2>1. /\ channel' = [channel EXCEPT ![r] = NoChannel] /\ said' = said
        /\ stage'[r] = "ended" /\ \A s \in Runs \ {r} : stage'[s] = stage[s]
    BY <1>7 DEF Hushes, Hush, Others
  <2>2. /\ channel'[r] = NoChannel /\ \A s \in Runs \ {r} : channel'[s] = channel[s]
        /\ channel' \in [Runs -> Seq(Chunks) \cup {NoChannel}]
    BY <2>1 DEF TasksTyped
  <2> QED  BY <2>1, <2>2 DEF TasksTyped, ChannelKept
<1> QED  BY <1>2, <1>3, <1>4, <1>5, <1>6, <1>7 DEF ChannelNext

\* A result is saved before the run says so.
LEMMA OutcomeStays ==
  ASSUME ServerInv, TasksTyped, ChannelKept, SavedFirst, OutcomeIsCommitted, ChannelNext
  PROVE  SavedFirst' /\ OutcomeIsCommitted'
<1>1. ASSUME said' = said, stage' = stage, row' = row, stored' = stored,
             \A r \in Runs : stage[r] = "saved" => id'[r] = id[r]
      PROVE  SavedFirst' /\ OutcomeIsCommitted'
  BY <1>1 DEF SavedFirst, OutcomeIsCommitted
<1>2. CASE UNCHANGED vars \/ SocketNext
            \/ (Silent /\ stage' = stage /\ row' = row /\ stored' = stored
                  /\ \A r \in Runs : stage[r] = "saved" => id'[r] = id[r])
  BY <1>1, <1>2 DEF vars, taskVars, serverVars, SocketNext, Silent
<1>3. CASE Restart
  <2>1. \A r \in Runs : Range(said'[r]) = {}  BY <1>3 DEF Restart, Range
  <2>2. \A r \in Runs : stage'[r] # "saved"  BY <1>3 DEF Restart
  <2> QED  BY <2>1, <2>2 DEF SavedFirst, OutcomeIsCommitted
<1>4. ASSUME NEW r \in Runs, Mute(r)  PROVE SavedFirst' /\ OutcomeIsCommitted'
  <2>1. said' = said /\ Others(r)  BY <1>4 DEF Mute, Silent
  <2>2. \A k \in Range(said[r]) : k.type = "done" => stage[r] = "ended"  BY DEF SavedFirst
  <2>3. SavedFirst'  BY <1>4, <2>1 DEF SavedFirst, Mute, Others
  <2>4. ASSUME NEW s \in Runs, NEW k \in Range(said[s]), k.type = "done"
        PROVE  row'[s] = "completed" /\ stored'[s] = k.of
    <3>1. row[s] = "completed" /\ stored[s] = k.of  BY <2>4 DEF OutcomeIsCommitted
    <3>2. row'[s] = row[s] /\ stored'[s] = stored[s]
      BY <1>4, <2>1, <2>2, <2>4 DEF Mute, Others
    <3> QED  BY <3>1, <3>2
  <2> QED  BY <2>1, <2>3, <2>4 DEF OutcomeIsCommitted
<1>5. ASSUME NEW r \in Runs, NEW chunk \in Chunks, Speaks(r, chunk)
      PROVE  SavedFirst' /\ OutcomeIsCommitted'
  <2>1. /\ said' = [said EXCEPT ![r] = Append(@, chunk)] /\ Others(r)
        /\ stage[r] # "ended" /\ stage'[r] \notin {"saved", "ended"} /\ chunk.type # "done"
    BY <1>5 DEF Speaks, Broadcast
  <2>2. /\ Range(said'[r]) = Range(said[r]) \cup {chunk}
        /\ \A s \in Runs \ {r} : said'[s] = said[s]
    BY <2>1, Posted
  <2>3. \A k \in Range(said'[r]) : k.type # "done"  BY <2>1, <2>2 DEF SavedFirst
  <2> QED  BY <2>1, <2>2, <2>3 DEF SavedFirst, OutcomeIsCommitted, Others
<1>6. ASSUME NEW r \in Runs, NEW chunk \in Chunks, Ends(r, chunk)
      PROVE  SavedFirst' /\ OutcomeIsCommitted'
  <2>1. /\ said' = [said EXCEPT ![r] = Append(@, chunk)] /\ Others(r)
        /\ stage[r] # "ended" /\ stage'[r] = "ended"
        /\ chunk.type = "done" => stage[r] = "saved" /\ chunk.of = id[r] /\ UNCHANGED <<row, stored>>
    BY <1>6 DEF Ends, LastWord
  <2>2. /\ Range(said'[r]) = Range(said[r]) \cup {chunk}
        /\ \A s \in Runs \ {r} : said'[s] = said[s]
    BY <2>1, Posted
  <2>3. \A k \in Range(said'[r]) : k.type = "done" => row'[r] = "completed" /\ stored'[r] = k.of
    BY <2>1, <2>2 DEF SavedFirst
  <2> QED  BY <2>1, <2>2, <2>3 DEF SavedFirst, OutcomeIsCommitted, Others
<1>7. ASSUME NEW r \in Runs, Hushes(r)  PROVE SavedFirst' /\ OutcomeIsCommitted'
  <2>1. said' = said /\ Others(r) /\ stage[r] # "ended" /\ stage'[r] = "ended"
    BY <1>7 DEF Hushes, Hush
  <2> QED  BY <2>1 DEF SavedFirst, OutcomeIsCommitted, Others
<1> QED  BY <1>2, <1>3, <1>4, <1>5, <1>6, <1>7 DEF ChannelNext

LEMMA ConcatAppend ==
  ASSUME NEW S, NEW s \in Seq(S), NEW t \in Seq(S), NEW u \in Seq(S), NEW e \in S
  PROVE  s \o (t \o Append(u, e)) = Append(s \o (t \o u), e)
<1> DEFINE x == <<e>>
<1>1. x \in Seq(S) /\ t \o u \in Seq(S) /\ s \o (t \o u) \in Seq(S)  BY ConcatProperties
<1>2. \A v \in Seq(S) : Append(v, e) = v \o x  BY AppendIsConcat
<1> HIDE DEF x
<1>3. (s \o (t \o u)) \o x = s \o ((t \o u) \o x)
  <2> DEFINE v == t \o u
  <2>1. v \in Seq(S)  BY <1>1
  <2> HIDE DEF v
  <2>2. (s \o v) \o x = s \o (v \o x)  BY <1>1, <2>1, ConcatAssociative
  <2> QED  BY <2>2 DEF v
<1>4. (t \o u) \o x = t \o (u \o x)  BY <1>1, ConcatAssociative
<1> QED  BY <1>1, <1>2, <1>3, <1>4

LEMMA HeadConcatTail ==
  ASSUME NEW S, NEW s \in Seq(S), s # <<>>
  PROVE  s = <<Head(s)>> \o Tail(s) /\ <<Head(s)>> \in Seq(S)
<1> DEFINE h == <<Head(s)>>
           t == h \o Tail(s)
<1>1. /\ Head(s) \in S /\ Tail(s) \in Seq(S) /\ Len(Tail(s)) = Len(s) - 1 /\ Len(s) \in Nat
      /\ \A i \in 1..Len(Tail(s)) : Tail(s)[i] = s[i + 1]
  BY HeadTailProperties, LenProperties
<1>2. h \in Seq(S) /\ Len(h) = 1 /\ h[1] = s[1]  BY <1>1
<1> HIDE DEF h
<1>3. /\ t \in Seq(S) /\ Len(t) = Len(s)
      /\ \A i \in 1..Len(s) : t[i] = IF i <= 1 THEN h[i] ELSE Tail(s)[i - 1]
  <2>1. /\ t \in Seq(S) /\ Len(t) = Len(h) + Len(Tail(s))
        /\ \A i \in 1..(Len(h) + Len(Tail(s))) :
             t[i] = IF i <= Len(h) THEN h[i] ELSE Tail(s)[i - Len(h)]
    <3> DEFINE u == Tail(s)
    <3>1. u \in Seq(S)  BY <1>1
    <3> HIDE DEF u
    <3>2. /\ h \o u \in Seq(S) /\ Len(h \o u) = Len(h) + Len(u)
          /\ \A i \in 1..(Len(h) + Len(u)) : (h \o u)[i] = IF i <= Len(h) THEN h[i] ELSE u[i - Len(h)]
      BY <1>2, <3>1, ConcatProperties
    <3> QED  BY <3>2 DEF u
  <2> HIDE DEF t
  <2>2. Len(h) + Len(Tail(s)) = Len(s)  BY <1>1, <1>2
  <2> QED  BY <1>2, <2>1, <2>2
<1> HIDE DEF t
<1>4. ASSUME NEW i \in 1..Len(s)  PROVE t[i] = s[i]
  <2>1. CASE i = 1  BY <1>2, <1>3, <2>1
  <2>2. CASE i # 1
    <3>1. PICK j \in 1..Len(Tail(s)) : j = i - 1  BY <1>1, <2>2
    <3>2. t[i] = Tail(s)[j] /\ j + 1 = i  BY <1>1, <1>3, <2>2, <3>1
    <3> QED  BY <1>1, <3>2
  <2> QED  BY <2>1, <2>2
<1>5. t = s  BY <1>3, <1>4, SeqEqual
<1> QED  BY <1>2, <1>5 DEF t, h

\* What is sent goes from the front of what is pending to the end of what was sent.
LEMMA SendKeeps ==
  ASSUME NEW S, NEW s \in Seq(S), NEW t \in Seq(S), t # <<>>
  PROVE  Append(s, Head(t)) \o Tail(t) = s \o t
<1> DEFINE h == <<Head(t)>>
<1>1. Head(t) \in S /\ Tail(t) \in Seq(S) /\ h \in Seq(S) /\ t = h \o Tail(t)
  BY HeadTailProperties, HeadConcatTail
<1>2. Append(s, Head(t)) = s \o h  BY <1>1, AppendIsConcat
<1> HIDE DEF h
<1>3. (s \o h) \o Tail(t) = s \o (h \o Tail(t))  BY <1>1, ConcatAssociative
<1> QED  BY <1>1, <1>2, <1>3

\* Of two sequences in a row the first comes first.
LEMMA FrontOfTwo ==
  ASSUME NEW S, NEW s \in Seq(S), NEW t \in Seq(S)
  PROVE  /\ s # <<>> => s \o t # <<>> /\ Head(s \o t) = Head(s) /\ Tail(s \o t) = Tail(s) \o t
         /\ s = <<>> => s \o t = t
<1>1. CASE s = <<>>  BY <1>1, ConcatEmptySeq
<1>2. CASE s # <<>>
  <2> DEFINE h == <<Head(s)>>
             u == Tail(s)
             v == s \o t
  <2>1. Head(s) \in S /\ u \in Seq(S) /\ h \in Seq(S) /\ s = h \o u
    BY <1>2, HeadTailProperties, HeadConcatTail
  <2>2. v \in Seq(S) /\ v # <<>> /\ Len(v) = Len(s) + Len(t) /\ Len(s) \in Nat \ {0} /\ Len(t) \in Nat
        /\ v[1] = s[1]
    <3>1. Len(s) \in Nat \ {0} /\ Len(t) \in Nat  BY <1>2, EmptySeq, LenProperties
    <3>2. v \in Seq(S) /\ Len(v) = Len(s) + Len(t) /\ v[1] = s[1]
      BY <3>1, ConcatProperties
    <3>3. v # <<>>  BY <3>1, <3>2, EmptySeq
    <3> QED  BY <3>1, <3>2, <3>3
  <2>3. v = h \o (u \o t)
    <3> HIDE DEF h, u
    <3>1. (h \o u) \o t = h \o (u \o t)  BY <2>1, ConcatAssociative
    <3> QED  BY <2>1, <3>1 DEF v
  <2>4. v = <<Head(v)>> \o Tail(v) /\ <<Head(v)>> \in Seq(S) /\ Tail(v) \in Seq(S)
    BY <2>2, HeadConcatTail, HeadTailProperties
  <2>5. Head(v) = Head(s)
    BY <1>2, <2>2
  <2>6. u \o t \in Seq(S)  BY <2>1, ConcatProperties
  <2>7. Tail(v) = u \o t
    <3>1. h \o Tail(v) = h \o (u \o t)  BY <2>3, <2>4, <2>5
    <3> QED  BY <2>1, <2>4, <2>6, <3>1, ConcatSimplifications
  <2> QED  BY <1>2, <2>2, <2>5, <2>7
<1> QED  BY <1>1, <1>2

\* A chunk that is posted reaches every subscriber of its run, and no other.
LEMMA FollowKeeps ==
  ASSUME TasksTyped, SocketsTyped, ContinuousOutput, NEW r \in Runs, NEW chunk \in Chunks,
         Follow(r, chunk), UNCHANGED <<at, left, shown>>,
         said' = [said EXCEPT ![r] = Append(@, chunk)]
  PROVE  SocketsTyped' /\ ContinuousOutput'
<1>1. queue' = [w \in Sockets |-> IF w \in Subscribers(r) THEN Append(queue[w], chunk) ELSE queue[w]]
  BY DEF Follow
<1>2. \A w \in Sockets : Append(queue[w], chunk) \in Seq(Chunks)
  BY AppendProperties DEF SocketsTyped
<1>3. SocketsTyped'  BY <1>1, <1>2 DEF SocketsTyped, Subscribers
<1>4. ASSUME NEW w \in Sockets, at'[w] = "live"
      PROVE  shown'[w] \o (left'[w] \o queue'[w]) = said'[Watches[w]]
  <2>1. /\ shown[w] \o (left[w] \o queue[w]) = said[Watches[w]] /\ at[w] = "live"
        /\ shown'[w] = shown[w] /\ left'[w] = left[w]
    BY <1>4 DEF ContinuousOutput, Pending
  <2>2. CASE Watches[w] = r
    <3>1. queue'[w] = Append(queue[w], chunk)  BY <1>1, <2>1, <2>2 DEF Subscribers
    <3>2. said'[r] = Append(said[r], chunk)  BY DEF TasksTyped
    <3>3. shown[w] \o (left[w] \o Append(queue[w], chunk))
            = Append(shown[w] \o (left[w] \o queue[w]), chunk)
      BY ConcatAppend DEF SocketsTyped
    <3> QED  BY <2>1, <2>2, <3>1, <3>2, <3>3
  <2>3. CASE Watches[w] # r
    <3>1. queue'[w] = queue[w]  BY <1>1, <2>3 DEF Subscribers
    <3>2. said'[Watches[w]] = said[Watches[w]]
      BY <2>3, ChannelAssumption DEF TasksTyped
    <3> QED  BY <2>1, <3>1, <3>2
  <2> QED  BY <2>2, <2>3
<1> QED  BY <1>3, <1>4 DEF ContinuousOutput, Pending

\* What one socket does, the channels being as they are.
LEMMA SocketKeeps ==
  ASSUME TasksTyped, SocketsTyped, ChannelKept, ContinuousOutput, SocketNext
  PROVE  SocketsTyped' /\ ContinuousOutput'
<1>1. said' = said /\ channel' = channel  BY DEF SocketNext, taskVars
<1>2. PICK w \in Sockets : Connect(w) \/ TrySubscribe(w) \/ SendChunk(w) \/ Disconnected(w)
                           \/ ServeRow(w)
  BY DEF SocketNext
<1>3. /\ left[w] \in Seq(Chunks) /\ queue[w] \in Seq(Chunks) /\ shown[w] \in Seq(Chunks)
      /\ Watches[w] \in Runs /\ <<>> \in Seq(Chunks)
  BY ChannelAssumption, EmptySeq DEF SocketsTyped
<1>4. \A v \in Sockets : at[v] = "live" => shown[v] \o (left[v] \o queue[v]) = said[Watches[v]]
  BY DEF ContinuousOutput, Pending
<1> SUFFICES SocketsTyped' /\ \A v \in Sockets :
               at'[v] = "live" => shown'[v] \o (left'[v] \o queue'[v]) = said[Watches[v]]
  BY <1>1 DEF ContinuousOutput, Pending
<1>5. CASE Connect(w)
  BY <1>4, <1>5 DEF Connect, SocketsTyped
<1>6. CASE TrySubscribe(w) /\ channel[Watches[w]] = NoChannel
  BY <1>4, <1>6 DEF TrySubscribe, SocketsTyped
<1>7. CASE TrySubscribe(w) /\ channel[Watches[w]] # NoChannel
  <2>1. /\ at[w] = "accepted" /\ at' = [at EXCEPT ![w] = "live"]
        /\ left' = [left EXCEPT ![w] = channel[Watches[w]]] /\ queue' = queue /\ shown' = shown
    BY <1>7 DEF TrySubscribe
  <2>2. channel[Watches[w]] = said[Watches[w]] /\ said[Watches[w]] \in Seq(Chunks)
    BY <1>3, <1>7 DEF ChannelKept, TasksTyped
  <2>3. <<>> \o (said[Watches[w]] \o <<>>) = said[Watches[w]]
    BY <2>2, ConcatEmptySeq
  <2>4. queue[w] = <<>> /\ shown[w] = <<>>  BY <2>1 DEF SocketsTyped
  <2>5. shown'[w] \o (left'[w] \o queue'[w]) = said[Watches[w]]
    BY <2>1, <2>2, <2>3, <2>4 DEF SocketsTyped
  <2>6. SocketsTyped'  BY <2>1, <2>2 DEF SocketsTyped
  <2> QED  BY <1>4, <2>1, <2>5, <2>6 DEF SocketsTyped
<1>8. CASE SendChunk(w)
  <2> DEFINE p == left[w] \o queue[w]
  <2>1. p \in Seq(Chunks)  BY <1>3, ConcatProperties
  <2>2. /\ at[w] = "live" /\ p # <<>> /\ shown' = [shown EXCEPT ![w] = Append(@, Head(p))]
        /\ at' \in {at, [at EXCEPT ![w] = "closed"]}
        /\ IF left[w] # <<>>
             THEN left' = [left EXCEPT ![w] = Tail(@)] /\ queue' = queue
             ELSE queue' = [queue EXCEPT ![w] = Tail(@)] /\ left' = left
    BY <1>8 DEF SendChunk, Pending
  <2> HIDE DEF p
  <2>3. Head(p) \in Chunks /\ Append(shown[w], Head(p)) \in Seq(Chunks)
    BY <1>3, <2>1, <2>2, HeadTailProperties, AppendProperties
  <2>4. Append(shown[w], Head(p)) \o Tail(p) = shown[w] \o p
    BY <1>3, <2>1, <2>2, SendKeeps
  <2>5. /\ left'[w] \in Seq(Chunks) /\ queue'[w] \in Seq(Chunks)
        /\ left'[w] \o queue'[w] = Tail(p)
    <3>1. CASE left[w] # <<>>
      <4>1. left'[w] = Tail(left[w]) /\ queue'[w] = queue[w] /\ Tail(left[w]) \in Seq(Chunks)
        BY <1>3, <2>2, <3>1, HeadTailProperties DEF SocketsTyped
      <4>2. Tail(p) = Tail(left[w]) \o queue[w]  BY <1>3, <3>1, FrontOfTwo DEF p
      <4> QED  BY <1>3, <4>1, <4>2
    <3>2. CASE left[w] = <<>>
      <4>1. p = queue[w]  BY <1>3, <3>2, FrontOfTwo DEF p
      <4>2. queue'[w] = Tail(queue[w]) /\ left'[w] = <<>> /\ Tail(queue[w]) \in Seq(Chunks)
        BY <1>3, <2>2, <3>2, <4>1, HeadTailProperties DEF SocketsTyped
      <4>3. <<>> \o Tail(queue[w]) = Tail(queue[w])  BY <4>2, ConcatEmptySeq
      <4> QED  BY <1>3, <4>1, <4>2, <4>3
    <3> QED  BY <3>1, <3>2
  <2>6. shown'[w] = Append(shown[w], Head(p))  BY <2>2 DEF SocketsTyped
  <2>7. shown'[w] \o (left'[w] \o queue'[w]) = said[Watches[w]]
    BY <1>4, <2>2, <2>4, <2>5, <2>6 DEF p
  <2>8. \A v \in Sockets \ {w} : /\ at'[v] = at[v] /\ shown'[v] = shown[v]
                                 /\ left'[v] = left[v] /\ queue'[v] = queue[v]
    BY <2>2 DEF SocketsTyped
  <2>9. SocketsTyped'
    <3>1. at'[w] \in {"live", "closed"}  BY <2>2 DEF SocketsTyped
    <3>2. /\ DOMAIN at' = Sockets /\ at' = [v \in Sockets |-> at'[v]]
          /\ shown' = [v \in Sockets |-> shown'[v]]
          /\ left' = [v \in Sockets |-> left'[v]] /\ queue' = [v \in Sockets |-> queue'[v]]
      BY <2>2 DEF SocketsTyped
    <3>3. \A v \in Sockets : /\ shown'[v] \in Seq(Chunks) /\ left'[v] \in Seq(Chunks)
                             /\ queue'[v] \in Seq(Chunks)
                             /\ at'[v] \in {"idle", "accepted", "live", "late", "closed"}
      BY <2>3, <2>5, <2>6, <2>8, <3>1 DEF SocketsTyped
    <3>4. \A v \in Sockets : at'[v] \in {"idle", "accepted", "late"} =>
            left'[v] = <<>> /\ queue'[v] = <<>> /\ shown'[v] = <<>>
      BY <2>8, <3>1 DEF SocketsTyped
    <3> QED  BY <3>2, <3>3, <3>4 DEF SocketsTyped
  <2> QED  BY <1>4, <2>7, <2>8, <2>9
<1>9. CASE Disconnected(w)
  BY <1>3, <1>4, <1>9 DEF Disconnected, SocketsTyped
<1>10. CASE ServeRow(w)
  <2> DEFINE chunk == Chunk("done", stored[Watches[w]], 0)
  <2>1. chunk \in Chunks
    BY <1>3, ServerAssumption DEF Chunk, Chunks, Types, TasksTyped
  <2>2. /\ at' = [at EXCEPT ![w] = "closed"] /\ shown' = [shown EXCEPT ![w] = Append(@, chunk)]
        /\ left' = left /\ queue' = queue
    BY <1>10 DEF ServeRow
  <2> HIDE DEF chunk
  <2>3. Append(shown[w], chunk) \in Seq(Chunks)  BY <1>3, <2>1, AppendProperties
  <2> QED  BY <1>4, <2>2, <2>3 DEF SocketsTyped
<1> QED  BY <1>2, <1>5, <1>6, <1>7, <1>8, <1>9, <1>10

LEMMA SocketsStay ==
  ASSUME TasksTyped, SocketsTyped, ChannelKept, ContinuousOutput, ChannelNext
  PROVE  SocketsTyped' /\ ContinuousOutput'
<1>1. ASSUME UNCHANGED socketVars, said' = said  PROVE SocketsTyped' /\ ContinuousOutput'
  BY <1>1 DEF socketVars, SocketsTyped, ContinuousOutput, Pending
<1>2. CASE Restart
  BY <1>2, EmptySeq DEF Restart, SocketsTyped, ContinuousOutput
<1>3. ASSUME NEW r \in Runs, NEW chunk \in Chunks, Speaks(r, chunk) \/ Ends(r, chunk)
      PROVE  SocketsTyped' /\ ContinuousOutput'
  <2>1. /\ Follow(r, chunk) /\ UNCHANGED <<at, left, shown>>
        /\ said' = [said EXCEPT ![r] = Append(@, chunk)]
    BY <1>3 DEF Speaks, Ends, Broadcast, LastWord
  <2> QED  BY <2>1, FollowKeeps
<1> QED  BY <1>1, <1>2, <1>3, SocketKeeps
     DEF ChannelNext, Silent, Mute, Hushes, Hush, vars, taskVars
-----------------------------------------------------------------------------
(* The theorems.                                                           *)

ServerAndChannels == ServerInv /\ ChannelInv

LEMMA StartsRight == Init => ServerAndChannels
<1> SUFFICES ASSUME Init PROVE ServerAndChannels  OBVIOUS
<1>1. 0 \in Ids /\ 0 \in 0..MaxOutput /\ MaxCalls \in Nat  BY ServerAssumption DEF Ids
<1>2. PipesTyped /\ AnswerHeard
  BY <1>1, EmptySeq DEF Init, ServerInit, PipesTyped, AnswerHeard
<1>3. CallsTyped
  <2>1. <<>> \in Seq(Callers) /\ <<>> \in Seq(Lines)  BY EmptySeq
  <2>2. IsInjective(<<>>) /\ Range(<<>>) = {}  BY DEF IsInjective, Range
  <2> QED  BY <1>1, <2>1, <2>2 DEF Init, ServerInit, CallsTyped, InCall
<1>4. Bounded
  <2>1. Awaiting = {}  BY DEF Init, ServerInit, Awaiting
  <2> QED  BY <1>1, <2>1, FS_EmptySet, EmptySeq DEF Init, ServerInit, Bounded
<1>5. TasksTyped
  BY <1>1, EmptySeq DEF Init, ServerInit, TasksTyped, Stages, Statuses, Fits, Callers
<1>6. SocketsTyped /\ ContinuousOutput
  BY EmptySeq DEF Init, SocketsTyped, ContinuousOutput
<1>7. \A r \in Runs : Range(said[r]) = {}  BY DEF Init, Range
<1>8. ChannelKept /\ SavedFirst /\ OutcomeIsCommitted
  BY <1>7 DEF Init, ChannelKept, SavedFirst, OutcomeIsCommitted
<1> QED
  BY <1>2, <1>3, <1>4, <1>5, <1>6, <1>8 DEF ServerAndChannels, ServerInv, ChannelInv

LEMMA StaysRight == ServerAndChannels /\ [Next]_vars => ServerAndChannels'
<1> SUFFICES ASSUME ServerAndChannels, [Next]_vars PROVE ServerAndChannels'  OBVIOUS
<1> USE DEF ServerAndChannels, ChannelInv
<1>1. ServerInv'  BY ServerMoves, ServerStays DEF ServerNext
<1>2. ChannelNext /\ RowsTyped'  BY ChannelMoves
<1>3. TasksTyped' /\ ChannelKept'  BY <1>2, ChannelTypedStays
<1>4. SavedFirst' /\ OutcomeIsCommitted'  BY <1>2, OutcomeStays
<1>5. SocketsTyped' /\ ContinuousOutput'  BY <1>2, SocketsStay
<1> QED  BY <1>1, <1>3, <1>4, <1>5

\* The inductive invariant: the pipes, the calls, the line for the lock and the
\* bound on requests; stages that agree with calls; channels that hold what was
\* said; sockets that lack none of it; outcomes saved before they are announced.
THEOREM ChannelInvariant == Spec => []ServerAndChannels
BY StartsRight, StaysRight, PTL DEF Spec

\* The calls, tasks, channels and sockets have their types; the calls that are in
\* progress are those in the line for the lock of the server, each once, and a
\* task is saving a result exactly while its call holds the lock with an answer
\* (subprocess_manager.py, stream_tool_call; service.py, _execute).
THEOREM StreamsTyped == Spec => []TypeOK
<1>1. ServerAndChannels => TypeOK
  BY TypedIsTypeOK DEF ServerAndChannels, ChannelInv
<1> QED  BY <1>1, ChannelInvariant, PTL

\* Whenever a browser subscribes, what it was sent and what is queued for it is
\* all the run ever said, once and in order (router.py, "continuous output").
THEOREM SubscribersMissNothing == Spec => []ContinuousOutput
<1>1. ServerAndChannels => ContinuousOutput  BY DEF ServerAndChannels, ChannelInv
<1> QED  BY <1>1, ChannelInvariant, PTL

\* A run that said "done" has its own result in the row for good: no late failure,
\* kill or resumption comes after the announcement (service.py:985-997).
THEOREM AnnouncedIsCommitted == Spec => []OutcomeIsCommitted
<1>1. ServerAndChannels => OutcomeIsCommitted  BY DEF ServerAndChannels, ChannelInv
<1> QED  BY <1>1, ChannelInvariant, PTL
-----------------------------------------------------------------------------
(* The lines in the pipe, and what a reader makes of them.                 *)

\* Requests are worked on in the order in which they were made.
Numbered ==
  /\ \A q \in DOMAIN stdin : stdin[q] \in 1..Len(asked) /\ working < stdin[q]
  /\ \A p, q \in DOMAIN stdin : p < q => stdin[p] < stdin[q]
  /\ working <= Len(asked) /\ (working = 0 => printed = 0)

\* The lines of a request come together, after those of the requests before it,
\* and nothing of it comes after its result.
InTurn ==
  \A p \in DOMAIN stdout :
    LET Before(i) == IF stdout[p].kind = "output" THEN stdout[p].of <= i ELSE stdout[p].of < i
    IN  /\ stdout[p].of \in 1..Len(asked)
        /\ \A q \in DOMAIN stdin : stdout[p].of < stdin[q]
        /\ working # 0 => Before(working)
        /\ \A q \in DOMAIN stdout : p < q => Before(stdout[q].of)

Counts(l, n) == l.n = IF l.kind = "output" THEN n + 1 ELSE n

\* They count up without a gap, and the result has their number.
NoGaps ==
  /\ \A p \in DOMAIN stdout :
       p + 1 \in DOMAIN stdout /\ stdout[p + 1].of = stdout[p].of =>
         Counts(stdout[p + 1], stdout[p].n)
  /\ stdout # <<>> /\ working # 0 /\ stdout[Len(stdout)].of = working =>
       stdout[Len(stdout)].n = printed

\* A call has a request while it holds the lock, and hears nothing of others.
Owned ==
  \A c \in Callers :
    /\ id[c] # 0 <=> call[c] \in {"reading", "answered"}
    /\ call[c] \in {"reading", "answered"} => Holds(c)
    /\ id[c] # 0 => id[c] \in 1..Len(asked) /\ asked[id[c]] = c
    /\ \A k \in Range(heard[c]) : k.of \in 1..Len(asked) /\ asked[k.of] = c
    /\ call[c] = "waiting" => heard[c] = <<>>

\* The next line of its request is the one after those it has heard.
InStep ==
  \A r \in Runs : call[r] = "reading" =>
    /\ \A p \in DOMAIN stdout :
         stdout[p].of = id[r] /\ (p = 1 \/ stdout[p - 1].of # id[r]) =>
           Counts(stdout[p], Len(heard[r]))
    /\ working = id[r] /\ (stdout = <<>> \/ stdout[Len(stdout)].of # id[r]) =>
         printed = Len(heard[r])
    /\ id[r] \in Range(stdin) => heard[r] = <<>>

PipeInv == Numbered /\ InTurn /\ NoGaps /\ Owned /\ InStep

\* What a run has said of its request is what its call has heard.
SaidAsHeard ==
  \A r \in Runs :
    /\ \A k \in Range(said[r]) :
         /\ k.type = "output" => k.of \in 1..Len(asked) /\ asked[k.of] = r
         /\ k.type = "done" => Tells(said[r], k.of, k.n)
    /\ call[r] = "reading" => Tells(said[r], id[r], Len(heard[r]))
    /\ call[r] = "answered" => Tells(said[r], id[r], Last(heard[r]).n)
LEMMA TailPositions ==
  ASSUME NEW S, NEW s \in Seq(S), s # <<>>
  PROVE  /\ Len(s) \in Nat \ {0} /\ DOMAIN s = 1..Len(s) /\ Head(s) = s[1]
         /\ Len(Tail(s)) = Len(s) - 1 /\ DOMAIN Tail(s) = 1..(Len(s) - 1)
         /\ \A p \in 1..(Len(s) - 1) : Tail(s)[p] = s[p + 1] /\ p + 1 \in 1..Len(s)
         /\ Tail(s) = <<>> <=> Len(s) = 1
<1>1. Len(s) \in Nat \ {0} /\ DOMAIN s = 1..Len(s)  BY EmptySeq, LenProperties
<1> DEFINE t == Tail(s)
<1>2. /\ t \in Seq(S) /\ Len(t) = Len(s) - 1 /\ \A p \in 1..Len(t) : t[p] = s[p + 1]
  BY HeadTailProperties
<1>3. DOMAIN t = 1..Len(t)  BY <1>2, LenProperties
<1>4. t = <<>> <=> Len(t) = 0  BY <1>2, EmptySeq
<1> HIDE DEF t
<1>5. \A p \in 1..(Len(s) - 1) : t[p] = s[p + 1] /\ p + 1 \in 1..Len(s)  BY <1>1, <1>2
<1>6. t = <<>> <=> Len(s) = 1  BY <1>1, <1>2, <1>4
<1>7. Len(t) = Len(s) - 1 /\ DOMAIN t = 1..(Len(s) - 1)  BY <1>2, <1>3
<1>8. Head(s) = s[1]  BY <1>1
<1> QED  BY <1>1, <1>5, <1>6, <1>7, <1>8 DEF t

LEMMA AppendPositions ==
  ASSUME NEW S, NEW s \in Seq(S), NEW e \in S
  PROVE  /\ Len(s) \in Nat /\ DOMAIN s = 1..Len(s)
         /\ Append(s, e) # <<>> /\ Len(Append(s, e)) = Len(s) + 1
         /\ DOMAIN Append(s, e) = 1..(Len(s) + 1)
         /\ \A p \in 1..Len(s) : Append(s, e)[p] = s[p]
         /\ Append(s, e)[Len(s) + 1] = e
         /\ s = <<>> <=> Len(s) = 0
<1> DEFINE t == Append(s, e)
<1>1. Len(s) \in Nat /\ DOMAIN s = 1..Len(s) /\ (s = <<>> <=> Len(s) = 0)
  BY EmptySeq, LenProperties
<1>2. /\ t \in Seq(S) /\ t # <<>> /\ Len(t) = Len(s) + 1
      /\ (\A p \in 1..Len(s) : t[p] = s[p]) /\ t[Len(s) + 1] = e
  BY AppendProperties
<1>3. DOMAIN t = 1..Len(t)  BY <1>2, LenProperties
<1> HIDE DEF t
<1>4. DOMAIN t = 1..(Len(s) + 1)  BY <1>2, <1>3
<1> QED  BY <1>1, <1>2, <1>4 DEF t

PipeOrder == Numbered /\ InTurn /\ NoGaps

\* A line is taken from the front of the pipe.
LEMMA TakenOrder ==
  ASSUME PipesTyped, PipeOrder, stdout # <<>>, stdout' = Tail(stdout),
         UNCHANGED <<stdin, working, printed, asked>>
  PROVE  PipeOrder'
<1> USE DEF PipeOrder
<1>1. /\ Len(stdout) \in Nat \ {0} /\ DOMAIN stdout = 1..Len(stdout)
      /\ Len(stdout') = Len(stdout) - 1 /\ DOMAIN stdout' = 1..(Len(stdout) - 1)
      /\ \A p \in 1..(Len(stdout) - 1) : stdout'[p] = stdout[p + 1] /\ p + 1 \in 1..Len(stdout)
      /\ stdout' = <<>> <=> Len(stdout) = 1
  BY TailPositions DEF PipesTyped
<1>2. Numbered'  BY DEF Numbered
<1>3. InTurn'
  <2>1. ASSUME NEW p \in DOMAIN stdout', NEW q \in DOMAIN stdout', p < q
        PROVE  p + 1 \in DOMAIN stdout /\ q + 1 \in DOMAIN stdout /\ p + 1 < q + 1
    BY <1>1, <2>1
  <2> QED  BY <1>1, <2>1 DEF InTurn
<1>4. NoGaps'
  <2>1. ASSUME NEW p \in DOMAIN stdout', p + 1 \in DOMAIN stdout', stdout'[p + 1].of = stdout'[p].of
        PROVE  Counts(stdout'[p + 1], stdout'[p].n)
    <3>1. PICK q \in 1..Len(stdout) : q = p + 1 /\ q + 1 \in 1..Len(stdout)  BY <1>1, <2>1
    <3>2. stdout'[p] = stdout[q] /\ stdout'[p + 1] = stdout[q + 1]  BY <1>1, <2>1, <3>1
    <3> QED  BY <1>1, <2>1, <3>1, <3>2 DEF NoGaps
  <2>2. ASSUME stdout' # <<>>  PROVE stdout'[Len(stdout')] = stdout[Len(stdout)]
    <3> DEFINE p == Len(stdout')
    <3>1. Len(stdout) # 1  BY <1>1, <2>2
    <3>2. p = Len(stdout) - 1  BY <1>1
    <3> HIDE DEF p
    <3>3. p \in 1..(Len(stdout) - 1) /\ p + 1 = Len(stdout)  BY <1>1, <3>1, <3>2
    <3>4. stdout'[p] = stdout[p + 1]  BY <1>1, <3>3
    <3> QED  BY <3>3, <3>4 DEF p
  <2> QED  BY <2>1, <2>2 DEF NoGaps
<1> QED  BY <1>2, <1>3, <1>4

\* Of a line that is too long a part is dropped.
LEMMA CutOrder ==
  ASSUME PipesTyped, PipeOrder, stdout # <<>>, Head(stdout).kind = "tooLong",
         stdout' = <<[Head(stdout) EXCEPT !.kind = "tail"]>> \o Tail(stdout),
         UNCHANGED <<stdin, working, printed, asked>>
  PROVE  PipeOrder'
<1> USE DEF PipeOrder
<1> DEFINE rest == [Head(stdout) EXCEPT !.kind = "tail"]
           one == <<rest>>
<1>1. /\ Len(stdout) \in Nat \ {0} /\ DOMAIN stdout = 1..Len(stdout)
      /\ Head(stdout) = stdout[1] /\ Head(stdout) \in Lines /\ Tail(stdout) \in Seq(Lines)
      /\ Len(Tail(stdout)) = Len(stdout) - 1
      /\ \A p \in 1..(Len(stdout) - 1) : Tail(stdout)[p] = stdout[p + 1]
  BY TailPositions, ListTail DEF PipesTyped
<1>2. rest \in Lines /\ rest.kind = "tail" /\ rest.of = stdout[1].of /\ rest.n = stdout[1].n
  BY <1>1 DEF Lines
<1> HIDE DEF rest
<1>3. one \in Seq(Lines) /\ Len(one) = 1 /\ one[1] = rest  BY <1>2
<1> HIDE DEF one
<1>4. /\ stdout' = one \o Tail(stdout) /\ stdout' \in Seq(Lines) /\ Len(stdout') = Len(stdout)
      /\ stdout'[1] = rest /\ \A p \in 2..Len(stdout) : stdout'[p] = stdout[p]
  <2> DEFINE t == Tail(stdout)
             u == one \o t
  <2>1. t \in Seq(Lines) /\ Len(t) = Len(stdout) - 1  BY <1>1
  <2> HIDE DEF t
  <2>2. /\ u \in Seq(Lines) /\ Len(u) = Len(one) + Len(t)
        /\ \A p \in 1..(Len(one) + Len(t)) : u[p] = IF p <= Len(one) THEN one[p] ELSE t[p - Len(one)]
    BY <1>3, <2>1, ConcatProperties
  <2>3. stdout' = u  BY DEF one, rest, t
  <2> HIDE DEF u
  <2>4. Len(u) = Len(stdout) /\ u[1] = rest  BY <1>1, <1>3, <2>1, <2>2
  <2>5. ASSUME NEW p \in 2..Len(stdout)  PROVE u[p] = stdout[p]
    <3>1. PICK q \in 1..(Len(stdout) - 1) : q = p - 1  BY <1>1
    <3>2. u[p] = t[q] /\ q + 1 = p  BY <1>1, <1>3, <2>1, <2>2, <3>1
    <3> QED  BY <1>1, <3>2 DEF t
  <2> QED  BY <2>2, <2>3, <2>4, <2>5 DEF u, t
<1>5. DOMAIN stdout' = 1..Len(stdout) /\ stdout' # <<>>  BY <1>1, <1>4, LenProperties, EmptySeq
<1>6. \A p \in 1..Len(stdout) : /\ stdout'[p].of = stdout[p].of /\ stdout'[p].n = stdout[p].n
                                /\ stdout'[p].kind = "output" <=> stdout[p].kind = "output"
  <2>1. stdout[1].kind = "tooLong"  BY <1>1
  <2>2. ASSUME NEW p \in 1..Len(stdout)  PROVE p = 1 \/ p \in 2..Len(stdout)  BY <1>1
  <2> QED  BY <1>2, <1>4, <2>1, <2>2
<1>7. Numbered'  BY DEF Numbered
<1>8. InTurn'  BY <1>1, <1>5, <1>6 DEF InTurn
<1>9. NoGaps'
  <2>1. Len(stdout) \in 1..Len(stdout) /\ Len(stdout') = Len(stdout)  BY <1>1, <1>4
  <2>2. stdout'[Len(stdout')].of = stdout[Len(stdout)].of
        /\ stdout'[Len(stdout')].n = stdout[Len(stdout)].n
    BY <1>6, <2>1
  <2>3. ASSUME NEW p \in DOMAIN stdout', p + 1 \in DOMAIN stdout', stdout'[p + 1].of = stdout'[p].of
        PROVE  Counts(stdout'[p + 1], stdout'[p].n)
    <3>1. p \in DOMAIN stdout /\ p + 1 \in DOMAIN stdout  BY <1>1, <1>5, <2>3
    <3>2. stdout[p + 1].of = stdout[p].of  BY <1>1, <1>6, <2>3, <3>1
    <3>3. Counts(stdout[p + 1], stdout[p].n)  BY <3>1, <3>2 DEF NoGaps
    <3> QED  BY <1>1, <1>6, <3>1, <3>3 DEF Counts
  <2> QED  BY <1>5, <2>2, <2>3 DEF NoGaps
<1> QED  BY <1>7, <1>8, <1>9

\* A request is made: the process has it to do, unless it is dead.
LEMMA AskedOrder ==
  ASSUME PipesTyped, PipeOrder, NEW c \in Callers, asked' = Append(asked, c),
         stdin' \in {stdin, Append(stdin, Len(asked) + 1)}, UNCHANGED <<stdout, working, printed>>,
         Len(asked) + 1 \in Ids
  PROVE  PipeOrder'
<1> USE DEF PipeOrder
<1>1. Len(asked) \in Nat /\ Len(asked') = Len(asked) + 1 /\ working \in Nat
  BY AppendPositions, ServerAssumption DEF PipesTyped, Ids
<1>2. /\ Len(stdin) \in Nat /\ DOMAIN stdin = 1..Len(stdin)
      /\ \A q \in 1..Len(stdin) : stdin[q] \in Nat
  BY AppendPositions, ElementOfSeq, LenProperties, ServerAssumption DEF PipesTyped, Ids
<1>3. CASE stdin' = stdin
  BY <1>1, <1>3 DEF Numbered, InTurn, NoGaps
<1>4. CASE stdin' = Append(stdin, Len(asked) + 1)
  <2>1. /\ DOMAIN stdin' = 1..(Len(stdin) + 1)
        /\ \A q \in 1..Len(stdin) : stdin'[q] = stdin[q]
        /\ stdin'[Len(stdin) + 1] = Len(asked) + 1
    BY <1>4, AppendPositions DEF PipesTyped
  <2>2. \A q \in 1..(Len(stdin) + 1) : q \in 1..Len(stdin) \/ q = Len(stdin) + 1  BY <1>2
  <2>3. ASSUME NEW q \in 1..(Len(stdin) + 1)
        PROVE  stdin'[q] \in 1..Len(asked') /\ working < stdin'[q]
    <3>1. working < Len(asked) + 1  BY <1>1 DEF Numbered
    <3> QED  BY <1>1, <1>2, <2>1, <2>2, <3>1 DEF Numbered
  <2>4. ASSUME NEW p \in 1..(Len(stdin) + 1), NEW q \in 1..(Len(stdin) + 1), p < q
        PROVE  stdin'[p] < stdin'[q]
    <3>1. p \in 1..Len(stdin)  BY <1>2, <2>4
    <3>2. stdin[p] < Len(asked) + 1  BY <1>1, <1>2, <3>1 DEF Numbered
    <3> QED  BY <1>1, <1>2, <2>1, <2>2, <2>4, <3>1, <3>2 DEF Numbered
  <2>5. Numbered'  BY <1>1, <2>1, <2>3, <2>4 DEF Numbered
  <2>6. InTurn'  BY <1>1, <1>2, <2>1, <2>2 DEF InTurn
  <2> QED  BY <2>5, <2>6 DEF NoGaps
<1> QED  BY <1>3, <1>4

\* What the process writes comes last.
LEMMA WrittenOrder ==
  ASSUME PipesTyped, PipeOrder, working # 0, NEW l \in Lines, stdout' = Append(stdout, l),
         l.of = working, UNCHANGED <<stdin, asked>>,
         \/ l.kind = "output" /\ l.n = printed + 1 /\ working' = working /\ printed' = printed + 1
         \/ l.kind # "output" /\ l.n = printed /\ working' = 0 /\ printed' = 0
  PROVE  PipeOrder'
<1> USE DEF PipeOrder
<1>1. /\ Len(stdout) \in Nat /\ DOMAIN stdout = 1..Len(stdout)
      /\ stdout' # <<>> /\ Len(stdout') = Len(stdout) + 1 /\ DOMAIN stdout' = 1..(Len(stdout) + 1)
      /\ \A p \in 1..Len(stdout) : stdout'[p] = stdout[p]
      /\ stdout'[Len(stdout) + 1] = l
      /\ stdout = <<>> <=> Len(stdout) = 0
  BY AppendPositions DEF PipesTyped
<1>2. \A q \in 1..(Len(stdout) + 1) : q \in 1..Len(stdout) \/ q = Len(stdout) + 1  BY <1>1
<1>3. Len(asked) \in Nat /\ working \in Nat /\ printed \in Nat
  BY LenProperties, ServerAssumption DEF PipesTyped, Ids
<1>4. \A q \in DOMAIN stdin : stdin[q] \in Nat
  BY <1>3 DEF Numbered
<1>5. Numbered'  BY <1>3, <1>4 DEF Numbered
<1>6. InTurn'
  <2>1. ASSUME NEW p \in 1..Len(stdout)
        PROVE  /\ stdout[p].of \in 1..Len(asked)
               /\ IF stdout[p].kind = "output" THEN stdout[p].of <= working ELSE stdout[p].of < working
    BY <1>1 DEF InTurn
  <2>2. l.of \in 1..Len(asked) /\ \A q \in DOMAIN stdin : l.of < stdin[q]
    BY <1>3 DEF Numbered
  <2> QED  BY <1>1, <1>2, <1>3, <2>1, <2>2 DEF InTurn
<1>7. NoGaps'
  <2>1. stdout'[Len(stdout')] = l  BY <1>1
  <2>2. ASSUME NEW p \in 1..Len(stdout), stdout[p].of = l.of, p = Len(stdout)
        PROVE  Counts(l, stdout[p].n)
    <3>1. stdout[p].n = printed  BY <1>1, <2>2 DEF NoGaps
    <3> QED  BY <3>1 DEF Counts
  <2>3. ASSUME NEW p \in 1..(Len(stdout) + 1), p + 1 \in 1..(Len(stdout) + 1),
               stdout'[p + 1].of = stdout'[p].of
        PROVE  Counts(stdout'[p + 1], stdout'[p].n)
    <3>1. CASE p + 1 \in 1..Len(stdout)
      <4>1. p \in 1..Len(stdout)  BY <1>1, <3>1
      <4> QED  BY <1>1, <2>3, <3>1, <4>1 DEF NoGaps
    <3>2. CASE p = Len(stdout)
      <4>1. p \in 1..Len(stdout)  BY <1>1, <2>3, <3>2
      <4>2. stdout'[p] = stdout[p] /\ stdout'[p + 1] = l  BY <1>1, <3>2, <4>1
      <4> QED  BY <2>2, <2>3, <3>2, <4>1, <4>2
    <3>3. p + 1 <= Len(stdout) + 1 /\ 1 <= p /\ p \in Int /\ Len(stdout) \in Int  BY <1>1, <2>3
    <3>4. p = Len(stdout) \/ p + 1 \in 1..Len(stdout)  BY <3>3
    <3> QED  BY <3>1, <3>2, <3>4
  <2> QED  BY <1>1, <2>1, <2>3 DEF NoGaps
<1> QED  BY <1>5, <1>6, <1>7

\* The process takes the next request, or dies with all it has.
LEMMA TakeOrder ==
  ASSUME PipesTyped, PipeOrder, UNCHANGED <<asked, stdout>>,
         \/ working = 0 /\ stdin # <<>> /\ working' = Head(stdin) /\ stdin' = Tail(stdin)
              /\ printed' = printed
         \/ working' = 0 /\ printed' = 0 /\ stdin' = <<>>
  PROVE  PipeOrder'
<1> USE DEF PipeOrder
<1>1. Len(asked) \in Nat /\ working \in Nat /\ printed \in Nat
  BY LenProperties, ServerAssumption DEF PipesTyped, Ids
<1>2. CASE working' = 0 /\ printed' = 0 /\ stdin' = <<>>
  <2>1. DOMAIN stdin' = {}  BY <1>2
  <2> QED  BY <1>1, <1>2, <2>1 DEF Numbered, InTurn, NoGaps
<1>3. CASE working = 0 /\ stdin # <<>> /\ working' = Head(stdin) /\ stdin' = Tail(stdin)
             /\ printed' = printed
  <2>1. /\ Len(stdin) \in Nat \ {0} /\ DOMAIN stdin = 1..Len(stdin) /\ Head(stdin) = stdin[1]
        /\ DOMAIN stdin' = 1..(Len(stdin) - 1)
        /\ \A p \in 1..(Len(stdin) - 1) : stdin'[p] = stdin[p + 1] /\ p + 1 \in 1..Len(stdin)
    BY <1>3, TailPositions DEF PipesTyped
  <2>2. 1 \in DOMAIN stdin  BY <2>1
  <2>3. working' \in 1..Len(asked) /\ \A p \in 2..Len(stdin) : working' < stdin[p]
    BY <1>3, <2>1, <2>2 DEF Numbered
  <2>4. \A p \in 1..(Len(stdin) - 1) : p + 1 \in 2..Len(stdin)  BY <2>1
  <2>5. \A p, q \in 1..(Len(stdin) - 1) : p < q => p + 1 < q + 1  BY <2>1
  <2>6. Numbered'
    BY <1>1, <1>3, <2>1, <2>3, <2>4, <2>5 DEF Numbered
  <2>7. \A p \in DOMAIN stdout : stdout[p].of \in 1..Len(asked) /\ stdout[p].of < working'
    BY <1>3, <2>1, <2>2 DEF InTurn
  <2>8. InTurn'
    <3>1. ASSUME NEW p \in DOMAIN stdout, NEW q \in DOMAIN stdin'
          PROVE  stdout[p].of < stdin'[q]
      BY <2>1, <3>1 DEF InTurn
    <3>2. ASSUME NEW p \in DOMAIN stdout
          PROVE  IF stdout[p].kind = "output" THEN stdout[p].of <= working'
                                              ELSE stdout[p].of < working'
      BY <1>1, <2>3, <2>7
    <3> QED  BY <2>7, <3>1, <3>2 DEF InTurn
  <2>9. stdout # <<>> => stdout[Len(stdout)].of # working'
    <3>1. stdout # <<>> => Len(stdout) \in DOMAIN stdout
      BY TailPositions DEF PipesTyped
    <3> QED  BY <1>1, <2>3, <2>7, <3>1
  <2> QED  BY <2>6, <2>8, <2>9 DEF NoGaps
<1> QED  BY <1>2, <1>3

\* The holder of the lock keeps its place, whoever comes or goes.
LEMMA HolderStays ==
  ASSUME CallsTyped, NEW c \in Callers, NEW d \in Callers, Holds(d),
         line' = Append(line, c) \/ (Leave(c) /\ c # d)
  PROVE  Holds(d)'
<1>1. line # <<>> /\ Head(line) = d /\ line \in Seq(Callers) /\ IsInjective(line)
  BY DEF Holds, CallsTyped
<1>2. CASE line' = Append(line, c)
  <2>1. line' # <<>>  BY <1>1, <1>2, AppendProperties
  <2>2. Head(line') = Head(line)  BY <1>1, <1>2, HeadTailAppend
  <2> QED  BY <1>1, <2>1, <2>2 DEF Holds
<1>3. CASE Leave(c) /\ c # d
  <2>1. PICK p \in DOMAIN line : line[p] = c /\ line' = RemoveAt(line, p)  BY <1>3 DEF Leave
  <2>2. p # 1  BY <1>1, <1>3, <2>1, TailPositions
  <2>3. line' # <<>> /\ Head(line') = Head(line)  BY <1>1, <2>1, <2>2, RemoveAtProperties
  <2> QED  BY <1>1, <2>3 DEF Holds
<1> QED  BY <1>2, <1>3

LEMMA AskedGrows ==
  ASSUME PipesTyped, NEW c \in Callers, CallEvent(c)
  PROVE  /\ asked' = asked \/ asked' = Append(asked, c)
         /\ Len(asked) \in Nat /\ Len(asked') \in Nat /\ Len(asked) <= Len(asked')
         /\ \A i \in 1..Len(asked) : i \in 1..Len(asked') /\ asked'[i] = asked[i]
<1>1. asked' = asked \/ asked' = Append(asked, c)
  BY DEF CallEvent, Enter, NoServer, SendRequest, BrokenPipe, Hear, SkipLine, Reply, Refuse, Taken,
         Desync, TooLong, NotJson, EndOfFile, HangUp, Abandon
<1>2. Len(asked) \in Nat /\ Len(Append(asked, c)) = Len(asked) + 1
      /\ \A i \in 1..Len(asked) : Append(asked, c)[i] = asked[i]
  BY AppendPositions DEF PipesTyped
<1> QED  BY <1>1, <1>2

LEMMA OwnedStays ==
  ASSUME PipesTyped, CallsTyped, Owned, NEW c \in Callers, CallEvent(c)
  PROVE  Owned'
<1> DEFINE Of(d) ==
      /\ id'[d] # 0 <=> call'[d] \in {"reading", "answered"}
      /\ call'[d] \in {"reading", "answered"} => Holds(d)'
      /\ id'[d] # 0 => id'[d] \in 1..Len(asked') /\ asked'[id'[d]] = d
      /\ \A k \in Range(heard'[d]) : k.of \in 1..Len(asked') /\ asked'[k.of] = d
      /\ call'[d] = "waiting" => heard'[d] = <<>>
<1>1. /\ Len(asked) \in Nat /\ Len(asked') \in Nat /\ Len(asked) <= Len(asked')
      /\ \A i \in 1..Len(asked) : i \in 1..Len(asked') /\ asked'[i] = asked[i]
  BY AskedGrows
<1>2. Range(<<>>) = {}  BY DEF Range
<1>3. ASSUME NEW d \in Callers \ {c}  PROVE Of(d)
  <2>1. call'[d] = call[d] /\ id'[d] = id[d] /\ heard'[d] = heard[d]  BY CallEventOthers
  <2>2. line' = line \/ line' = Append(line, c) \/ Leave(c)
    BY DEF CallEvent, Enter, NoServer, SendRequest, BrokenPipe, Hear, SkipLine, Reply, Refuse, Fail,
           Desync, TooLong, NotJson, EndOfFile, HangUp, Abandon
  <2>3. Holds(d) => Holds(d)'
    <3>1. CASE line' = line  BY <3>1 DEF Holds
    <3> QED  BY <2>2, <3>1, HolderStays
  <2> QED  BY <1>1, <2>1, <2>3 DEF Owned
<1>4. Of(c)
  <2>1. CASE Enter(c) \/ NoServer(c)
    BY <1>1, <1>2, <2>1 DEF Enter, NoServer, CallsTyped, Owned
  <2>2. CASE SendRequest(c)
    <3>1. /\ call'[c] = "reading" /\ id'[c] = Len(asked) + 1 /\ heard'[c] = heard[c]
          /\ line' = line /\ Holds(c) /\ asked' = Append(asked, c) /\ call[c] = "waiting"
      BY <2>2 DEF SendRequest, CallsTyped
    <3>2. Len(asked') = Len(asked) + 1 /\ asked'[Len(asked) + 1] = c
      BY <3>1, AppendPositions DEF PipesTyped
    <3>3. Holds(c)'  BY <3>1 DEF Holds
    <3> QED  BY <1>1, <1>2, <3>1, <3>2, <3>3 DEF Owned
  <2>3. CASE SkipLine(c)
    BY <1>1, <2>3 DEF SkipLine, Owned, Holds, Taken
  <2>4. CASE Hear(c) \/ Reply(c)
    <3>1. /\ stdout # <<>> /\ Head(stdout).of = id[c] /\ Holds(c) /\ call[c] = "reading"
          /\ heard' = [heard EXCEPT ![c] = Append(heard[c], Head(stdout))] /\ asked' = asked
      BY <2>4 DEF Hear, OwnOutput, Reply, Reads, Mine, Taken, Kept
    <3>2. Head(stdout) \in Lines /\ heard[c] \in Seq(Lines)
      BY <3>1, ListTail DEF PipesTyped, CallsTyped
    <3>3. Range(heard'[c]) = Range(heard[c]) \cup {Head(stdout)}
      BY <3>1, <3>2, AppendRange DEF CallsTyped
    <3>4. \A k \in Range(heard'[c]) : k.of \in 1..Len(asked) /\ asked[k.of] = c
      BY <3>1, <3>3 DEF Owned
    <3>5. CASE line' = line /\ id' = id /\ call'[c] \in {"reading", "answered"}
      BY <1>1, <3>1, <3>4, <3>5 DEF Owned, Holds
    <3>6. CASE call' = [call EXCEPT ![c] = "ok"] /\ id' = [id EXCEPT ![c] = 0]
      BY <3>1, <3>4, <3>6 DEF CallsTyped
    <3> QED  BY <2>4, <3>1, <3>5, <3>6 DEF Hear, Reply, Leave, CallsTyped
  <2>5. CASE BrokenPipe(c) \/ Refuse(c) \/ Desync(c) \/ TooLong(c) \/ NotJson(c) \/ EndOfFile(c)
             \/ HangUp(c) \/ Abandon(c)
    <3>1. call'[c] \in {"down", "idle"} /\ id'[c] = 0 /\ heard'[c] = <<>>
      BY <2>5 DEF BrokenPipe, Refuse, Desync, TooLong, NotJson, EndOfFile, HangUp, Abandon, Fail,
                  Leave, CallsTyped
    <3> QED  BY <1>2, <3>1
  <2> QED  BY <2>1, <2>2, <2>3, <2>4, <2>5 DEF CallEvent
<1>5. \A d \in Callers : Of(d)  BY <1>3, <1>4
<1> QED  BY <1>5 DEF Owned

\* What a call does to the pipes.
LEMMA CallEventOrder ==
  ASSUME ServerInv, PipeOrder, NEW c \in Callers, CallEvent(c)
  PROVE  PipeOrder'
<1> USE DEF ServerInv
<1>1. CASE SendRequest(c) \/ BrokenPipe(c)
  <2>1. call[c] = "waiting" /\ asked' = Append(asked, c) /\ UNCHANGED <<stdout, working, printed>>
        /\ stdin' \in {stdin, Append(stdin, Len(asked) + 1)}
    BY <1>1 DEF SendRequest, BrokenPipe, pipesIdle
  <2>2. Len(asked) + 1 \in Ids
    <3>1. c \in Awaiting  BY <2>1 DEF Awaiting
    <3>2. Cardinality(Awaiting) # 0  BY <3>1, CountAwaiting, FS_EmptySet
    <3>3. Len(asked) \in Nat  BY LenProperties DEF PipesTyped
    <3> QED  BY <3>2, <3>3, CountAwaiting, ServerAssumption DEF Bounded, Ids
  <2> QED  BY <2>1, <2>2, AskedOrder
<1>2. CASE stdout # <<>> /\ stdout' = Tail(stdout) /\ pipesIdle /\ asked' = asked
  BY <1>2, TakenOrder DEF pipesIdle
<1>3. CASE TooLong(c)
  BY <1>2, <1>3, CutOrder DEF TooLong, Reads, pipesIdle
<1>4. CASE stdout' = stdout /\ pipesIdle /\ asked' = asked
  BY <1>4 DEF pipesIdle, PipeOrder, Numbered, InTurn, NoGaps
<1> QED
  BY <1>1, <1>2, <1>3, <1>4
  DEF CallEvent, Enter, NoServer, Hear, SkipLine, Reply, Refuse, Desync, NotJson, EndOfFile, HangUp,
      Abandon, OwnOutput, Reads, Taken

LEMMA ProcessOrder ==
  ASSUME PipesTyped, PipeOrder, TakeRequest \/ PrintLine \/ WriteResult \/ Die
  PROVE  PipeOrder'
<1>1. CASE TakeRequest \/ Die
  BY <1>1, TakeOrder DEF TakeRequest, Die, processIdle
<1>2. ASSUME NEW kind \in {"output", "result", "tooLong"}, NEW n \in 0..MaxOutput, Write(kind, n),
             working # 0, UNCHANGED <<stdin, asked>>,
             \/ kind = "output" /\ n = printed + 1 /\ working' = working /\ printed' = printed + 1
             \/ kind # "output" /\ n = printed /\ working' = 0 /\ printed' = 0
      PROVE  PipeOrder'
  <2> DEFINE l == [kind |-> kind, of |-> working, n |-> n]
  <2>1. l \in Lines /\ l.kind = kind /\ l.of = working /\ l.n = n  BY DEF Lines, PipesTyped
  <2>2. stdout' = Append(stdout, l)  BY <1>2 DEF Write
  <2> HIDE DEF l
  <2> QED  BY <1>2, <2>1, <2>2, WrittenOrder
<1>3. CASE PrintLine
  <2>1. printed + 1 \in 0..MaxOutput /\ printed' = printed + 1 /\ Write("output", printed + 1)
    BY <1>3, ServerAssumption DEF PrintLine, PipesTyped, Write
  <2> QED  BY <1>2, <1>3, <2>1 DEF PrintLine, processIdle
<1>4. CASE WriteResult
  <2>1. PICK kind \in {"result", "tooLong"} : Write(kind, printed)  BY <1>4 DEF WriteResult
  <2> QED  BY <1>2, <1>4, <2>1 DEF WriteResult, processIdle, PipesTyped
<1> QED  BY <1>1, <1>3, <1>4

\* A reader keeps in step with what the process does.
LEMMA ProcessInStep ==
  ASSUME PipesTyped, CallsTyped, PipeOrder, Owned, InStep,
         TakeRequest \/ PrintLine \/ WriteResult \/ Die
  PROVE  InStep'
<1> SUFFICES ASSUME NEW r \in Runs, call[r] = "reading"
             PROVE
      /\ \A p \in DOMAIN stdout' :
           stdout'[p].of = id[r] /\ (p = 1 \/ stdout'[p - 1].of # id[r]) =>
             Counts(stdout'[p], Len(heard[r]))
      /\ working' = id[r] /\ (stdout' = <<>> \/ stdout'[Len(stdout')].of # id[r]) =>
           printed' = Len(heard[r])
      /\ id[r] \in Range(stdin') => heard[r] = <<>>
  BY DEF TakeRequest, PrintLine, WriteResult, Die, processIdle, InStep
<1> DEFINE i == id[r]
           h == Len(heard[r])
<1>1. /\ \A p \in DOMAIN stdout : stdout[p].of = i /\ (p = 1 \/ stdout[p - 1].of # i) =>
           Counts(stdout[p], h)
      /\ working = i /\ (stdout = <<>> \/ stdout[Len(stdout)].of # i) => printed = h
      /\ i \in Range(stdin) => h = 0
  BY EmptySeq DEF InStep
<1>2. i # 0 /\ h \in Nat /\ (h = 0 => heard[r] = <<>>)
  BY EmptySeq, LenProperties DEF Owned, CallsTyped, Callers
<1> HIDE DEF i, h
<1>3. CASE TakeRequest
  <2>1. /\ stdout' = stdout /\ working' = Head(stdin) /\ stdin' = Tail(stdin) /\ printed' = printed
        /\ working = 0 /\ stdin # <<>>
    BY <1>3 DEF TakeRequest
  <2>2. Head(stdin) \in Range(stdin) /\ Range(stdin') \subseteq Range(stdin)
    BY <2>1, TailPositions DEF PipesTyped, Range
  <2>3. printed = 0  BY <2>1 DEF PipeOrder, Numbered
  <2> QED  BY <1>1, <1>2, <2>1, <2>2, <2>3 DEF i, h
<1>4. CASE Die
  <2>1. stdout' = stdout /\ working' = 0 /\ Range(stdin') = {}  BY <1>4 DEF Die, Range
  <2> QED  BY <1>1, <1>2, <2>1 DEF i, h
<1>5. ASSUME NEW kind \in {"output", "result", "tooLong"}, NEW n \in 0..MaxOutput, Write(kind, n),
             working # 0, stdin' = stdin,
             \/ kind = "output" /\ n = printed + 1 /\ working' = working /\ printed' = printed + 1
             \/ kind # "output" /\ n = printed /\ working' = 0 /\ printed' = 0
      PROVE  /\ \A p \in DOMAIN stdout' :
                  stdout'[p].of = i /\ (p = 1 \/ stdout'[p - 1].of # i) => Counts(stdout'[p], h)
             /\ working' = i /\ (stdout' = <<>> \/ stdout'[Len(stdout')].of # i) => printed' = h
             /\ i \in Range(stdin') => heard[r] = <<>>
  <2> DEFINE l == [kind |-> kind, of |-> working, n |-> n]
  <2>1. l \in Lines /\ l.kind = kind /\ l.of = working /\ l.n = n  BY DEF Lines, PipesTyped
  <2>2. stdout' = Append(stdout, l)  BY <1>5 DEF Write
  <2> HIDE DEF l
  <2>3. /\ Len(stdout) \in Nat /\ DOMAIN stdout = 1..Len(stdout)
        /\ stdout' # <<>> /\ Len(stdout') = Len(stdout) + 1 /\ DOMAIN stdout' = 1..(Len(stdout) + 1)
        /\ \A p \in 1..Len(stdout) : stdout'[p] = stdout[p]
        /\ stdout'[Len(stdout) + 1] = l
        /\ stdout = <<>> <=> Len(stdout) = 0
    BY <2>1, <2>2, AppendPositions DEF PipesTyped
  <2>4. ASSUME NEW p \in 1..Len(stdout), stdout'[p].of = i, p = 1 \/ stdout'[p - 1].of # i
        PROVE  Counts(stdout'[p], h)
    <3>1. p = 1 \/ p - 1 \in 1..Len(stdout)  BY <2>3
    <3> QED  BY <1>1, <2>3, <2>4, <3>1
  <2>5. ASSUME l.of = i, Len(stdout) = 0 \/ stdout'[Len(stdout)].of # i
        PROVE  Counts(l, h)
    <3>1. stdout = <<>> \/ stdout[Len(stdout)].of # i  BY <2>3, <2>5
    <3>2. printed = h  BY <1>1, <2>1, <2>5, <3>1
    <3> QED  BY <1>5, <2>1, <3>2 DEF Counts
  <2>6. ASSUME NEW p \in 1..(Len(stdout) + 1), stdout'[p].of = i, p = 1 \/ stdout'[p - 1].of # i
        PROVE  Counts(stdout'[p], h)
    <3>1. CASE p \in 1..Len(stdout)  BY <2>4, <2>6, <3>1
    <3>2. CASE p = Len(stdout) + 1
      <4>1. p - 1 = Len(stdout) /\ (p = 1 => Len(stdout) = 0)  BY <2>3, <3>2
      <4> QED  BY <2>3, <2>5, <2>6, <3>2, <4>1
    <3> QED  BY <2>3, <3>1, <3>2
  <2>7. working' = i => stdout'[Len(stdout')].of = i  BY <1>2, <1>5, <2>1, <2>3
  <2>8. i \in Range(stdin') => heard[r] = <<>>  BY <1>1, <1>2, <1>5
  <2> QED  BY <2>3, <2>6, <2>7, <2>8
<1>6. CASE PrintLine
  <2>1. printed + 1 \in 0..MaxOutput /\ printed' = printed + 1 /\ Write("output", printed + 1)
    BY <1>6, ServerAssumption DEF PrintLine, PipesTyped, Write
  <2> QED  BY <1>5, <1>6, <2>1 DEF PrintLine, i, h
<1>7. CASE WriteResult
  <2>1. PICK kind \in {"result", "tooLong"} : Write(kind, printed)  BY <1>7 DEF WriteResult
  <2> QED  BY <1>5, <1>7, <2>1 DEF WriteResult, PipesTyped, i, h
<1> QED  BY <1>3, <1>4, <1>6, <1>7

\* A run that reads takes the lines of its request one by one.
LEMMA ReaderInStep ==
  ASSUME PipesTyped, CallsTyped, PipeOrder, Owned, InStep, NEW r \in Runs,
         SkipLine(r) \/ Hear(r)
  PROVE  /\ Hear(r) => Head(stdout).n = Len(heard[r]) + 1
         /\ \A p \in DOMAIN stdout' :
              stdout'[p].of = id[r] /\ (p = 1 \/ stdout'[p - 1].of # id[r]) =>
                Counts(stdout'[p], Len(heard'[r]))
         /\ working = id[r] /\ (stdout' = <<>> \/ stdout'[Len(stdout')].of # id[r]) =>
              printed = Len(heard'[r])
         /\ id[r] \in Range(stdin) => heard'[r] = <<>>
<1> DEFINE i == id[r]
           h == Len(heard[r])
           m == Len(stdout)
<1>0. r \in Callers  BY DEF Callers
<1>1. call[r] = "reading" /\ stdout # <<>> /\ stdout' = Tail(stdout)
  BY DEF SkipLine, Hear, OwnOutput, Reads, Taken
<1>2. /\ \A p \in DOMAIN stdout : stdout[p].of = i /\ (p = 1 \/ stdout[p - 1].of # i) =>
           Counts(stdout[p], h)
      /\ working = i /\ (stdout = <<>> \/ stdout[m].of # i) => printed = h
      /\ i \in Range(stdin) => heard[r] = <<>>
  BY <1>1 DEF InStep
<1>3. i # 0 /\ h \in Nat /\ i \in Nat /\ working \in Nat
  BY <1>0, <1>1, LenProperties, ServerAssumption DEF Owned, CallsTyped, PipesTyped, Ids
<1>4. /\ m \in Nat \ {0} /\ DOMAIN stdout = 1..m /\ Head(stdout) = stdout[1]
      /\ Len(stdout') = m - 1 /\ DOMAIN stdout' = 1..(m - 1)
      /\ \A p \in 1..(m - 1) : stdout'[p] = stdout[p + 1] /\ p + 1 \in 1..m
      /\ stdout' = <<>> <=> m = 1
  BY <1>1, TailPositions DEF PipesTyped
<1>5. m # 1 => m - 1 \in 1..(m - 1) /\ stdout'[m - 1] = stdout[m]
  <2> HIDE DEF m
  <2>1. m # 1 => m - 1 \in 1..(m - 1) /\ (m - 1) + 1 = m  BY <1>4
  <2> QED  BY <1>4, <2>1
<1> HIDE DEF i, h, m
<1>6. CASE SkipLine(r)
  <2>1. stdout[1].of # i /\ heard' = heard
    BY <1>4, <1>6, ServerAssumption DEF SkipLine, OwnOutput, Reads, Mine, i
  <2>2. ASSUME NEW p \in 1..(m - 1), stdout'[p].of = i, p = 1 \/ stdout'[p - 1].of # i
        PROVE  Counts(stdout'[p], h)
    <3>1. p + 1 \in 1..m /\ stdout'[p] = stdout[p + 1] /\ (p + 1) - 1 = p  BY <1>4
    <3>2. p # 1 => p - 1 \in 1..(m - 1) /\ (p - 1) + 1 = p  BY <1>4
    <3>3. p # 1 => stdout'[p - 1] = stdout[p]  BY <1>4, <3>2
    <3>4. stdout[p].of # i  BY <2>1, <2>2, <3>3
    <3>5. stdout[(p + 1) - 1].of # i  BY <3>1, <3>4
    <3> QED  BY <1>2, <1>4, <2>2, <3>1, <3>5
  <2>3. stdout' = <<>> \/ stdout'[Len(stdout')].of # i => stdout[m].of # i
    BY <1>4, <1>5, <2>1
  <2>4. ~Hear(r)  BY <1>4, <2>1 DEF Hear, OwnOutput, Mine, i
  <2> QED  BY <1>2, <1>4, <2>1, <2>2, <2>3, <2>4 DEF i, h
<1>7. CASE Hear(r)
  <2>1. /\ stdout[1].of = i /\ stdout[1].kind = "output"
        /\ heard' = [heard EXCEPT ![r] = Append(heard[r], stdout[1])]
    BY <1>4, <1>7 DEF Hear, OwnOutput, Reads, Mine, Kept, i
  <2>2. 1 \in 1..m /\ stdout[1].n = h + 1  BY <1>2, <1>4, <2>1 DEF Counts
  <2>3. Len(heard'[r]) = h + 1
    <3>1. stdout[1] \in Lines /\ heard[r] \in Seq(Lines)
      BY <1>0, <1>4, <2>2, ElementOfSeq DEF PipesTyped, CallsTyped, m
    <3> QED  BY <1>0, <2>1, <3>1, AppendProperties DEF CallsTyped, h
  <2>4. ASSUME NEW p \in 1..(m - 1), stdout'[p].of = i, p = 1 \/ stdout'[p - 1].of # i
        PROVE  Counts(stdout'[p], h + 1)
    <3>1. CASE p = 1
      <4>1. 1 + 1 \in 1..m /\ stdout'[1] = stdout[1 + 1]  BY <1>4, <3>1
      <4>2. stdout[1 + 1].of = stdout[1].of  BY <2>1, <2>4, <3>1, <4>1
      <4>3. Counts(stdout[1 + 1], stdout[1].n)  BY <1>4, <2>2, <4>1, <4>2 DEF PipeOrder, NoGaps
      <4> QED  BY <2>2, <3>1, <4>1, <4>3
    <3>2. CASE p # 1
      <4>1. p - 1 \in 1..(m - 1) /\ (p - 1) + 1 = p /\ p \in 1..m /\ p + 1 \in 1..m
            /\ p < p + 1 /\ 1 < p
        BY <1>4, <3>2
      <4>2. stdout'[p - 1] = stdout[p] /\ stdout'[p] = stdout[p + 1]  BY <1>4, <4>1
      <4>3. stdout[p].of # i /\ stdout[p + 1].of = i  BY <2>4, <3>2, <4>2
      <4>4. stdout[1].of <= stdout[p].of  BY <1>4, <2>1, <2>2, <4>1 DEF PipeOrder, InTurn
      <4>5. stdout[p].of <= stdout[p + 1].of /\ stdout[p].of \in Nat
        <5>1. stdout[p].of \in 1..Len(asked) /\ stdout[p + 1].of \in 1..Len(asked)
          BY <1>4, <4>1 DEF PipeOrder, InTurn
        <5>2. Len(asked) \in Nat  BY LenProperties DEF PipesTyped
        <5>3. stdout[p].of <= stdout[p + 1].of \/ stdout[p].of < stdout[p + 1].of
          BY <1>4, <4>1 DEF PipeOrder, InTurn
        <5> QED  BY <5>1, <5>2, <5>3
      <4> QED  BY <1>3, <2>1, <4>3, <4>4, <4>5
    <3> QED  BY <3>1, <3>2
  <2>5. ASSUME working = i, stdout' = <<>> \/ stdout'[Len(stdout')].of # i
        PROVE  printed = h + 1
    <3>1. CASE m = 1
      <4>1. stdout[Len(stdout)].n = printed
        BY <1>1, <1>3, <2>1, <2>5, <3>1 DEF PipeOrder, NoGaps, m
      <4> QED  BY <2>2, <3>1, <4>1 DEF m
    <3>2. CASE m # 1
      <4>1. stdout[m].of # i  BY <1>4, <1>5, <2>5, <3>2
      <4>2. m \in 1..m /\ 1 < m  BY <1>4, <3>2
      <4>3. stdout[m].of \in 1..Len(asked) /\ Len(asked) \in Nat
        BY <1>4, <4>2, LenProperties DEF PipeOrder, InTurn, PipesTyped
      <4>4. i <= stdout[m].of  BY <1>4, <2>1, <2>2, <4>2 DEF PipeOrder, InTurn
      <4>5. stdout[m].of <= working \/ stdout[m].of < working
        BY <1>3, <1>4, <2>5, <4>2 DEF PipeOrder, InTurn
      <4> QED  BY <1>3, <2>5, <4>1, <4>3, <4>4, <4>5
    <3> QED  BY <3>1, <3>2
  <2>6. i \notin Range(stdin)
    <3>1. ASSUME NEW q \in DOMAIN stdin  PROVE stdin[q] # i
      <4>1. i < stdin[q] /\ stdin[q] \in Nat
        <5>1. Len(asked) \in Nat  BY LenProperties DEF PipesTyped
        <5> QED  BY <1>4, <2>1, <2>2, <5>1 DEF PipeOrder, InTurn, Numbered
      <4> QED  BY <1>3, <4>1
    <3> QED  BY <3>1 DEF Range
  <2>7. Hear(r) => Head(stdout).n = Len(heard[r]) + 1  BY <1>4, <2>2 DEF h
  <2> QED  BY <1>4, <2>3, <2>4, <2>5, <2>6, <2>7 DEF i
<1> QED  BY <1>6, <1>7

\* Only the reader touches the pipes, and it stays in step.
LEMMA CallEventInStep ==
  ASSUME PipesTyped, CallsTyped, PipeOrder, Owned, InStep, NEW c \in Callers, CallEvent(c)
  PROVE  InStep'
<1> SUFFICES ASSUME NEW r \in Runs, call'[r] = "reading"
             PROVE
      /\ \A p \in DOMAIN stdout' :
           stdout'[p].of = id'[r] /\ (p = 1 \/ stdout'[p - 1].of # id'[r]) =>
             Counts(stdout'[p], Len(heard'[r]))
      /\ working' = id'[r] /\ (stdout' = <<>> \/ stdout'[Len(stdout')].of # id'[r]) =>
           printed' = Len(heard'[r])
      /\ id'[r] \in Range(stdin') => heard'[r] = <<>>
  BY DEF InStep
<1>0. r \in Callers  BY DEF Callers
<1>1. CASE r # c
  <2>1. call[r] = "reading" /\ id'[r] = id[r] /\ heard'[r] = heard[r]
    BY <1>0, <1>1, CallEventOthers
  <2>2. Holds(r)  BY <1>0, <2>1 DEF Owned
  <2>3. ~Holds(c)  BY <1>1, <2>2 DEF Holds
  <2>4. UNCHANGED <<stdout, stdin, working, printed>>
    BY <2>3 DEF CallEvent, Enter, NoServer, SendRequest, BrokenPipe, Hear, SkipLine, Reply, Refuse,
                OwnOutput, Reads, Desync, TooLong, NotJson, EndOfFile, HangUp, Abandon, pipesIdle
  <2> QED  BY <2>1, <2>4 DEF InStep
<1>2. CASE r = c
  <2>1. SendRequest(r) \/ SkipLine(r) \/ Hear(r)
    BY <1>0, <1>2 DEF CallEvent, Enter, NoServer, BrokenPipe, Reply, Refuse, Desync, TooLong, NotJson,
              EndOfFile, HangUp, Abandon, Fail, CallsTyped
  <2>2. CASE SendRequest(r)
    <3>1. /\ id'[r] = Len(asked) + 1 /\ heard'[r] = <<>> /\ UNCHANGED <<stdout, working, printed>>
          /\ Len(asked) \in Nat
      BY <1>0, <2>2, LenProperties DEF SendRequest, CallsTyped, PipesTyped, Owned
    <3>2. \A p \in DOMAIN stdout : stdout[p].of # id'[r]
      BY <3>1 DEF PipeOrder, InTurn
    <3>3. working # id'[r]
      <4>1. working \in Nat  BY ServerAssumption DEF PipesTyped, Ids
      <4> QED  BY <3>1, <4>1 DEF PipeOrder, Numbered
    <3> QED  BY <3>1, <3>2, <3>3
  <2>3. CASE SkipLine(r) \/ Hear(r)
    <3>1. id' = id /\ UNCHANGED <<stdin, working, printed>>
      BY <2>3 DEF SkipLine, Hear, Taken, pipesIdle
    <3> QED  BY <2>3, <3>1, ReaderInStep
  <2> QED  BY <2>1, <2>2, <2>3
<1> QED  BY <1>1, <1>2

LEMMA PipeStarts ==
  ASSUME stdin = <<>>, stdout = <<>>, working = 0, printed = 0, asked = <<>>, line = <<>>,
         call = [c \in Callers |-> "idle"], id = [c \in Callers |-> 0],
         heard = [c \in Callers |-> <<>>]
  PROVE  PipeInv
<1>1. DOMAIN <<>> = {} /\ Range(<<>>) = {} /\ Len(<<>>) = 0  BY EmptySeq DEF Range
<1>2. Numbered /\ InTurn /\ NoGaps  BY <1>1 DEF Numbered, InTurn, NoGaps
<1>3. Owned  BY <1>1 DEF Owned
<1>4. InStep  BY DEF InStep, Callers
<1> QED  BY <1>2, <1>3, <1>4 DEF PipeInv

LEMMA PipeStays ==
  ASSUME ServerInv, PipeInv, ServerNext \/ UNCHANGED serverVars
  PROVE  PipeInv'
<1> USE DEF PipeInv, PipeOrder, ServerInv
<1>1. ASSUME NEW c \in Callers, CallEvent(c)  PROVE PipeInv'
  BY <1>1, CallEventOrder, OwnedStays, CallEventInStep
<1>2. CASE TakeRequest \/ PrintLine \/ WriteResult \/ Die
  <2>1. UNCHANGED <<line, call, id, asked, heard>>
    BY <1>2 DEF TakeRequest, PrintLine, WriteResult, Die, processIdle
  <2>2. Owned'  BY <2>1 DEF Owned, Holds
  <2>3. PipeOrder' /\ InStep'  BY <1>2, ProcessOrder, ProcessInStep
  <2> QED  BY <2>2, <2>3
<1>3. CASE RestartServer
  <2>1. DOMAIN <<>> = {} /\ Range(<<>>) = {} /\ Len(<<>>) = 0  BY EmptySeq DEF Range
  <2>2. Numbered' /\ InTurn' /\ NoGaps'  BY <1>3, <2>1 DEF RestartServer, Numbered, InTurn, NoGaps
  <2>3. Owned'  BY <1>3, <2>1 DEF RestartServer, Owned
  <2>4. InStep'  BY <1>3 DEF RestartServer, InStep, Callers
  <2> QED  BY <2>2, <2>3, <2>4
<1>4. CASE UNCHANGED serverVars
  <2>1. UNCHANGED <<stdin, stdout, working, printed, asked, line, call, id, heard>>
    BY <1>4 DEF serverVars
  <2>2. Numbered' /\ InTurn' /\ NoGaps'  BY <2>1 DEF Numbered, InTurn, NoGaps
  <2>3. Owned'  BY <2>1 DEF Owned, Holds
  <2>4. InStep'  BY <2>1 DEF InStep
  <2> QED  BY <2>2, <2>3, <2>4
<1> QED  BY <1>1, <1>2, <1>3, <1>4 DEF ServerNext, PipeNext
-----------------------------------------------------------------------------
(* What a run says of its request.                                         *)

Told(s, i) == {p \in DOMAIN s : s[p].type = "output" /\ s[p].of = i}

LEMMA TellsUnfolds ==
  ASSUME NEW s, NEW i, NEW n
  PROVE  Tells(s, i, n) <=> /\ {s[p].n : p \in Told(s, i)} = 1..n
                            /\ \A p, q \in Told(s, i) : p < q => s[p].n < s[q].n
BY DEF Tells, Told

LEMMA TellsMore ==
  ASSUME NEW s \in Seq(Chunks), NEW i, NEW n \in Nat, Tells(s, i, n), NEW e \in Chunks,
         e.type = "output", e.of = i, e.n = n + 1
  PROVE  Tells(Append(s, e), i, n + 1)
<1> DEFINE t == Append(s, e)
           m == Len(s)
<1>1. /\ m \in Nat /\ DOMAIN s = 1..m /\ DOMAIN t = 1..(m + 1)
      /\ (\A p \in 1..m : t[p] = s[p]) /\ t[m + 1] = e
  BY AppendPositions
<1> HIDE DEF t, m
<1>2. Told(t, i) = Told(s, i) \cup {m + 1}
  <2>1. 1..(m + 1) = 1..m \cup {m + 1} /\ m + 1 \notin 1..m  BY <1>1
  <2> QED  BY <1>1, <2>1 DEF Told
<1>3. /\ {s[p].n : p \in Told(s, i)} = 1..n
      /\ \A p, q \in Told(s, i) : p < q => s[p].n < s[q].n
  BY TellsUnfolds
<1>4. \A p \in Told(s, i) : p \in 1..m /\ t[p] = s[p] /\ s[p].n \in 1..n
  BY <1>1, <1>3 DEF Told
<1>5. {t[p].n : p \in Told(t, i)} = {s[p].n : p \in Told(s, i)} \cup {n + 1}
  BY <1>1, <1>2, <1>4
<1>6. 1..(n + 1) = 1..n \cup {n + 1}  OBVIOUS
<1>7. ASSUME NEW p \in Told(t, i), NEW q \in Told(t, i), p < q  PROVE t[p].n < t[q].n
  <2>1. p \in Told(s, i)
    <3>1. CASE q \in Told(s, i)  BY <1>1, <1>2, <1>4, <1>7, <3>1
    <3>2. CASE q = m + 1  BY <1>1, <1>2, <1>7, <3>2
    <3> QED  BY <1>2, <3>1, <3>2
  <2>2. CASE q \in Told(s, i)  BY <1>3, <1>4, <1>7, <2>1, <2>2
  <2>3. CASE q = m + 1
    <3>1. t[q].n = n + 1 /\ t[p].n \in 1..n  BY <1>1, <1>4, <2>1, <2>3
    <3> QED  BY <3>1
  <2> QED  BY <1>2, <2>2, <2>3
<1>8. {t[p].n : p \in Told(t, i)} = 1..(n + 1)  BY <1>3, <1>5, <1>6
<1> QED  BY <1>7, <1>8, TellsUnfolds DEF t

LEMMA TellsNoMore ==
  ASSUME NEW s \in Seq(Chunks), NEW i, NEW n, Tells(s, i, n), NEW e \in Chunks,
         e.type # "output" \/ e.of # i
  PROVE  Tells(Append(s, e), i, n)
<1> DEFINE t == Append(s, e)
           m == Len(s)
<1>1. /\ m \in Nat /\ DOMAIN s = 1..m /\ DOMAIN t = 1..(m + 1)
      /\ (\A p \in 1..m : t[p] = s[p]) /\ t[m + 1] = e
  BY AppendPositions
<1> HIDE DEF t, m
<1>2. Told(t, i) = Told(s, i)
  <2>1. 1..(m + 1) = 1..m \cup {m + 1} /\ m + 1 \notin 1..m  BY <1>1
  <2> QED  BY <1>1, <2>1 DEF Told
<1>3. \A p \in Told(s, i) : t[p] = s[p]  BY <1>1 DEF Told
<1>4. {t[p].n : p \in Told(t, i)} = {s[p].n : p \in Told(s, i)}  BY <1>2, <1>3
<1>5. \A p, q \in Told(t, i) : p < q => t[p].n < t[q].n  BY <1>2, <1>3, TellsUnfolds
<1>6. {s[p].n : p \in Told(s, i)} = 1..n  BY TellsUnfolds
<1> QED  BY <1>4, <1>5, <1>6, TellsUnfolds DEF t

LEMMA TellsNothing ==
  ASSUME NEW s, NEW i, Told(s, i) = {}
  PROVE  Tells(s, i, 0)
<1>1. 1..0 = {}  OBVIOUS
<1> QED  BY <1>1, TellsUnfolds

\* What a step can mean to a run: it hears a line and says it; its call goes on,
\* or that of another, and nothing is said; it says something else.
Unheard(r) ==
  /\ said'[r] = said[r]
  /\ (call'[r] = call[r] /\ id'[r] = id[r] /\ heard'[r] = heard[r]) \/ (CallEvent(r) /\ ~Hear(r))
Remarks(r) ==
  \E chunk \in Chunks :
    /\ said'[r] = Append(said[r], chunk) /\ chunk.type # "output"
    /\ call'[r] \notin {"reading", "answered"}
    /\ chunk.type = "done" =>
         call[r] = "answered" /\ chunk.of = id[r] /\ chunk.n = Last(heard[r]).n

LEMMA SaidMoves ==
  ASSUME ServerInv, TasksTyped, SavedFirst, [Next]_vars, NEW r \in Runs
  PROVE  Restart \/ Relay(r) \/ Unheard(r) \/ Remarks(r)
<1>0. r \in Callers /\ CallsTyped /\ Fits(r) /\ r \notin Senders
  BY ServerAssumption DEF Callers, ServerInv, TasksTyped
<1>1. ASSUME said' = said, NEW c \in Callers \ {r}, CallEvent(c)  PROVE Unheard(r)
  BY <1>0, <1>1, CallEventOthers DEF Unheard
<1>2. ASSUME said' = said, UNCHANGED <<call, id, heard>>  PROVE Unheard(r)
  BY <1>2 DEF Unheard
<1>3. ASSUME NEW t \in Runs \ {r},
             TaskStep(t) \/ Submit(t) \/ Park(t) \/ Resume(t) \/ Cancel(t) \/ CancelUnheard(t)
               \/ (HangUp(t) /\ Go(t, "failing") /\ Silent /\ UNCHANGED <<row, stored>>)
      PROVE  Unheard(r)
  <2>1. said'[r] = said[r]
    <3>1. Acts(t)  BY <1>3, TaskActs
    <3>2. said' = said \/ \E chunk \in Chunks : said' = [said EXCEPT ![t] = Append(@, chunk)]
      BY <3>1 DEF Acts, Mute, Speaks, Ends, Hushes, Hush, Broadcast, LastWord, Silent
    <3> QED  BY <3>2 DEF TasksTyped
  <2>2. UNCHANGED serverVars \/ CallEvent(t)
    BY <1>3 DEF TaskStep, Open, Relay, CallSteps, Answered, Save, Announce, GiveUp, EndCancelled,
                Submit, Park, Resume, Cancel, CancelUnheard, CallEvent
  <2>3. call'[r] = call[r] /\ id'[r] = id[r] /\ heard'[r] = heard[r]
    BY <1>0, <2>2, CallEventOthers DEF serverVars, Callers
  <2> QED  BY <2>1, <2>3 DEF Unheard
<1>4. CASE Submit(r)
  BY <1>2, <1>4 DEF Submit, Silent, serverVars
<1>5. CASE Open(r) \/ CallSteps(r) \/ Answered(r) \/ (HangUp(r) /\ Silent)
  <2>1. CallEvent(r) /\ said' = said
    BY <1>5 DEF Open, CallSteps, Answered, CallEvent, Idle, Silent
  <2>2. ~Hear(r)
    <3>1. ASSUME Hear(r)
          PROVE  call[r] = "reading" /\ call'[r] = "reading" /\ stdout' # stdout /\ asked' = asked
                 /\ heard' # heard /\ Head(stdout).kind = "output" /\ Head(stdout).of = id[r]
                 /\ stdout # <<>>
      <4>1. /\ call[r] = "reading" /\ call' = call /\ stdout # <<>> /\ stdout' = Tail(stdout)
            /\ asked' = asked /\ heard' = [heard EXCEPT ![r] = Append(heard[r], Head(stdout))]
            /\ Head(stdout).kind = "output" /\ Head(stdout).of = id[r]
        BY <3>1 DEF Hear, OwnOutput, Reads, Mine, Taken, Kept
      <4>2. stdout \in Seq(Lines) /\ heard[r] \in Seq(Lines)
        BY <1>0 DEF ServerInv, PipesTyped, CallsTyped
      <4>3. Len(Tail(stdout)) # Len(stdout)  BY <4>1, <4>2, TailPositions
      <4>4. Append(heard[r], Head(stdout)) # heard[r]
        <5>1. Head(stdout) \in Lines  BY <4>1, <4>2, ListTail
        <5>2. Len(Append(heard[r], Head(stdout))) # Len(heard[r])
          BY <4>2, <5>1, AppendPositions
        <5> QED  BY <5>2
      <4>5. heard'[r] # heard[r]  BY <1>0, <4>1, <4>4 DEF CallsTyped
      <4> QED  BY <4>1, <4>3, <4>5
    <3> QED
      BY <1>0, <1>5, <3>1
      DEF Open, CallSteps, Answered, Idle, Enter, NoServer, SendRequest, SkipLine, BrokenPipe, Reply,
          TooLong, NotJson, EndOfFile, Refuse, HangUp, Fail, Reads, OwnOutput, Mine, CallsTyped
  <2> QED  BY <2>1, <2>2 DEF Unheard
<1>6. CASE Save(r)
  <2>1. said' = said  BY <1>6 DEF Save, Silent
  <2>2. CASE UNCHANGED serverVars  BY <1>2, <2>1, <2>2 DEF serverVars
  <2>3. CASE Abandon(r)
    <3>1. ~Hear(r)
      BY <1>0, <2>3, CallSent
    <3> QED  BY <2>1, <2>3, <3>1 DEF Unheard, CallEvent
  <2> QED  BY <1>6, <2>2, <2>3 DEF Save
<1>7. \A type \in Types : Plain(type) \in Chunks /\ Plain(type).type = type
  <2>1. 0 \in Ids /\ 0 \in 0..MaxOutput  BY ServerAssumption DEF Ids
  <2> QED  BY <2>1 DEF Plain, Chunk, Chunks
<1>8. CASE Announce(r)
  <2>1. call[r] = "answered" /\ call'[r] = "idle"
    BY <1>0, <1>8, CallSent DEF Announce, Fits
  <2> DEFINE chunk == Chunk("done", id[r], Last(heard[r]).n)
  <2>2. chunk \in Chunks
    <3>1. heard[r] \in Seq(Lines) /\ heard[r] # <<>> /\ id[r] \in Ids
      BY <1>0, <2>1 DEF ServerInv, AnswerHeard, CallsTyped
    <3>2. Len(heard[r]) \in 1..Len(heard[r])  BY <3>1, EmptySeq, LenProperties
    <3>3. Last(heard[r]) \in Lines  BY <3>1, <3>2, ElementOfSeq DEF Last
    <3> QED  BY <3>1, <3>3 DEF Lines, Chunk, Chunks, Types
  <2>3. chunk.type = "done" /\ chunk.of = id[r] /\ chunk.n = Last(heard[r]).n  BY DEF Chunk
  <2>4. said'[r] = Append(said[r], chunk)
    BY <1>8 DEF Announce, LastWord, TasksTyped
  <2> HIDE DEF chunk
  <2> QED  BY <2>1, <2>2, <2>3, <2>4 DEF Remarks
<1>9. ASSUME NEW type \in Types \ {"output", "done"}, call'[r] \notin {"reading", "answered"},
             said' = [said EXCEPT ![r] = Append(@, Plain(type))]
      PROVE  Remarks(r)
  <2>1. said'[r] = Append(said[r], Plain(type))  BY <1>9 DEF TasksTyped
  <2> QED  BY <1>7, <1>9, <2>1 DEF Remarks
<1>10. CASE GiveUp(r) \/ EndCancelled(r) \/ Resume(r)
  <2>1. call'[r] \notin {"reading", "answered"}
    BY <1>0, <1>10 DEF GiveUp, EndCancelled, Resume, Fits, serverVars
  <2> QED  BY <1>9, <1>10, <2>1 DEF GiveUp, EndCancelled, Resume, LastWord, Broadcast, Types
<1>11. CASE Park(r)
  <2>1. call'[r] = "idle"  BY <1>0, <1>11, CallSent DEF Park
  <2> QED  BY <1>9, <1>11, <2>1 DEF Park, Broadcast, Types
<1>12. CASE Cancel(r) \/ CancelUnheard(r)
  <2>1. said' = said  BY <1>12 DEF Cancel, CancelUnheard, Silent, Hush
  <2>2. CASE UNCHANGED serverVars  BY <1>2, <2>1, <2>2 DEF serverVars
  <2>3. CASE Abandon(r)
    <3>1. ~Hear(r)  BY <1>0, <2>3, CallSent
    <3> QED  BY <2>1, <2>3, <3>1 DEF Unheard, CallEvent
  <2> QED  BY <1>12, <2>2, <2>3 DEF Cancel, CancelUnheard
<1>13. CASE TaskStep(r) \/ Submit(r) \/ Park(r) \/ Resume(r) \/ Cancel(r) \/ CancelUnheard(r)
              \/ (HangUp(r) /\ Go(r, "failing") /\ Silent /\ UNCHANGED <<row, stored>>)
  BY <1>4, <1>5, <1>6, <1>8, <1>10, <1>11, <1>12, <1>13 DEF TaskStep
<1>14. ASSUME NEW t \in Runs,
             TaskStep(t) \/ Submit(t) \/ Park(t) \/ Resume(t) \/ Cancel(t) \/ CancelUnheard(t)
               \/ (HangUp(t) /\ Go(t, "failing") /\ Silent /\ UNCHANGED <<row, stored>>)
      PROVE  Restart \/ Relay(r) \/ Unheard(r) \/ Remarks(r)
  <2>1. CASE t # r  BY <1>3, <1>14, <2>1
  <2>2. CASE t = r  BY <1>13, <1>14, <2>2
  <2> QED  BY <2>1, <2>2
<1>15. ASSUME NEW c \in Senders, SenderStep(c) \/ (HangUp(c) /\ Idle(c))  PROVE Unheard(r)
  <2>1. c \in Callers \ {r} /\ c \notin Runs  BY <1>0, ServerAssumption DEF Callers
  <2>2. CallEvent(c) /\ said' = said
    BY <1>15, <2>1 DEF SenderStep, CallSteps, CallEvent, Idle, Silent
  <2> QED  BY <1>1, <2>1, <2>2
<1>16. CASE (ServerStep \/ Die) /\ UNCHANGED <<taskVars, socketVars>>
  BY <1>2, <1>16 DEF ServerStep, TakeRequest, PrintLine, WriteResult, Die, processIdle, taskVars
<1>17. ASSUME NEW w \in Sockets, Connect(w) \/ Disconnected(w) \/ SocketStep(w)  PROVE Unheard(r)
  BY <1>2, <1>17
  DEF Connect, Disconnected, SocketStep, TrySubscribe, SendChunk, ServeRow, taskVars, serverVars
<1>18. CASE UNCHANGED vars
  BY <1>2, <1>18 DEF vars, taskVars, serverVars
<1>19. CASE Outside
  BY <1>14, <1>15, <1>16, <1>17, <1>19 DEF Outside
<1> QED  BY <1>14, <1>15, <1>17, <1>18, <1>19 DEF Next

LEMMA SaidStays ==
  ASSUME ServerInv, TasksTyped, SavedFirst, PipeInv, SaidAsHeard, [Next]_vars
  PROVE  SaidAsHeard'
<1> DEFINE Clause(r) ==
      /\ \A k \in Range(said'[r]) :
           /\ k.type = "output" => k.of \in 1..Len(asked') /\ asked'[k.of] = r
           /\ k.type = "done" => Tells(said'[r], k.of, k.n)
      /\ call'[r] = "reading" => Tells(said'[r], id'[r], Len(heard'[r]))
      /\ call'[r] = "answered" => Tells(said'[r], id'[r], Last(heard'[r]).n)
<1> SUFFICES ASSUME NEW r \in Runs PROVE Clause(r)  BY DEF SaidAsHeard
<1>0. /\ r \in Callers /\ CallsTyped /\ PipesTyped /\ PipeOrder /\ Owned /\ InStep
      /\ said[r] \in Seq(Chunks)
  BY DEF Callers, ServerInv, PipeInv, PipeOrder, TasksTyped
<1>1. /\ \A k \in Range(said[r]) :
           /\ k.type = "output" => k.of \in 1..Len(asked) /\ asked[k.of] = r
           /\ k.type = "done" => Tells(said[r], k.of, k.n)
      /\ call[r] = "reading" => Tells(said[r], id[r], Len(heard[r]))
      /\ call[r] = "answered" => Tells(said[r], id[r], Last(heard[r]).n)
  BY DEF SaidAsHeard
<1>2. CASE Restart
  <2>1. said'[r] = <<>> /\ call'[r] = "idle"  BY <1>0, <1>2 DEF Restart, RestartServer
  <2>2. Range(<<>>) = {}  BY DEF Range
  <2> QED  BY <2>1, <2>2
<1>3. ASSUME ~Restart
      PROVE  \A i \in 1..Len(asked) : i \in 1..Len(asked') /\ asked'[i] = asked[i]
  <2>1. ASSUME NEW c \in Callers, CallEvent(c)
        PROVE  \A i \in 1..Len(asked) : i \in 1..Len(asked') /\ asked'[i] = asked[i]
    BY <1>0, <2>1, AskedGrows
  <2>2. asked' = asked \/ \E c \in Callers : CallEvent(c)
    <3>1. PipeNext \/ UNCHANGED serverVars  BY <1>3, ServerMoves
    <3>2. CASE UNCHANGED serverVars  BY <3>2 DEF serverVars
    <3>3. CASE TakeRequest \/ PrintLine \/ WriteResult \/ Die
      BY <3>3 DEF TakeRequest, PrintLine, WriteResult, Die, processIdle
    <3> QED  BY <3>1, <3>2, <3>3 DEF PipeNext
  <2> QED  BY <2>1, <2>2
<1>4. stage[r] # "ended" => \A k \in Range(said[r]) : k.type # "done"  BY DEF SavedFirst
<1>5. CASE Relay(r) /\ ~Restart
  <2> DEFINE e == Chunk("output", Head(stdout).of, Head(stdout).n)
             h == Len(heard[r])
  <2>1. /\ Hear(r) /\ call[r] = "reading" /\ UNCHANGED <<asked, call, id>> /\ Head(stdout).of = id[r]
        /\ stdout # <<>> /\ heard'[r] = Append(heard[r], Head(stdout))
        /\ said'[r] = Append(said[r], e)
    BY <1>0, <1>5 DEF Relay, Hear, OwnOutput, Reads, Mine, Taken, Kept, Broadcast, CallsTyped, TasksTyped
  <2>2. Head(stdout) \in Lines /\ heard[r] \in Seq(Lines) /\ h \in Nat
    BY <1>0, <2>1, ListTail, LenProperties DEF PipesTyped, CallsTyped
  <2>3. Head(stdout).n = h + 1  BY <1>0, <2>1, ReaderInStep
  <2>4. Len(heard'[r]) = h + 1  BY <2>1, <2>2, AppendProperties
  <2>5. e \in Chunks /\ e.type = "output" /\ e.of = id[r] /\ e.n = h + 1
    BY <2>1, <2>2, <2>3 DEF Lines, Chunk, Chunks, Types
  <2> HIDE DEF e, h
  <2>6. Tells(said'[r], id[r], h + 1)
    <3>1. Tells(said[r], id[r], h)  BY <1>1, <2>1 DEF h
    <3> QED  BY <1>0, <2>1, <2>2, <2>5, <3>1, TellsMore
  <2>7. Range(said'[r]) = Range(said[r]) \cup {e}  BY <1>0, <2>1, <2>5, AppendRange
  <2>8. stage[r] # "ended"  BY <2>1 DEF TasksTyped, Fits
  <2>9. id[r] \in 1..Len(asked) /\ asked[id[r]] = r  BY <1>0, <2>1 DEF Owned
  <2> QED  BY <1>1, <1>4, <2>1, <2>4, <2>5, <2>6, <2>7, <2>8, <2>9
<1>6. CASE Unheard(r) /\ ~Restart
  <2>1. said'[r] = said[r]  BY <1>6 DEF Unheard
  <2>2. \A k \in Range(said'[r]) :
           /\ k.type = "output" => k.of \in 1..Len(asked') /\ asked'[k.of] = r
           /\ k.type = "done" => Tells(said'[r], k.of, k.n)
    BY <1>1, <1>3, <1>6, <2>1
  <2>3. CASE call'[r] = call[r] /\ id'[r] = id[r] /\ heard'[r] = heard[r]
    BY <1>1, <2>1, <2>2, <2>3
  <2>4. CASE CallEvent(r) /\ ~Hear(r)
    <3>1. ASSUME call'[r] = "reading"  PROVE Tells(said'[r], id'[r], Len(heard'[r]))
      <4>1. SendRequest(r) \/ SkipLine(r)
        BY <1>0, <2>4, <3>1
        DEF CallEvent, Enter, NoServer, BrokenPipe, Reply, Refuse, Desync, TooLong, NotJson,
            EndOfFile, HangUp, Abandon, Fail, CallsTyped
      <4>2. CASE SendRequest(r)
        <5>1. id'[r] = Len(asked) + 1 /\ heard'[r] = <<>> /\ Len(asked) \in Nat
          BY <1>0, <4>2, LenProperties DEF SendRequest, CallsTyped, PipesTyped, Owned
        <5>2. Told(said[r], Len(asked) + 1) = {}
          <6>1. \A k \in Range(said[r]) : k.type = "output" => k.of # Len(asked) + 1
            BY <1>1, <5>1
          <6> QED  BY <6>1 DEF Told, Range
        <5> QED  BY <2>1, <5>1, <5>2, TellsNothing, EmptySeq
      <4>3. CASE SkipLine(r)
        <5>1. call[r] = "reading" /\ id'[r] = id[r] /\ heard'[r] = heard[r]
          BY <4>3 DEF SkipLine, OwnOutput, Reads
        <5> QED  BY <1>1, <2>1, <5>1
      <4> QED  BY <4>1, <4>2, <4>3
    <3>2. ASSUME call'[r] = "answered"  PROVE Tells(said'[r], id'[r], Last(heard'[r]).n)
      <4>1. Reply(r)
        BY <1>0, <2>4, <3>2
        DEF CallEvent, Enter, NoServer, SendRequest, BrokenPipe, SkipLine, OwnOutput, Reads, Refuse,
            Desync, TooLong, NotJson, EndOfFile, HangUp, Abandon, Fail, CallsTyped
      <4>2. /\ call[r] = "reading" /\ id'[r] = id[r] /\ stdout # <<>>
            /\ Head(stdout).of = id[r] /\ Head(stdout).kind = "result"
            /\ heard'[r] = Append(heard[r], Head(stdout))
        BY <1>0, <4>1 DEF Reply, Reads, Mine, Kept, CallsTyped
      <4>3. Head(stdout).n = Len(heard[r])
        <5>1. 1 \in DOMAIN stdout /\ Head(stdout) = stdout[1]
          BY <1>0, <4>2, TailPositions DEF PipesTyped
        <5> QED  BY <1>0, <4>2, <5>1 DEF InStep, Counts
      <4>4. Last(heard'[r]) = Head(stdout)
        <5>1. Head(stdout) \in Lines /\ heard[r] \in Seq(Lines)
          BY <1>0, <4>2, ListTail DEF PipesTyped, CallsTyped
        <5> QED  BY <4>2, <5>1, AppendProperties DEF Last
      <4> QED  BY <1>1, <2>1, <4>2, <4>3, <4>4
    <3> QED  BY <2>2, <3>1, <3>2
  <2> QED  BY <1>6, <2>3, <2>4 DEF Unheard
<1>7. CASE Remarks(r) /\ ~Restart
  <2>1. PICK e \in Chunks :
          /\ said'[r] = Append(said[r], e) /\ e.type # "output"
          /\ call'[r] \notin {"reading", "answered"}
          /\ e.type = "done" => call[r] = "answered" /\ e.of = id[r] /\ e.n = Last(heard[r]).n
    BY <1>7 DEF Remarks
  <2>2. Range(said'[r]) = Range(said[r]) \cup {e}  BY <1>0, <2>1, AppendRange
  <2>3. ASSUME NEW k \in Range(said'[r]), k.type = "done"  PROVE Tells(said'[r], k.of, k.n)
    <3>1. Tells(said[r], k.of, k.n)  BY <1>1, <2>1, <2>2, <2>3
    <3> QED  BY <1>0, <2>1, <3>1, TellsNoMore
  <2>4. \A k \in Range(said'[r]) : k.type = "output" => k.of \in 1..Len(asked') /\ asked'[k.of] = r
    BY <1>1, <1>3, <1>7, <2>1, <2>2
  <2> QED  BY <2>1, <2>3, <2>4
<1> QED  BY <1>2, <1>5, <1>6, <1>7, SaidMoves
-----------------------------------------------------------------------------
(* The right answer.                                                       *)

LinesInStep == PipeInv /\ SaidAsHeard

LEMMA LinesStart == Init => LinesInStep
<1> SUFFICES ASSUME Init PROVE LinesInStep  OBVIOUS
<1>1. PipeInv  BY PipeStarts DEF Init, ServerInit
<1>2. \A r \in Runs : Range(said[r]) = {} /\ call[r] = "idle"
  BY DEF Init, ServerInit, Range, Callers
<1> QED  BY <1>1, <1>2 DEF LinesInStep, SaidAsHeard

LEMMA LinesStay == ServerAndChannels /\ LinesInStep /\ [Next]_vars => LinesInStep'
<1> SUFFICES ASSUME ServerAndChannels, LinesInStep, [Next]_vars PROVE LinesInStep'  OBVIOUS
<1> USE DEF ServerAndChannels, ChannelInv, LinesInStep
<1>1. PipeInv'  BY ServerMoves, PipeStays DEF ServerNext
<1>2. SaidAsHeard'  BY SaidStays
<1> QED  BY <1>1, <1>2

\* The lines in the pipe come request by request, each counted up without a gap
\* and closed by its result; the reader is in step with them, and what a run has
\* said of its request is what its call has heard.
THEOREM LinesInvariant == Spec => [](ServerAndChannels /\ LinesInStep)
BY StartsRight, StaysRight, LinesStart, LinesStay, PTL DEF Spec

\* Whatever calls were abandoned before it, and for any number of calls, lines and
\* runs, no call is given a line of another, and a run that says "done" has
\* broadcast each line of its last call once and in order
\* (subprocess_manager.py:287-288, :477-487).
THEOREM AnswersAreRight == Spec => []RightAnswer
<1>1. ServerAndChannels /\ LinesInStep => RightAnswer
  BY DEF LinesInStep, PipeInv, Owned, SaidAsHeard, RightAnswer
<1> QED  BY <1>1, LinesInvariant, PTL
=============================================================================
