------------------------- MODULE Engagements_proofs -------------------------
(***************************************************************************)
(* Any number of users, sessions, requests and restarts: the process       *)
(* follows the row, the engagement keeps its owner, a session that was     *)
(* logged out stays so, and strangers change nothing.                      *)
(***************************************************************************)
EXTENDS Engagements, TLAPS

\* What the process was told of a setting is what the row says, or what the
\* transaction that holds the row is about to say.
Announcing(k) == lock \in Requests /\ At(lock, "committing") /\ Op(lock) = k

PausedOK ==
  "paused" \notin torn =>
     process.paused = IF Announcing("paused") THEN req[lock].flag ELSE row.paused
LimitOK ==
  "limit" \notin torn =>
     process.limit = IF Announcing("limit") THEN req[lock].limit ELSE row.limit

\* Who has been a stranger since the request began is one now, and has not got
\* past the check; who has got past it to the members is the founder, and removes
\* somebody else.
RequestOK(q) ==
  /\ req[q].stranger => /\ role[Caller(q)] = "none"
                        /\ \/ req[q].pc \in {"idle", "leaving", "sliding", "checking"}
                           \/ Op(q) = "create"
  /\ req[q].pc \in {"target", "writing"} /\ Op(q) \in {"add", "remove"} => founder = Caller(q)
  /\ req[q].pc = "writing" /\ Op(q) = "remove" => req[q].on # Caller(q)
  /\ req[q].pc = "target" => Op(q) \in {"add", "remove"}
  /\ req[q].pc = "acquiring" => Op(q) = "submit"
  /\ req[q].pc \in {"telling", "committing"} => Op(q) \in {"paused", "limit"}

IInv ==
  /\ TypeOK
  /\ OneOwner
  /\ PausedOK
  /\ LimitOK
  /\ \A q \in Requests : RequestOK(q)

-----------------------------------------------------------------------------
(* Types.                                                                  *)

USE EngagementAssumption

LEMMA IdleTyped == Idle \in Request /\ Idle.pc = "idle" /\ Idle.stranger = FALSE
<1>1. PICK s \in Sessions : TRUE
  OBVIOUS
<1>2. UserOf[s] \in Users
  BY <1>1
<1> DEFINE by == CHOOSE t \in Sessions : TRUE
           on == CHOOSE u \in Users : TRUE
<1>3. by \in Sessions /\ on \in Users
  BY <1>1, <1>2
<1>4. Idle = [pc |-> "idle", by |-> by, op |-> "logout", on |-> on, flag |-> FALSE,
              limit |-> DefaultLimit, stranger |-> FALSE]
  BY DEF Idle
<1> HIDE DEF by, on
<1>5. "idle" \in PCs /\ "logout" \in Ops /\ DefaultLimit \in Limits
  BY DEF PCs, Ops
<1>6. Idle \in Request
  BY <1>3, <1>4, <1>5 DEF Request
<1>7. Idle.pc = "idle" /\ Idle.stranger = FALSE
  BY <1>4
<1> QED
  BY <1>6, <1>7

LEMMA InitialTyped == Initial \in Settings
BY DEF Initial, Settings

LEMMA InitTyped == Init => TypeOK
<1> SUFFICES ASSUME Init PROVE TypeOK
  OBVIOUS
<1>1. req \in [Requests -> Request] /\ \A q \in Requests : req[q] = Idle
  BY IdleTyped DEF Init
<1>2. row \in Settings /\ process \in Settings
  BY InitialTyped DEF Init
<1> QED
  BY <1>1, <1>2, IdleTyped DEF Init, TypeOK, Nobody

\* Each request that moves on or ends leaves the others where they are.
LEMMA GotoTyped ==
  ASSUME TypeOK, NEW q \in Requests, NEW c \in PCs, Goto(q, c)
  PROVE  /\ req' \in [Requests -> Request]
         /\ req'[q] = [req[q] EXCEPT !.pc = c]
         /\ \A p \in Requests \ {q} : req'[p] = req[p]
<1>1. req[q] \in Request
  BY DEF TypeOK
<1>2. [req[q] EXCEPT !.pc = c] \in Request
  BY <1>1 DEF Request
<1> QED
  BY <1>2 DEF TypeOK, Goto

LEMMA EndTyped ==
  ASSUME TypeOK, NEW q \in Requests, End(q)
  PROVE  /\ req' \in [Requests -> Request]
         /\ req'[q] = Idle
         /\ \A p \in Requests \ {q} : req'[p] = req[p]
BY IdleTyped DEF TypeOK, End

LEMMA JoinedTyped ==
  ASSUME TypeOK, NEW q \in Requests, NEW u \in Users, Joined(q, u)
  PROVE  /\ req' \in [Requests -> Request]
         /\ req'[q] = Idle
         /\ \A p \in Requests \ {q} :
              /\ req'[p] = [req[p] EXCEPT !.stranger = req[p].stranger /\ Caller(p) # u]
              /\ req'[p].pc = req[p].pc /\ req'[p].op = req[p].op /\ req'[p].by = req[p].by
              /\ req'[p].on = req[p].on /\ req'[p].flag = req[p].flag /\ req'[p].limit = req[p].limit
<1>1. ASSUME NEW p \in Requests
      PROVE  [req[p] EXCEPT !.stranger = req[p].stranger /\ Caller(p) # u] \in Request
  <2>1. req[p] \in Request /\ (req[p].stranger /\ Caller(p) # u) \in BOOLEAN
    BY DEF TypeOK
  <2> QED
    BY <2>1 DEF Request
<1>2. \A p \in Requests \ {q} : req[p] \in Request
  BY DEF TypeOK
<1>3. \A p \in Requests \ {q} :
        req'[p] = [req[p] EXCEPT !.stranger = req[p].stranger /\ Caller(p) # u]
  BY DEF Joined
<1> QED
  BY <1>1, <1>2, <1>3, IdleTyped DEF Joined, Request

-----------------------------------------------------------------------------
(* Sessions and checks: one request moves on without the row.              *)

Holding == {"telling", "committing"}

\* A request outside the row moves on: nothing else is disturbed.
LEMMA QuietStep ==
  ASSUME IInv, NEW q \in Requests,
         req' \in [Requests -> Request], \A p \in Requests \ {q} : req'[p] = req[p],
         req[q].pc \notin Holding, req'[q].pc \notin Holding, RequestOK(q)',
         UNCHANGED <<rowVars, processVars, restarts>>,
         session' \in [Sessions -> {"none", "live", "lapsed", "gone"}], begun' \in 0..MaxBegun
  PROVE  IInv'
<1>1. \A p \in Requests : lock' = p <=> req'[p].pc \in Holding
  BY DEF IInv, TypeOK, processVars, Holding
<1>2. TypeOK'
  BY <1>1 DEF IInv, TypeOK, rowVars, processVars, Holding, Settings, Nobody
<1>3. OneOwner'
  BY DEF IInv, OneOwner, rowVars
<1>4. lock \in Requests => lock # q /\ req'[lock] = req[lock]
  BY DEF IInv, TypeOK, Holding
<1>5. PausedOK' /\ LimitOK'
  BY <1>4 DEF IInv, PausedOK, LimitOK, Announcing, At, Op, rowVars, processVars
<1>6. ASSUME NEW p \in Requests \ {q} PROVE RequestOK(p)'
  BY <1>6 DEF IInv, RequestOK, Caller, Op, rowVars
<1> QED
  BY <1>2, <1>3, <1>5, <1>6 DEF IInv

LEMMA IdleOK ==
  ASSUME NEW q \in Requests, req'[q] = Idle
  PROVE  RequestOK(q)' /\ req'[q].pc = "idle" /\ req'[q].pc \notin Holding
BY IdleTyped DEF RequestOK, Holding

\* What the typing of one request says.
LEMMA Typed ==
  ASSUME IInv, NEW q \in Requests
  PROVE  /\ TypeOK /\ RequestOK(q)
         /\ req[q] \in Request /\ req[q].by \in Sessions /\ req[q].on \in Users
         /\ req[q].limit \in Limits /\ req[q].flag \in BOOLEAN /\ Caller(q) \in Users
         /\ lock = q <=> req[q].pc \in Holding
<1>1. req[q] \in Request /\ TypeOK /\ RequestOK(q)
  BY DEF IInv, TypeOK
<1> QED
  BY <1>1 DEF Request, Caller, TypeOK, Holding

LEMMA SessionSteps ==
  ASSUME IInv, NEW s \in Sessions, Login(s) \/ Lapse(s)
  PROVE  IInv'
<1>1. session' \in [Sessions -> {"none", "live", "lapsed", "gone"}]
  BY DEF IInv, TypeOK, Login, Lapse
<1>2. UNCHANGED <<rowVars, processVars, req, bounds>>
  BY DEF Login, Lapse
<1>3. TypeOK'
  BY <1>1, <1>2 DEF IInv, TypeOK, rowVars, processVars, bounds, Settings, Nobody
<1> QED
  BY <1>2, <1>3 DEF IInv, OneOwner, PausedOK, LimitOK, Announcing, At, Op, RequestOK, Caller,
                    rowVars, processVars

LEMMA BeginStep ==
  ASSUME IInv, NEW q \in Requests, NEW s \in Sessions, NEW asked \in Asked, Begin(q, s, asked)
  PROVE  IInv'
<1> DEFINE c == IF asked.op = "logout" THEN "leaving" ELSE "sliding"
           out == role[UserOf[s]] = "none"
           r == [asked EXCEPT !.pc = c, !.by = s, !.stranger = out]
<1>1. asked \in Request /\ c \in PCs /\ out \in BOOLEAN
  BY DEF Asked, PCs
<1>2. /\ r \in Request /\ r.pc = c /\ r.by = s /\ r.op = asked.op
  BY <1>1 DEF Request
<1>3. r.stranger = out
  BY <1>1 DEF Request
<1>4. req' = [req EXCEPT ![q] = r] /\ At(q, "idle")
  BY DEF Begin
<1> HIDE DEF r
<1>5. /\ req' \in [Requests -> Request] /\ req'[q] = r
      /\ \A p \in Requests \ {q} : req'[p] = req[p]
  BY <1>2, <1>4 DEF IInv, TypeOK
<1>6. UNCHANGED <<rowVars, processVars, restarts, session>> /\ begun' \in 0..MaxBegun
  BY DEF Begin, IInv, TypeOK
<1>7. r.stranger => role'[UserOf[s]] = "none"
  BY <1>3, <1>6 DEF rowVars
<1>8. RequestOK(q)'
  BY <1>2, <1>5, <1>7 DEF RequestOK, Caller
<1>9. req[q].pc \notin Holding /\ req'[q].pc \notin Holding
  BY <1>2, <1>4, <1>5 DEF At, Holding
<1> QED
  BY <1>5, <1>6, <1>8, <1>9, QuietStep DEF IInv, TypeOK

LEMMA LogoutStep ==
  ASSUME IInv, NEW q \in Requests, Logout(q)
  PROVE  IInv'
<1>1. TypeOK /\ req[q].by \in Sessions /\ req[q].pc \notin Holding
  BY Typed DEF Logout, At, Holding
<1>2. /\ req' \in [Requests -> Request] /\ req'[q] = Idle
      /\ \A p \in Requests \ {q} : req'[p] = req[p]
  BY <1>1, EndTyped DEF Logout
<1>3. session' \in [Sessions -> {"none", "live", "lapsed", "gone"}]
  BY <1>1 DEF TypeOK, Logout
<1> QED
  BY <1>1, <1>2, <1>3, IdleOK, QuietStep DEF Logout, bounds, TypeOK

LEMMA SlideStep ==
  ASSUME IInv, NEW q \in Requests, Slide(q)
  PROVE  IInv'
<1> DEFINE c == IF Op(q) = "create" THEN "writing" ELSE "checking"
<1>1. TypeOK /\ req[q].by \in Sessions /\ RequestOK(q) /\ req[q].pc = "sliding" /\ req[q] \in Request
  BY Typed DEF Slide, At
<1>2. c \in PCs /\ Goto(q, c)
  BY DEF PCs, Slide
<1>3. /\ req' \in [Requests -> Request] /\ req'[q] = [req[q] EXCEPT !.pc = c]
      /\ \A p \in Requests \ {q} : req'[p] = req[p]
  BY <1>1, <1>2, GotoTyped
<1>4. session' \in [Sessions -> {"none", "live", "lapsed", "gone"}]
  BY <1>1 DEF TypeOK, Slide, Refreshed
<1>5. RequestOK(q)' /\ req'[q].pc \notin Holding /\ req[q].pc \notin Holding
  BY <1>1, <1>3 DEF RequestOK, Slide, Op, Caller, Holding, rowVars, Request
<1> QED
  BY <1>1, <1>3, <1>4, <1>5, QuietStep DEF Slide, bounds, TypeOK

LEMMA CheckStep ==
  ASSUME IInv, NEW q \in Requests, Check(q)
  PROVE  IInv'
<1>1. TypeOK /\ RequestOK(q) /\ req[q].pc = "checking" /\ req[q] \in Request /\ req[q].pc \notin Holding
  BY Typed DEF Check, At, Holding
<1>2. /\ UNCHANGED <<rowVars, processVars, restarts>> /\ begun' \in 0..MaxBegun
      /\ session' \in [Sessions -> {"none", "live", "lapsed", "gone"}]
  BY <1>1 DEF Check, bounds, TypeOK
<1>3. CASE ~May(q) \/ (Op(q) = "submit" /\ process.paused)
  <2>1. End(q)
    BY <1>3 DEF Check
  <2> QED
    BY <1>1, <1>2, <2>1, EndTyped, IdleOK, QuietStep
<1>4. CASE ~(~May(q) \/ (Op(q) = "submit" /\ process.paused))
  <2> DEFINE n == IF Op(q) = "submit" THEN row.limit ELSE req[q].limit
             c == IF Op(q) = "submit" THEN "acquiring"
                  ELSE IF Op(q) \in {"add", "remove"} THEN "target" ELSE "writing"
             r == [req[q] EXCEPT !.limit = n, !.pc = c]
  <2>1. req' = [req EXCEPT ![q].limit = n, ![q].pc = c]
    BY <1>4, Zenon DEF Check
  <2>2. n \in Limits /\ c \in PCs
    BY <1>1 DEF TypeOK, Settings, Request, PCs
  <2>3. r \in Request /\ r.pc = c /\ r.op = req[q].op /\ r.by = req[q].by /\ r.on = req[q].on
    BY <1>1, <2>2 DEF Request
  <2>4. r.stranger = req[q].stranger
    BY <1>1 DEF Request
  <2>5. req' = [req EXCEPT ![q] = r]
    BY <1>1, <2>1 DEF TypeOK
  <2>6. May(q)
    BY <1>4
  <2>7. role[Caller(q)] # "none" /\ (Op(q) \in {"add", "remove"} => role[Caller(q)] = "owner")
    BY <2>6 DEF May
  <2>8. Op(q) \in {"add", "remove"} => founder = Caller(q)
    BY <2>7, Typed DEF IInv, OneOwner
  <2> HIDE DEF r
  <2>9. /\ req' \in [Requests -> Request] /\ req'[q] = r
        /\ \A p \in Requests \ {q} : req'[p] = req[p]
    BY <1>1, <2>3, <2>5 DEF TypeOK
  <2>10. RequestOK(q)'
    BY <1>1, <1>2, <2>3, <2>4, <2>7, <2>8, <2>9 DEF RequestOK, Op, Caller, rowVars
  <2>11. req'[q].pc \notin Holding
    BY <2>3, <2>9 DEF Holding
  <2> QED
    BY <1>1, <1>2, <2>9, <2>10, <2>11, QuietStep
<1> QED
  BY <1>3, <1>4

LEMMA CheckTargetStep ==
  ASSUME IInv, NEW q \in Requests, CheckTarget(q)
  PROVE  IInv'
<1>1. TypeOK /\ RequestOK(q) /\ req[q].pc = "target" /\ req[q] \in Request /\ req[q].pc \notin Holding
  BY Typed DEF CheckTarget, At, Holding
<1>2. /\ UNCHANGED <<rowVars, processVars, restarts>> /\ begun' \in 0..MaxBegun
      /\ session' \in [Sessions -> {"none", "live", "lapsed", "gone"}]
  BY <1>1 DEF CheckTarget, bounds, TypeOK
<1>3. CASE ~Fit(q)
  <2>1. End(q)
    BY <1>3 DEF CheckTarget
  <2> QED
    BY <1>1, <1>2, <2>1, EndTyped, IdleOK, QuietStep
<1>4. CASE Fit(q)
  <2>1. Goto(q, "writing") /\ "writing" \in PCs
    BY <1>4 DEF CheckTarget, PCs
  <2>2. /\ req' \in [Requests -> Request] /\ req'[q] = [req[q] EXCEPT !.pc = "writing"]
        /\ \A p \in Requests \ {q} : req'[p] = req[p]
    BY <1>1, <2>1, GotoTyped
  <2>3. Op(q) = "remove" => req[q].on # Caller(q)
    BY <1>4 DEF Fit
  <2>4. RequestOK(q)' /\ req'[q].pc \notin Holding
    BY <1>1, <1>2, <2>2, <2>3 DEF RequestOK, Op, Caller, Holding, rowVars, Request
  <2> QED
    BY <1>1, <1>2, <2>2, <2>4, QuietStep
<1> QED
  BY <1>3, <1>4

-----------------------------------------------------------------------------
(* Members: a request writes and ends.                                     *)

LEMMA MembersStep ==
  ASSUME IInv, NEW q \in Requests, req[q].pc = "writing",
         req' \in [Requests -> Request], req'[q] = Idle,
         \A p \in Requests \ {q} :
            /\ req'[p].pc = req[p].pc /\ req'[p].op = req[p].op /\ req'[p].by = req[p].by
            /\ req'[p].on = req[p].on /\ req'[p].flag = req[p].flag /\ req'[p].limit = req[p].limit
            /\ req'[p].stranger => req[p].stranger /\ role'[Caller(p)] = "none",
         role' \in [Users -> {"none", "member", "owner"}], OneOwner',
         founder' \in Users \cup {Nobody}, founder # Nobody => founder' = founder,
         UNCHANGED <<session, row, processVars, bounds>>
  PROVE  IInv'
<1>1. \A p \in Requests : lock' = p <=> req'[p].pc \in Holding
  BY IdleTyped DEF IInv, TypeOK, processVars, Holding
<1>2. TypeOK'
  BY <1>1 DEF IInv, TypeOK, processVars, bounds, Holding
<1>3. PausedOK' /\ LimitOK'
  <2>1. lock \in Requests => lock # q
    BY DEF IInv, TypeOK
  <2> QED
    BY <2>1 DEF IInv, PausedOK, LimitOK, Announcing, At, Op, processVars
<1>4. ASSUME NEW p \in Requests \ {q} PROVE RequestOK(p)'
  <2>1. RequestOK(p) /\ Caller(p) \in Users /\ "nobody" \notin Users
    BY Typed
  <2>2. Caller(p)' = Caller(p) /\ Op(p)' = Op(p) /\ (founder = Caller(p) => founder' = founder)
    BY <2>1 DEF Caller, Op, Nobody
  <2> QED
    BY <2>1, <2>2 DEF RequestOK
<1>5. RequestOK(q)'
  BY IdleOK
<1> QED
  BY <1>2, <1>3, <1>4, <1>5 DEF IInv

LEMMA CreateStep ==
  ASSUME IInv, NEW q \in Requests, Create(q)
  PROVE  IInv'
<1> DEFINE u == Caller(q)
<1>1. TypeOK /\ u \in Users /\ req[q].pc = "writing" /\ Joined(q, u)
  BY Typed DEF Create, At
<1>2. founder = Nobody =>
        role' = [role EXCEPT ![u] = "owner"] /\ founder' = u /\ \A v \in Users : role[v] # "owner"
  BY DEF Create, IInv, OneOwner, Nobody
<1>3. founder # Nobody => UNCHANGED <<role, founder>>
  BY DEF Create
<1> HIDE DEF u
<1>4. /\ req' \in [Requests -> Request] /\ req'[q] = Idle
      /\ \A p \in Requests \ {q} :
           /\ req'[p] = [req[p] EXCEPT !.stranger = req[p].stranger /\ Caller(p) # u]
           /\ req'[p].pc = req[p].pc /\ req'[p].op = req[p].op /\ req'[p].by = req[p].by
           /\ req'[p].on = req[p].on /\ req'[p].flag = req[p].flag /\ req'[p].limit = req[p].limit
  BY <1>1, JoinedTyped
<1>5. role' \in [Users -> {"none", "member", "owner"}] /\ founder' \in Users \cup {Nobody} /\ OneOwner'
  BY <1>1, <1>2, <1>3 DEF TypeOK, IInv, OneOwner
<1>6. ASSUME NEW p \in Requests \ {q}, req'[p].stranger
      PROVE  req[p].stranger /\ role'[Caller(p)] = "none"
  <2>1. req[p] \in Request /\ Caller(p) \in Users /\ RequestOK(p)
    BY Typed
  <2>2. req'[p].stranger = (req[p].stranger /\ Caller(p) # u)
    BY <1>4, <2>1 DEF Request
  <2>3. req[p].stranger /\ Caller(p) # u
    BY <1>6, <2>2
  <2>4. role[Caller(p)] = "none"
    BY <2>1, <2>3 DEF RequestOK
  <2> QED
    BY <1>1, <1>2, <1>3, <2>1, <2>3, <2>4 DEF TypeOK
<1>7. UNCHANGED <<session, row, processVars, bounds>>
  BY DEF Create
<1> QED
  BY <1>1, <1>2, <1>3, <1>4, <1>5, <1>6, <1>7, MembersStep

LEMMA AddStep ==
  ASSUME IInv, NEW q \in Requests, AddMember(q)
  PROVE  IInv'
<1> DEFINE u == req[q].on
<1>1. TypeOK /\ u \in Users /\ req[q].pc = "writing" /\ Joined(q, u)
  BY Typed DEF AddMember, At
<1>2. role' = [role EXCEPT ![u] = IF role[u] = "none" THEN "member" ELSE role[u]] /\ founder' = founder
  BY DEF AddMember
<1> HIDE DEF u
<1>4. /\ req' \in [Requests -> Request] /\ req'[q] = Idle
      /\ \A p \in Requests \ {q} :
           /\ req'[p] = [req[p] EXCEPT !.stranger = req[p].stranger /\ Caller(p) # u]
           /\ req'[p].pc = req[p].pc /\ req'[p].op = req[p].op /\ req'[p].by = req[p].by
           /\ req'[p].on = req[p].on /\ req'[p].flag = req[p].flag /\ req'[p].limit = req[p].limit
  BY <1>1, JoinedTyped
<1>5. role' \in [Users -> {"none", "member", "owner"}] /\ founder' \in Users \cup {Nobody} /\ OneOwner'
  BY <1>1, <1>2 DEF TypeOK, IInv, OneOwner
<1>6. ASSUME NEW p \in Requests \ {q}, req'[p].stranger
      PROVE  req[p].stranger /\ role'[Caller(p)] = "none"
  <2>1. req[p] \in Request /\ Caller(p) \in Users /\ RequestOK(p)
    BY Typed
  <2>2. req'[p].stranger = (req[p].stranger /\ Caller(p) # u)
    BY <1>4, <2>1 DEF Request
  <2>3. req[p].stranger /\ Caller(p) # u
    BY <1>6, <2>2
  <2>4. role[Caller(p)] = "none"
    BY <2>1, <2>3 DEF RequestOK
  <2> QED
    BY <1>1, <1>2, <2>1, <2>3, <2>4 DEF TypeOK
<1>7. UNCHANGED <<session, row, processVars, bounds>>
  BY DEF AddMember
<1> QED
  BY <1>1, <1>2, <1>4, <1>5, <1>6, <1>7, MembersStep

LEMMA RemoveStep ==
  ASSUME IInv, NEW q \in Requests, RemoveMember(q)
  PROVE  IInv'
<1> DEFINE u == req[q].on
<1>1. TypeOK /\ u \in Users /\ req[q].pc = "writing" /\ Op(q) = "remove" /\ End(q) /\ RequestOK(q)
  BY Typed DEF RemoveMember, At
<1>2. role' = [role EXCEPT ![u] = "none"] /\ UNCHANGED <<session, row, founder, processVars, bounds>>
  BY DEF RemoveMember
<1>3. founder = Caller(q) /\ u # founder
  BY <1>1 DEF RequestOK
<1> HIDE DEF u
<1>4. /\ req' \in [Requests -> Request] /\ req'[q] = Idle
      /\ \A p \in Requests \ {q} : req'[p] = req[p]
  BY <1>1, EndTyped
<1>5. role' \in [Users -> {"none", "member", "owner"}] /\ founder' \in Users \cup {Nobody} /\ OneOwner'
  BY <1>1, <1>2, <1>3 DEF TypeOK, IInv, OneOwner
<1>6. ASSUME NEW p \in Requests \ {q}, req'[p].stranger
      PROVE  req[p].stranger /\ role'[Caller(p)] = "none"
  <2>1. Caller(p) \in Users /\ RequestOK(p) /\ req[p].stranger
    BY <1>4, <1>6, Typed
  <2> QED
    BY <1>1, <1>2, <2>1 DEF RequestOK, TypeOK
<1> QED
  BY <1>1, <1>2, <1>4, <1>5, <1>6, MembersStep

-----------------------------------------------------------------------------
(* Settings: the row, the process and the transaction between them.        *)

LEMMA OthersOK ==
  ASSUME IInv, NEW p \in Requests, req'[p] = req[p], UNCHANGED <<role, founder>>
  PROVE  RequestOK(p)'
BY DEF IInv, RequestOK, Caller, Op

LEMMA UpdateStep ==
  ASSUME IInv, NEW q \in Requests, Update(q)
  PROVE  IInv'
<1>1. /\ TypeOK /\ RequestOK(q) /\ req[q].pc = "writing" /\ req[q] \in Request
      /\ Op(q) \in {"paused", "limit"} /\ lock = NoRequest /\ lock' = q
      /\ UNCHANGED <<session, role, row, founder, process, torn, bounds>>
  BY Typed DEF Update, At, Free, rowVars
<1>2. /\ req' \in [Requests -> Request] /\ req'[q] = [req[q] EXCEPT !.pc = "telling"]
      /\ \A p \in Requests \ {q} : req'[p] = req[p]
  BY <1>1, GotoTyped DEF Update, PCs
<1>3. req'[q].pc = "telling" /\ Op(q)' = Op(q) /\ Caller(q)' = Caller(q)
      /\ req'[q].stranger = req[q].stranger
  BY <1>1, <1>2 DEF Request, Op, Caller
<1>4. \A p \in Requests : lock' = p <=> req'[p].pc \in Holding
  BY <1>1, <1>2, <1>3 DEF TypeOK, Holding
<1>5. TypeOK'
  BY <1>1, <1>2, <1>4 DEF TypeOK, Holding, bounds
<1>6. PausedOK' /\ LimitOK'
  BY <1>1, <1>3 DEF IInv, PausedOK, LimitOK, Announcing, At, Op
<1>7. RequestOK(q)'
  BY <1>1, <1>3 DEF RequestOK
<1> QED
  BY <1>1, <1>2, <1>5, <1>6, <1>7, OthersOK DEF IInv, OneOwner

LEMMA TellStep ==
  ASSUME IInv, NEW q \in Requests, Tell(q)
  PROVE  IInv'
<1>1. /\ TypeOK /\ RequestOK(q) /\ req[q].pc = "telling" /\ req[q] \in Request
      /\ Op(q) \in {"paused", "limit"} /\ lock = q /\ lock' = q
      /\ UNCHANGED <<session, role, row, founder, bounds>>
  BY Typed DEF Tell, At, Holding, rowVars, RequestOK
<1>2. /\ req' \in [Requests -> Request] /\ req'[q] = [req[q] EXCEPT !.pc = "committing"]
      /\ \A p \in Requests \ {q} : req'[p] = req[p]
  BY <1>1, GotoTyped DEF Tell, PCs
<1>3. req'[q].pc = "committing" /\ Op(q)' = Op(q) /\ Caller(q)' = Caller(q)
      /\ req'[q].stranger = req[q].stranger /\ req'[q].flag = req[q].flag
      /\ req'[q].limit = req[q].limit
  BY <1>1, <1>2 DEF Request, Op, Caller
<1>4. \A p \in Requests : lock' = p <=> req'[p].pc \in Holding
  BY <1>1, <1>2, <1>3 DEF TypeOK, Holding
<1>5. /\ Op(q) = "paused" => process' = [process EXCEPT !.paused = req[q].flag]
      /\ Op(q) = "limit" => process' = [process EXCEPT !.limit = req[q].limit]
      /\ torn' = torn \ {Op(q)}
  BY DEF Tell, Announced, Sent
<1>6. process' \in Settings
  BY <1>1, <1>5 DEF TypeOK, Settings, Request
<1>7. TypeOK'
  BY <1>1, <1>2, <1>4, <1>5, <1>6 DEF TypeOK, Holding, bounds
<1>8. /\ Op(q) = "paused" => process'.paused = req[q].flag /\ process'.limit = process.limit
      /\ Op(q) = "limit" => process'.limit = req[q].limit /\ process'.paused = process.paused
  BY <1>1, <1>5 DEF TypeOK, Settings
<1>9. Announcing("paused") = FALSE /\ Announcing("limit") = FALSE
  BY <1>1 DEF Announcing, At
<1>10. RequestOK(q)'
  BY <1>1, <1>3 DEF RequestOK
<1>11. PausedOK'
  BY <1>1, <1>3, <1>5, <1>8, <1>9 DEF IInv, PausedOK, Announcing, At
<1>12. LimitOK'
  BY <1>1, <1>3, <1>5, <1>8, <1>9 DEF IInv, LimitOK, Announcing, At
<1> QED
  BY <1>1, <1>2, <1>7, <1>10, <1>11, <1>12, OthersOK DEF IInv, OneOwner

LEMMA CommitStep ==
  ASSUME IInv, NEW q \in Requests, CommitSettings(q)
  PROVE  IInv'
<1>1. /\ TypeOK /\ req[q].pc = "committing" /\ req[q] \in Request /\ RequestOK(q)
      /\ Op(q) \in {"paused", "limit"} /\ lock = q /\ lock' = NoRequest
      /\ UNCHANGED <<session, role, founder, process, torn, bounds>>
  BY Typed DEF CommitSettings, At, Holding, RequestOK, Release
<1>2. /\ req' \in [Requests -> Request] /\ req'[q] = Idle
      /\ \A p \in Requests \ {q} : req'[p] = req[p]
  BY <1>1, EndTyped DEF CommitSettings
<1>3. \A p \in Requests : lock' = p <=> req'[p].pc \in Holding
  BY <1>1, <1>2, IdleTyped DEF TypeOK, Holding
<1>4. /\ Op(q) = "paused" => row' = [row EXCEPT !.paused = req[q].flag]
      /\ Op(q) = "limit" => row' = [row EXCEPT !.limit = req[q].limit]
  BY DEF CommitSettings, Sent
<1>5. row' \in Settings
  BY <1>1, <1>4 DEF TypeOK, Settings, Request
<1>6. TypeOK'
  BY <1>1, <1>2, <1>3, <1>5 DEF TypeOK, Holding, bounds
<1>7. /\ row'.paused = IF Op(q) = "paused" THEN req[q].flag ELSE row.paused
      /\ row'.limit = IF Op(q) = "limit" THEN req[q].limit ELSE row.limit
  BY <1>1, <1>4 DEF TypeOK, Settings
<1>8. PausedOK' /\ LimitOK'
  BY <1>1, <1>7 DEF IInv, PausedOK, LimitOK, Announcing, At
<1> QED
  BY <1>1, <1>2, <1>6, <1>8, OthersOK, IdleOK DEF IInv, OneOwner

LEMMA FailStep ==
  ASSUME IInv, NEW q \in Requests, Fail(q)
  PROVE  IInv'
<1>1. /\ TypeOK /\ req[q] \in Request /\ RequestOK(q) /\ req[q].pc # "idle"
      /\ lock = q <=> req[q].pc \in Holding
      /\ lock' = IF lock = q THEN NoRequest ELSE lock
      /\ torn' = IF req[q].pc = "committing" THEN torn \cup {Op(q)} ELSE torn
      /\ UNCHANGED <<session, role, row, founder, process, bounds>>
  BY Typed DEF Fail, At, Release, rowVars
<1>2. /\ req' \in [Requests -> Request] /\ req'[q] = Idle
      /\ \A p \in Requests \ {q} : req'[p] = req[p]
  BY <1>1, EndTyped DEF Fail
<1>3. \A p \in Requests : lock' = p <=> req'[p].pc \in Holding
  BY <1>1, <1>2, IdleTyped DEF TypeOK, Holding
<1>4. req[q].pc = "committing" => Op(q) \in {"paused", "limit"}
  BY <1>1 DEF RequestOK
<1>5. TypeOK'
  BY <1>1, <1>2, <1>3, <1>4 DEF TypeOK, Holding, bounds
<1>6. lock \in Requests \ {q} => lock' = lock /\ req'[lock] = req[lock]
  BY <1>1, <1>2
<1>7. PausedOK'
  BY <1>1, <1>4, <1>6 DEF IInv, PausedOK, Announcing, At, Op
<1>8. LimitOK'
  BY <1>1, <1>4, <1>6 DEF IInv, LimitOK, Announcing, At, Op
<1> QED
  BY <1>1, <1>2, <1>5, <1>7, <1>8, OthersOK, IdleOK DEF IInv, OneOwner

LEMMA AcquireStep ==
  ASSUME IInv, NEW q \in Requests, Acquire(q)
  PROVE  IInv'
<1>1. /\ TypeOK /\ req[q] \in Request /\ req[q].pc = "acquiring" /\ req[q].limit \in Limits
      /\ lock # q /\ process' = [process EXCEPT !.limit = req[q].limit]
      /\ torn' = IF Configured(req[q].limit) THEN torn \ {"limit"} ELSE torn \cup {"limit"}
      /\ UNCHANGED <<session, role, row, founder, lock, bounds>>
  BY Typed DEF Acquire, At, Holding, rowVars
<1>2. /\ req' \in [Requests -> Request] /\ req'[q] = Idle
      /\ \A p \in Requests \ {q} : req'[p] = req[p]
  BY <1>1, EndTyped DEF Acquire
<1>3. \A p \in Requests : lock' = p <=> req'[p].pc \in Holding
  BY <1>1, <1>2, IdleTyped DEF TypeOK, Holding
<1>4. process' \in Settings /\ process'.limit = req[q].limit /\ process'.paused = process.paused
  BY <1>1 DEF TypeOK, Settings
<1>5. TypeOK'
  BY <1>1, <1>2, <1>3, <1>4 DEF TypeOK, Holding, bounds
<1>6. lock \in Requests => lock' = lock /\ req'[lock] = req[lock]
  BY <1>1, <1>2
<1>7. PausedOK'
  BY <1>1, <1>4, <1>6 DEF IInv, PausedOK, Announcing, At, Op
<1>8. Configured(req[q].limit) => row.limit = req[q].limit /\ ~Announcing("limit")
  BY DEF Configured, Announcing
<1>9. LimitOK'
  BY <1>1, <1>4, <1>6, <1>8 DEF LimitOK, Announcing, At, Op
<1> QED
  BY <1>1, <1>2, <1>5, <1>7, <1>9, OthersOK, IdleOK DEF IInv, OneOwner

LEMMA RestartStep ==
  ASSUME IInv, Restart
  PROVE  IInv'
<1>1. /\ TypeOK /\ process' = Initial /\ lock' = NoRequest
      /\ torn' = {k \in {"paused", "limit"} : row[k] # Initial[k]}
      /\ restarts' \in 0..MaxRestarts
      /\ UNCHANGED <<session, role, row, founder, begun>>
  BY DEF IInv, TypeOK, Restart, rowVars
<1>2. req' \in [Requests -> Request] /\ \A q \in Requests : req'[q] = Idle
  BY IdleTyped DEF Restart
<1>3. TypeOK'
  BY <1>1, <1>2, IdleTyped, InitialTyped DEF TypeOK
<1>4. "paused" \notin torn' => row.paused = Initial.paused
  BY <1>1
<1>5. "limit" \notin torn' => row.limit = Initial.limit
  BY <1>1
<1>6. PausedOK' /\ LimitOK'
  BY <1>1, <1>4, <1>5 DEF PausedOK, LimitOK, Announcing
<1>7. \A q \in Requests : RequestOK(q)'
  BY <1>2, IdleOK
<1> QED
  BY <1>1, <1>3, <1>6, <1>7 DEF IInv, OneOwner

-----------------------------------------------------------------------------
(* The theorems.                                                           *)

LEMMA InitOK == Init => IInv
<1> SUFFICES ASSUME Init PROVE IInv
  OBVIOUS
<1>1. TypeOK
  BY InitTyped
<1>2. OneOwner
  BY DEF Init, OneOwner, Nobody
<1>3. PausedOK /\ LimitOK
  BY DEF Init, PausedOK, LimitOK, Announcing
<1>4. \A q \in Requests : RequestOK(q)
  BY IdleTyped DEF Init, RequestOK
<1> QED
  BY <1>1, <1>2, <1>3, <1>4 DEF IInv

LEMMA NextOK == IInv /\ [Next]_vars => IInv'
<1> SUFFICES ASSUME IInv, [Next]_vars PROVE IInv'
  OBVIOUS
<1>1. CASE \E s \in Sessions : Login(s) \/ Lapse(s)
  BY <1>1, SessionSteps
<1>2. ASSUME NEW q \in Requests, Step(q)
      PROVE  IInv'
  BY <1>2, LogoutStep, SlideStep, CreateStep, CheckStep, CheckTargetStep, AddStep, RemoveStep,
     UpdateStep, TellStep, CommitStep, AcquireStep DEF Step
<1>3. ASSUME NEW q \in Requests, Fail(q) \/ \E s \in Sessions, asked \in Asked : Begin(q, s, asked)
      PROVE  IInv'
  BY <1>3, FailStep, BeginStep
<1>4. CASE Restart
  BY <1>4, RestartStep
<1>5. CASE UNCHANGED vars
  BY <1>5 DEF vars, rowVars, processVars, bounds, IInv, TypeOK, OneOwner, PausedOK, LimitOK,
              Announcing, At, Op, RequestOK, Caller
<1> QED
  BY <1>1, <1>2, <1>3, <1>4, <1>5 DEF Next

\* The inductive invariant, for every execution. (engagements/service.py)
THEOREM SettingsInvariant == Spec => []IInv
<1>1. Init => IInv
  BY InitOK
<1>2. IInv /\ [Next]_vars => IInv'
  BY NextOK
<1> QED
  BY <1>1, <1>2, PTL DEF Spec

\* Every variable keeps its type. (engagements/models.py:23-91)
THEOREM SettingsTyped == Spec => []TypeOK
<1>1. IInv => TypeOK
  BY DEF IInv
<1> QED
  BY <1>1, SettingsInvariant, PTL

\* The engagement keeps the owner who created it. (engagements/service.py:313-317)
THEOREM OwnerStays == Spec => []OneOwner
<1>1. IInv => OneOwner
  BY DEF IInv
<1> QED
  BY <1>1, SettingsInvariant, PTL

\* With the row free, the process was told what the row says.
\* (engagements/service.py:137-148, 274-286)
THEOREM ProcessTold == Spec => []ProcessFollowsRow
<1>1. IInv => ProcessFollowsRow
  <2> SUFFICES ASSUME IInv, Free, "paused" \notin torn \/ "limit" \notin torn
               PROVE  /\ "paused" \notin torn => process["paused"] = row["paused"]
                      /\ "limit" \notin torn => process["limit"] = row["limit"]
    BY DEF ProcessFollowsRow
  <2>1. ~Announcing("paused") /\ ~Announcing("limit")
    BY DEF Free, Announcing
  <2> QED
    BY <2>1 DEF IInv, PausedOK, LimitOK
<1> QED
  BY <1>1, SettingsInvariant, PTL

\* A session that was logged out stays so. (auth/deps.py:65-70)
THEOREM LogoutFinal == Spec => LoggedOutForGood
<1>1. IInv /\ [Next]_vars => [\A s \in Sessions : session[s] = "gone" => session'[s] = "gone"]_session
  <2> SUFFICES ASSUME IInv, Next
               PROVE  \/ \A s \in Sessions : session[s] = "gone" => session'[s] = "gone"
                      \/ session' = session
    BY DEF vars
  <2>1. session \in [Sessions -> {"none", "live", "lapsed", "gone"}]
    BY DEF IInv, TypeOK
  <2>2. CASE \E s \in Sessions : Login(s) \/ Lapse(s)
    BY <2>1, <2>2 DEF Login, Lapse
  <2>3. ASSUME NEW q \in Requests, Logout(q) \/ Slide(q)
        PROVE  \A s \in Sessions : session[s] = "gone" => session'[s] = "gone"
    BY <2>1, <2>3 DEF Logout, Slide, Refreshed
  <2>4. ASSUME NEW q \in Requests, Step(q), ~Logout(q), ~Slide(q)
        PROVE  session' = session
    BY <2>4 DEF Step, Create, Check, CheckTarget, AddMember, RemoveMember, Update, Tell,
                CommitSettings, Acquire
  <2>5. ASSUME NEW q \in Requests, Fail(q) \/ \E s \in Sessions, asked \in Asked : Begin(q, s, asked)
        PROVE  session' = session
    BY <2>5 DEF Fail, Begin
  <2>6. CASE Restart
    BY <2>6 DEF Restart
  <2> QED
    BY <2>2, <2>3, <2>4, <2>5, <2>6 DEF Next
<1> QED
  BY <1>1, SettingsInvariant, PTL DEF Spec, LoggedOutForGood

\* Who has been no member since the request began changes neither the members nor
\* the settings, and tells the process nothing. (engagements/service.py:9-13)
THEOREM StrangersChangeNothing == Spec => OnlyMembersAct
<1>1. ASSUME IInv, Next, NEW q \in Requests, Acts(q), req[q].stranger
      PROVE  FALSE
  <2>1. RequestOK(q) /\ TypeOK
    BY <1>1, Typed
  <2>2. req[q].pc \in {"idle", "leaving", "sliding", "checking"}
    BY <1>1, <2>1 DEF RequestOK, Acts
  <2>3. ASSUME \E s \in Sessions : Login(s) \/ Lapse(s)
        PROVE  FALSE
    BY <1>1, <2>3 DEF Acts, Login, Lapse, rowVars, processVars
  <2>4. ASSUME NEW p \in Requests, Fail(p) \/ \E s \in Sessions, asked \in Asked : Begin(p, s, asked)
        PROVE  FALSE
    BY <1>1, <2>4 DEF Acts, Fail, Begin, rowVars, processVars
  <2>5. ASSUME NEW p \in Requests, Logout(p) \/ Slide(p) \/ Check(p) \/ CheckTarget(p) \/ Update(p)
        PROVE  FALSE
    BY <1>1, <2>5 DEF Acts, Logout, Slide, Check, CheckTarget, Update, rowVars, processVars
  <2>6. ASSUME NEW p \in Requests, Tell(p) \/ CommitSettings(p) \/ Acquire(p) \/ RemoveMember(p)
        PROVE  FALSE
    <3>1. p # q
      BY <2>2, <2>6 DEF Tell, CommitSettings, Acquire, RemoveMember, At
    <3>2. req'[q] = req[q]
      <4>1. Goto(p, "committing") \/ End(p)
        BY <2>6 DEF Tell, CommitSettings, Acquire, RemoveMember
      <4> QED
        BY <2>1, <3>1, <4>1 DEF TypeOK, Goto, End
    <3> QED
      BY <1>1, <3>2 DEF Acts
  <2>7. ASSUME NEW p \in Requests, Create(p) \/ AddMember(p)
        PROVE  FALSE
    <3>1. p # q
      BY <1>1, <2>2, <2>7 DEF Acts, Create, AddMember, At
    <3>2. PICK u \in Users : Joined(p, u)
      BY <1>1, <2>7, Typed DEF Create, AddMember
    <3>3. req'[q].pc = req[q].pc
      BY <2>1, <3>1, <3>2, JoinedTyped
    <3> QED
      BY <1>1, <3>3 DEF Acts
  <2>8. ~Restart
    BY <1>1, <2>1 DEF Acts, Restart, TypeOK
  <2> QED
    BY <1>1, <2>3, <2>4, <2>5, <2>6, <2>7, <2>8 DEF Next, Step
<1>2. IInv /\ [Next]_vars => [\A q \in Requests : Acts(q) => ~req[q].stranger]_vars
  BY <1>1 DEF Acts, vars, rowVars, processVars
<1> QED
  BY <1>2, SettingsInvariant, PTL DEF Spec, OnlyMembersAct

=============================================================================
