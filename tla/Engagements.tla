----------------------------- MODULE Engagements -----------------------------
(***************************************************************************)
(* Sessions, the members of one engagement and its settings                *)
(* (backend/app/features/auth, backend/app/features/engagements).          *)
(*                                                                         *)
(* A request carries the cookie of a session.  It is authenticated, slides *)
(* the expiry of its session in a transaction of its own, and then checks  *)
(* what its caller is to the engagement, every query being an await.  A    *)
(* change of the settings tells the admission manager of the process, by a *)
(* synchronous event, between its UPDATE and its commit; a submission hands *)
(* the manager the slot limit its first query read.                        *)
(*                                                                         *)
(* What a transaction has not committed nobody sees; the UPDATE of the     *)
(* engagement's row waits for the transaction that has updated it.         *)
(***************************************************************************)
EXTENDS Naturals, FiniteSets

CONSTANTS
  Users,
  Sessions, UserOf,  \* tokens, and whose login creates each
  Requests,          \* requests, so many at a time
  NoRequest,
  Limits,            \* values of concurrency_slot_limit
  MaxBegun, MaxRestarts  \* bounds

DefaultLimit == 3  \* of the column, and of _get_state

ASSUME EngagementAssumption ==
  /\ UserOf \in [Sessions -> Users] /\ Sessions # {} /\ "nobody" \notin Users
  /\ NoRequest \notin Requests
  /\ DefaultLimit \in Limits /\ Limits \subseteq Nat
  /\ MaxBegun \in Nat /\ MaxRestarts \in Nat

VARIABLES
  session,  \* sessions, as committed
  role,     \* engagement_members of the engagement, as committed
  row,      \* its settings as committed
  process,  \* what the admission manager of the process was told
  lock,     \* the request that has updated the row and not committed
  req,      \* where each request is
  begun, restarts,  \* requests and restarts so far
  torn,     \* settings of which the process was last told by something else than a
            \* change that commits (history)
  founder   \* who created the engagement (history)

rowVars     == <<role, row, founder>>
processVars == <<process, lock, torn>>
bounds      == <<begun, restarts>>
vars        == <<session, rowVars, processVars, req, bounds>>

Settings == [paused : BOOLEAN, limit : Limits]
Initial  == [paused |-> FALSE, limit |-> DefaultLimit]
Nobody   == "nobody"

Ops == {"logout", "create", "submit", "add", "remove", "paused", "limit"}

PCs == {"idle", "leaving", "sliding", "checking", "target", "writing", "telling",
        "committing", "acquiring"}

\* A request: what it asks for, the user and the values it names, and whether its
\* caller has been no member since it began (history).  A submission keeps in
\* limit what it has read.
Request == [pc : PCs, by : Sessions, op : Ops, on : Users, flag : BOOLEAN, limit : Limits,
            stranger : BOOLEAN]

Idle == [pc |-> "idle", by |-> CHOOSE s \in Sessions : TRUE, op |-> "logout",
         on |-> CHOOSE u \in Users : TRUE, flag |-> FALSE, limit |-> DefaultLimit,
         stranger |-> FALSE]

\* What can be asked for: values that the operation does not name are those of Idle.
Asked == {r \in Request :
            /\ r.pc = "idle" /\ r.by = Idle.by /\ ~r.stranger
            /\ r.op \in {"add", "remove"} \/ r.on = Idle.on
            /\ r.op = "paused" \/ ~r.flag
            /\ r.op = "limit" \/ r.limit = DefaultLimit}

TypeOK ==
  /\ session \in [Sessions -> {"none", "live", "lapsed", "gone"}]
  /\ role \in [Users -> {"none", "member", "owner"}]
  /\ row \in Settings /\ process \in Settings
  /\ lock \in Requests \cup {NoRequest}
  /\ req \in [Requests -> Request]
  /\ begun \in 0..MaxBegun /\ restarts \in 0..MaxRestarts
  /\ torn \in SUBSET {"paused", "limit"} /\ founder \in Users \cup {Nobody}
  /\ \A q \in Requests : lock = q <=> req[q].pc \in {"telling", "committing"}

Init ==
  /\ session = [s \in Sessions |-> "none"]
  /\ role = [u \in Users |-> "none"]
  /\ row = Initial /\ process = Initial
  /\ lock = NoRequest
  /\ req = [q \in Requests |-> Idle]
  /\ begun = 0 /\ restarts = 0 /\ torn = {} /\ founder = Nobody

Caller(q)   == UserOf[req[q].by]
Op(q)       == req[q].op
At(q, pc)   == req[q].pc = pc
Goto(q, pc) == req' = [req EXCEPT ![q].pc = pc]
End(q)      == req' = [req EXCEPT ![q] = Idle]
-----------------------------------------------------------------------------
(* Sessions.                                                               *)

\* Credentials, a new token, its row and the audit entry: one transaction.
Login(s) ==
  /\ session[s] = "none" /\ session' = [session EXCEPT ![s] = "live"]
  /\ UNCHANGED <<rowVars, processVars, req, bounds>>

\* SESSION_TTL_DAYS without a request.
Lapse(s) ==
  /\ session[s] = "live" /\ session' = [session EXCEPT ![s] = "lapsed"]
  /\ UNCHANGED <<rowVars, processVars, req, bounds>>

\* get_current_session: a session that is not there, or lapsed, gets a 401.
\* Logout asks for no more than that.
Begin(q, s, asked) ==
  /\ At(q, "idle") /\ begun < MaxBegun /\ begun' = begun + 1
  /\ session[s] = "live"
  /\ req' = [req EXCEPT ![q] =
               [asked EXCEPT !.pc = IF asked.op = "logout" THEN "leaving" ELSE "sliding",
                             !.by = s, !.stranger = role[UserOf[s]] = "none"]]
  /\ UNCHANGED <<session, rowVars, processVars, restarts>>

\* delete_session, of a row that is there or of none, the audit entry, the commit.
Logout(q) ==
  /\ At(q, "leaving") /\ End(q)
  /\ session' = [session EXCEPT ![req[q].by] = "gone"]
  /\ UNCHANGED <<rowVars, processVars, bounds>>

\* Broken variant: the refresh inserts the row it does not find.
Upserted(s) == "live"

\* refresh_session: the UPDATE of a row that is gone changes nothing.
Refreshed(s) == IF session[s] = "gone" THEN "gone" ELSE "live"

\* get_current_user: the request goes on whatever the UPDATE has found.
Slide(q) ==
  /\ At(q, "sliding")
  /\ session' = [session EXCEPT ![req[q].by] = Refreshed(req[q].by)]
  /\ Goto(q, IF Op(q) = "create" THEN "writing" ELSE "checking")
  /\ UNCHANGED <<rowVars, processVars, bounds>>
-----------------------------------------------------------------------------
(* Members.                                                                *)

\* The request q ends, and u is a member from now on.
Joined(q, u) ==
  req' = [p \in Requests |->
            IF p = q THEN Idle ELSE [req[p] EXCEPT !.stranger = @ /\ Caller(p) # u]]

\* create_engagement: its row and the owner's, in one transaction.
Create(q) ==
  /\ At(q, "writing") /\ Op(q) = "create"
  /\ IF founder = Nobody
       THEN role' = [role EXCEPT ![Caller(q)] = "owner"] /\ founder' = Caller(q)
       ELSE UNCHANGED <<role, founder>>
  /\ Joined(q, Caller(q))
  /\ UNCHANGED <<session, row, processVars, bounds>>

\* Broken variant: who is no member is taken for one.
MayAnybody(q) == Op(q) \in {"paused", "submit"} \/ role[Caller(q)] = "owner"

\* Any member pauses, resumes and submits; the rest is for the owner.
May(q) == \/ role[Caller(q)] = "owner"
          \/ role[Caller(q)] = "member" /\ Op(q) \in {"paused", "submit"}

\* The first query of the handler: what the caller is to the engagement.  A
\* submission takes the slot limit from it and then asks the process for the pause.
Check(q) ==
  /\ At(q, "checking")
  /\ IF ~May(q) \/ (Op(q) = "submit" /\ process.paused) THEN End(q)
     ELSE req' = [req EXCEPT ![q].limit = IF Op(q) = "submit" THEN row.limit ELSE @,
                             ![q].pc = CASE Op(q) = "submit" -> "acquiring"
                                         [] Op(q) \in {"add", "remove"} -> "target"
                                         [] OTHER -> "writing"]
  /\ UNCHANGED <<session, rowVars, processVars, bounds>>

\* Broken variant: an owner may remove themselves.
FitEvenSelf(q) == role[req[q].on] # "none"

\* remove_member refuses the caller and who is no member; add_member who is one.
Fit(q) == IF Op(q) = "add" THEN role[req[q].on] = "none"
          ELSE req[q].on # Caller(q) /\ role[req[q].on] # "none"

CheckTarget(q) ==
  /\ At(q, "target")
  /\ IF Fit(q) THEN Goto(q, "writing") ELSE End(q)
  /\ UNCHANGED <<session, rowVars, processVars, bounds>>

\* The INSERT fails on the primary key if another one was committed meanwhile.
AddMember(q) ==
  /\ At(q, "writing") /\ Op(q) = "add"
  /\ role' = [role EXCEPT ![req[q].on] = IF @ = "none" THEN "member" ELSE @]
  /\ Joined(q, req[q].on)
  /\ UNCHANGED <<session, row, founder, processVars, bounds>>

\* The DELETE of a row that is there or of none.
RemoveMember(q) ==
  /\ At(q, "writing") /\ Op(q) = "remove"
  /\ role' = [role EXCEPT ![req[q].on] = "none"]
  /\ End(q)
  /\ UNCHANGED <<session, row, founder, processVars, bounds>>
-----------------------------------------------------------------------------
(* Settings.                                                               *)

Free    == lock = NoRequest
Sent(q) == IF Op(q) = "paused" THEN req[q].flag ELSE req[q].limit

\* update_paused, update_engagement: the UPDATE takes the row.
Update(q) ==
  /\ At(q, "writing") /\ Op(q) \in {"paused", "limit"}
  /\ Free /\ lock' = q
  /\ Goto(q, "telling")
  /\ UNCHANGED <<session, rowVars, process, torn, bounds>>

\* Broken variant: the event carries the row as it was loaded before the UPDATE.
AnnouncedAsLoaded(q) == IF Op(q) = "paused" THEN req[q].flag ELSE row.limit

\* The pause of the request, the limit of the row read again after the UPDATE.
Announced(q) == Sent(q)

\* The row is read again, and the listener of the event called.
Tell(q) ==
  /\ At(q, "telling") /\ Goto(q, "committing")
  /\ process' = IF Op(q) = "paused" THEN [process EXCEPT !.paused = Announced(q)]
                ELSE [process EXCEPT !.limit = Announced(q)]
  /\ torn' = torn \ {Op(q)}
  /\ UNCHANGED <<session, rowVars, lock, bounds>>

Release(q) == lock' = IF lock = q THEN NoRequest ELSE lock

CommitSettings(q) ==
  /\ At(q, "committing") /\ End(q) /\ Release(q)
  /\ row' = IF Op(q) = "paused" THEN [row EXCEPT !.paused = Sent(q)]
            ELSE [row EXCEPT !.limit = Sent(q)]
  /\ UNCHANGED <<session, role, founder, process, torn, bounds>>

\* A query or the commit fails.  The process was told all the same.
Fail(q) ==
  /\ ~At(q, "idle") /\ End(q) /\ Release(q)
  /\ torn' = IF At(q, "committing") THEN torn \cup {Op(q)} ELSE torn
  /\ UNCHANGED <<session, rowVars, process, bounds>>

\* Nobody is changing the limit, and this is the one configured.
Configured(n) == row.limit = n /\ ~\E q \in Requests : lock = q /\ Op(q) = "limit"

\* acquire applies the limit of the request, however old.
Acquire(q) ==
  /\ At(q, "acquiring") /\ End(q)
  /\ process' = [process EXCEPT !.limit = req[q].limit]
  /\ torn' = IF Configured(req[q].limit) THEN torn \ {"limit"} ELSE torn \cup {"limit"}
  /\ UNCHANGED <<session, rowVars, lock, bounds>>

\* The process ends and another starts; it knows of no setting.
Restart ==
  /\ restarts < MaxRestarts /\ restarts' = restarts + 1
  /\ process' = Initial /\ lock' = NoRequest
  /\ req' = [q \in Requests |-> Idle]
  /\ torn' = {k \in {"paused", "limit"} : row[k] # Initial[k]}
  /\ UNCHANGED <<session, rowVars, begun>>
-----------------------------------------------------------------------------
Step(q) ==
  \/ Logout(q) \/ Slide(q) \/ Create(q) \/ Check(q) \/ CheckTarget(q) \/ AddMember(q)
  \/ RemoveMember(q) \/ Update(q) \/ Tell(q) \/ CommitSettings(q) \/ Acquire(q)

Next ==
  \/ \E s \in Sessions : Login(s) \/ Lapse(s)
  \/ \E q \in Requests :
       \/ Step(q) \/ Fail(q)
       \/ \E s \in Sessions, asked \in Asked : Begin(q, s, asked)
  \/ Restart

Spec == Init /\ [][Next]_vars
-----------------------------------------------------------------------------
(* Properties.                                                             *)

\* When nobody is changing the settings, the process has been told what the row
\* says, in whichever order requests wrote and committed: the event falls inside
\* the row's lock.  Not so after a failed commit, a restart, or an acquire with a
\* limit read earlier, until the next change. (engagements/service.py:137-148,
\* 274-286, mcp/concurrency.py:561)
ProcessFollowsRow ==
  Free => \A k \in {"paused", "limit"} : k \notin torn => process[k] = row[k]

\* A session that was logged out stays so, although requests that carry it are
\* still under way and slide its expiry. (auth/deps.py:65-70)
LoggedOutForGood ==
  [][\A s \in Sessions : session[s] = "gone" => session'[s] = "gone"]_session

\* An engagement never lacks its owner: the one who created it and no other.
\* (engagements/service.py:14, 313-317)
OneOwner == \A u \in Users : role[u] = "owner" <=> founder = u

\* The step of a request that changes members or settings, or tells the process.
Acts(q) ==
  /\ req[q].pc # "idle" /\ req'[q].pc # req[q].pc /\ Op(q) # "create" /\ restarts' = restarts
  /\ <<role, row, process>>' # <<role, row, process>>

\* Only the requests of somebody who has been a member since they began do so.
\* (engagements/service.py:9-13)
OnlyMembersAct == [][\A q \in Requests : Acts(q) => ~req[q].stranger]_vars

=============================================================================
