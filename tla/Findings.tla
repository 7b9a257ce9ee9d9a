------------------------------ MODULE Findings ------------------------------
(***************************************************************************)
(* The findings of an engagement (backend/app/features/findings): every    *)
(* change reads the row, records what it read as history, updates the      *)
(* columns it changes, appends to the audit log and commits.  The row is   *)
(* read without a lock.                                                    *)
(***************************************************************************)
EXTENDS AuditChain, TLC

CONSTANTS
  FindingIds,
  Texts,     \* title, description, severity and node link
  States,    \* verification and remediation status
  NoFinding,
  MaxRequests \* bound

Row     == [text : Texts, status : States, live : BOOLEAN]
Columns == {"text", "status", "live"}
NewText == CHOOSE t \in Texts : TRUE
NewRow  == [text |-> NewText, status |-> CHOOSE s \in States : TRUE, live |-> TRUE]

\* What a request sets.
Changes == {[text |-> t] : t \in Texts} \cup {[status |-> s] : s \in States}
             \cup {[live |-> FALSE], NewRow}

ASSUME FindingsAssumption ==
  /\ NoFinding \notin Row /\ FindingIds # {} /\ MaxRequests \in Nat
  /\ Acts = {"created", "updated", "status_changed", "deleted"} \X FindingIds

VARIABLES
  row,      \* findings
  history,  \* finding_history, oldest first
  req,      \* the request of each writer
  begun     \* requests so far

findingVars == <<row, history, req, begun>>
vars == <<chainVars, readerVars, tampers, findingVars>>

Idle == [pc |-> "idle", act |-> CHOOSE a \in Acts : TRUE, seen |-> NoFinding, set |-> NewRow]

TypeOK ==
  /\ ChainTypeOK
  /\ row \in [FindingIds -> Row \cup {NoFinding}]
  /\ history \in [FindingIds -> Seq(Row)]
  /\ req \in [Writers -> [pc : {"idle", "flush", "audit", "commit"}, act : Acts,
                          seen : Row \cup {NoFinding}, set : Changes]]
  /\ begun \in 0..MaxRequests

Init ==
  /\ ChainInit
  /\ row = [f \in FindingIds |-> NoFinding]
  /\ history = [f \in FindingIds |-> <<>>]
  /\ req = [w \in Writers |-> Idle]
  /\ begun = 0

Begin(w, act, seen, set) ==
  /\ req[w].pc = "idle" /\ begun < MaxRequests /\ begun' = begun + 1
  /\ req' = [req EXCEPT ![w] = [pc |-> "flush", act |-> act, seen |-> seen, set |-> set]]
  /\ UNCHANGED <<row, history, chainVars, readerVars, tampers>>

On(w) == req[w].act[2]

\* create_finding: no row and no history to read.
Create(w, f) ==
  /\ row[f] = NoFinding /\ \A v \in Writers : req[v].pc # "idle" => On(v) # f
  /\ Begin(w, <<"created", f>>, NoFinding, NewRow)

\* update_finding, set_verification, set_remediation, delete_finding up to the
\* row they read; a row that is deleted softly is read like any other.
Change(w, f, act, set) ==
  /\ row[f] # NoFinding
  /\ Begin(w, <<act, f>>, row[f], set)

\* Broken variant: the whole row is written back.
EveryColumn(w) == Columns

\* The ORM updates the columns whose value is not the one it read.
Written(w) == {k \in DOMAIN req[w].set : req[w].seen = NoFinding \/ req[w].set[k] # req[w].seen[k]}

HasRow(w) == req[w].pc \in {"audit", "commit"} /\ Written(w) # {}

\* The history row and the UPDATE, which waits for the transaction that has
\* updated the row.
Flush(w) ==
  /\ req[w].pc = "flush"
  /\ Written(w) # {} => \A v \in Writers \ {w} : HasRow(v) => On(v) # On(w)
  /\ req' = [req EXCEPT ![w].pc = "audit"]
  /\ UNCHANGED <<row, history, begun, chainVars, readerVars, tampers>>

Audit(w) ==
  /\ req[w].pc = "audit" /\ AppendEntry(w, req[w].act)
  /\ req' = [req EXCEPT ![w].pc = "commit"]
  /\ UNCHANGED <<row, history, begun, readerVars, tampers>>

\* What the request has recorded as history: the row as it read it.
Snapshot(w) == IF req[w].seen = NoFinding THEN <<>> ELSE <<req[w].seen>>

\* The columns of the row after the commit of w.
Updated(w) ==
  LET old == row[On(w)]
      all == req[w].set @@ req[w].seen
  IN  IF old = NoFinding THEN req[w].set
      ELSE [k \in Columns |-> IF k \in Written(w) THEN all[k] ELSE old[k]]

Commit(w) ==
  /\ req[w].pc = "commit"
  /\ row' = [row EXCEPT ![On(w)] = Updated(w)]
  /\ history' = [history EXCEPT ![On(w)] = @ \o Snapshot(w)]
  /\ CommitEntries(w)
  /\ req' = [req EXCEPT ![w] = Idle]
  /\ UNCHANGED <<begun, readerVars, tampers>>

\* An error, or the end of the process: everything is rolled back, locks released.
Abort(w) ==
  /\ req[w].pc # "idle"
  /\ RollBackEntries(w)
  /\ req' = [req EXCEPT ![w] = Idle]
  /\ UNCHANGED <<row, history, begun, readerVars, tampers>>

Step(w) == Flush(w) \/ Audit(w) \/ Commit(w)

Next ==
  \/ Readers /\ UNCHANGED findingVars
  \/ Tamper /\ UNCHANGED findingVars
  \/ \E w \in Writers :
       \/ Step(w) \/ Abort(w)
       \/ \E f \in FindingIds :
            \/ Create(w, f)
            \/ \E t \in Texts : Change(w, f, "updated", [text |-> t])
            \/ \E s \in States : Change(w, f, "status_changed", [status |-> s])
            \/ Change(w, f, "deleted", [live |-> FALSE])

Spec == Init /\ [][Next]_vars
-----------------------------------------------------------------------------
(* Properties.                                                             *)

\* A commit changes the columns its request was about and no other: what another
\* request committed after this one read the row is not undone.
\* (repository.py:61-78)
NoColumnReverted ==
  [][\A f \in FindingIds : row[f] # NoFinding /\ row'[f] # row[f] =>
       \E w \in Writers :
         /\ req[w].pc = "commit" /\ req'[w].pc = "idle" /\ On(w) = f
         /\ \A k \in Columns \ DOMAIN req[w].set : row'[f][k] = row[f][k]]_vars

=============================================================================
