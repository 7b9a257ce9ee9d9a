----------------------------- MODULE AuditChain -----------------------------
(***************************************************************************)
(* The audit log (backend/app/features/audit): entries chained by their    *)
(* hashes, appended inside the transaction of whatever is audited, under   *)
(* the lock of the one row that says where the chain ends; the command     *)
(* that verifies the chain; and the pages it is listed in.                 *)
(*                                                                         *)
(* SHA-256 over prev_hash and the canonical content is taken for           *)
(* injective: a hash is the sequence of the contents that went into it.    *)
(***************************************************************************)
EXTENDS Naturals, Sequences, FiniteSets

CONSTANTS
  Writers,   \* transactions that append
  NoWriter,
  Acts,      \* action, actor, target and payload of an entry
  NoHead,    \* the table of the head has no row
  PageLimit, \* entries on a page
  MaxTampers \* bound: edits of the table behind the program's back

ASSUME ChainAssumption ==
  NoWriter \notin Writers /\ PageLimit \in Nat \ {0} /\ MaxTampers \in Nat

VARIABLES
  entries,  \* audit_entries as committed, by seq
  head,     \* audit_chain_head: last_seq and head_hash
  clock,    \* entries committed so far, the time of the last one
  lock,     \* the transaction that holds the head row
  own,      \* own[w]: what w has appended and not committed
  written,  \* history: every entry the program has committed since it last
            \* found no head, as it was
  scan,     \* the run of verify
  pager,    \* a client that lists page after page
  tampers   \* edits so far

chainVars  == <<entries, head, clock, lock, own, written>>
readerVars == <<scan, pager>>

\* An entry is created at the time t, which no other one has: time is counted in
\* entries.
Genesis          == <<>>
Content(n, t, a) == [seq |-> n, at |-> t, act |-> a]
Hash(prev, c)    == Append(prev, c)
Entry(h, t, a)   == [seq |-> h.seq + 1, at |-> t, act |-> a, prev |-> h.hash,
                     hash |-> Hash(h.hash, Content(h.seq + 1, t, a))]

Contents == [seq : Nat, at : Nat, act : Acts]
Entries  == [seq : Nat, at : Nat, act : Acts, prev : Seq(Contents), hash : Seq(Contents)]
Heads    == [seq : Nat, hash : Seq(Contents)]
Start    == [seq |-> 0, hash |-> Genesis]
Kinds    == {"none", "ok", "seq-gap", "content-tamper", "broken-link", "head-missing",
             "head-mismatch"}

ASSUME HeadAssumption == NoHead \notin Heads

ChainTypeOK ==
  /\ entries \in Seq(Entries) /\ head \in Heads \cup {NoHead} /\ clock \in Nat
  /\ lock \in Writers \cup {NoWriter}
  /\ own \in [Writers -> Seq(Entries)] /\ written \in Seq(Entries)
  /\ scan \in [step : {"idle", "head", "done"}, last : Heads, since : Nat, verdict : Kinds,
               dirty : BOOLEAN, raced : BOOLEAN]
  /\ pager \in [step : {"idle", "more", "done"}, got : Seq(Nat), due : SUBSET Nat]
  /\ tampers \in 0..MaxTampers

\* The migration seeds the head.
ChainInit ==
  /\ entries = <<>> /\ head = Start /\ clock = 0
  /\ lock = NoWriter /\ own = [w \in Writers |-> <<>>] /\ written = <<>>
  /\ scan = [step |-> "idle", last |-> Start, since |-> 0, verdict |-> "none",
             dirty |-> FALSE, raced |-> FALSE]
  /\ pager = [step |-> "idle", got |-> <<>>, due |-> {}]
  /\ tampers = 0
-----------------------------------------------------------------------------
(* Appending.                                                              *)

Seqs == {entries[i].seq : i \in DOMAIN entries}

\* A head that is missing is made anew.
Seeded == IF head = NoHead THEN Start ELSE head

\* The end of the chain as a transaction that holds the row sees it.
EndFor(w) == IF own[w] = <<>> THEN Seeded
            ELSE LET e == own[w][Len(own[w])] IN [seq |-> e.seq, hash |-> e.hash]

\* Broken variant: the head is read without FOR UPDATE.
Unlocked(w) == lock' = lock

\* SELECT ... FOR UPDATE waits for the transaction that has the row, and so does
\* the INSERT of a row that is missing.
Locked(w) == lock \in {NoWriter, w} /\ lock' = w

\* seq is UNIQUE: an append that would repeat one can only be rolled back.
AppendEntry(w, a) ==
  /\ Locked(w)
  /\ EndFor(w).seq + 1 \notin Seqs
  /\ own' = [own EXCEPT ![w] = Append(@, Entry(EndFor(w), clock + Len(@) + 1, a))]
  /\ UNCHANGED <<entries, head, clock, written>>

Release(w) == lock' = IF lock = w THEN NoWriter ELSE lock

\* The rows of s and, in their place among them, the new ones.
Insert(s, new) ==
  LET k == Cardinality({i \in DOMAIN s : s[i].seq < new[1].seq})
  IN  SubSeq(s, 1, k) \o new \o SubSeq(s, k + 1, Len(s))

CommitEntries(w) ==
  /\ entries' = Insert(entries, own[w]) /\ head' = EndFor(w)
  /\ clock' = clock + Len(own[w])
  /\ written' = IF head = NoHead THEN own[w] ELSE written \o own[w]
  /\ own' = [own EXCEPT ![w] = <<>>]
  /\ Release(w)

RollBackEntries(w) ==
  /\ own' = [own EXCEPT ![w] = <<>>]
  /\ Release(w)
  /\ UNCHANGED <<entries, head, clock, written>>
-----------------------------------------------------------------------------
(* Verifying.  A behaviour has one reader, a verifier or a lister: they do *)
(* not see each other.                                                     *)

\* Broken variant: the link to the entry before is not compared.
CheckAlone(e, last) ==
  CASE e.seq # last.seq + 1 -> "seq-gap"
    [] Hash(e.prev, Content(e.seq, e.at, e.act)) # e.hash -> "content-tamper"
    [] OTHER -> "ok"

\* check_entry: of several faults the first is the one reported.
CheckEntry(e, last) ==
  CASE e.seq # last.seq + 1 -> "seq-gap"
    [] Hash(e.prev, Content(e.seq, e.at, e.act)) # e.hash -> "content-tamper"
    [] e.prev # last.hash -> "broken-link"
    [] OTHER -> "ok"

\* What is expected before the i-th entry.
Before(i) == IF i = 1 THEN Start
             ELSE [seq |-> entries[i - 1].seq, hash |-> entries[i - 1].hash]

Faults == {i \in DOMAIN entries : CheckEntry(entries[i], Before(i)) # "ok"}

\* verify, its first statement: one snapshot of the entries, streamed in order,
\* up to the first fault.
ScanEntries ==
  /\ scan.step = "idle" /\ pager.step = "idle"
  /\ LET last  == Before(Len(entries) + 1)
         dirty == entries # written \/ head = NoHead
     IN  scan' = IF Faults = {}
                   THEN [scan EXCEPT !.step = "head", !.last = last, !.since = clock,
                                     !.dirty = dirty]
                   ELSE LET i == CHOOSE i \in Faults : \A j \in Faults : i <= j
                        IN  [scan EXCEPT !.step = "done", !.dirty = dirty,
                                         !.verdict = CheckEntry(entries[i], Before(i))]
  /\ UNCHANGED <<chainVars, pager, tampers>>

HeadVerdict(last) ==
  CASE head = NoHead -> "head-missing"
    [] head = last -> "ok"
    [] OTHER -> "head-mismatch"

\* Its second statement: the head, as it is by now.
ScanHead ==
  /\ scan.step = "head"
  /\ scan' = [scan EXCEPT !.step = "done", !.raced = clock > scan.since,
                          !.verdict = HeadVerdict(scan.last)]
  /\ UNCHANGED <<chainVars, pager, tampers>>

\* What the verifier is there to find: a row altered, a row altered and hashed
\* again, a row deleted, the tail deleted, the head deleted when nobody holds it.
Alter ==
  /\ \E i \in DOMAIN entries :
     LET e == entries[i] IN
     \/ LET a == CHOOSE a \in Acts : a # e.act IN
          \/ entries' = [entries EXCEPT ![i].act = a]
          \/ entries' = [entries EXCEPT
                          ![i] = Entry([seq |-> e.seq - 1, hash |-> e.prev], e.at, a)]
     \/ entries' = SubSeq(entries, 1, i - 1) \o SubSeq(entries, i + 1, Len(entries))
     \/ entries' = SubSeq(entries, 1, i - 1)
  /\ UNCHANGED head

DropHead == head # NoHead /\ lock = NoWriter /\ head' = NoHead /\ UNCHANGED entries

Tamper ==
  /\ tampers < MaxTampers /\ tampers' = tampers + 1
  /\ Alter \/ DropHead
  /\ UNCHANGED <<clock, lock, own, written, readerVars>>
-----------------------------------------------------------------------------
(* Listing, newest first.                                                  *)

\* Broken variant: the cursor is the first entry that did not fit.
BelowOverfetched(n) == {s \in Seqs : s < n - 1}

\* The rows below the cursor.
Below(n) == {s \in Seqs : s < n}

\* The newest PageLimit members of S, newest first.
Newest(S) ==
  [k \in 1..(IF Cardinality(S) < PageLimit THEN Cardinality(S) ELSE PageLimit) |->
     CHOOSE s \in S : Cardinality({t \in S : t > s}) = k - 1]

Page(S) ==
  pager' = [pager EXCEPT !.got = @ \o Newest(S),
                         !.step = IF Cardinality(S) > PageLimit THEN "more" ELSE "done",
                         !.due = IF pager.step = "idle" THEN Seqs ELSE @]

FirstPage ==
  /\ pager.step = "idle" /\ scan.step = "idle" /\ Page(Seqs)
  /\ UNCHANGED <<chainVars, scan, tampers>>

NextPage ==
  /\ pager.step = "more" /\ Page(Below(pager.got[Len(pager.got)]))
  /\ UNCHANGED <<chainVars, scan, tampers>>

Readers == ScanEntries \/ ScanHead \/ FirstPage \/ NextPage
-----------------------------------------------------------------------------
(* Properties.                                                             *)

\* Whatever transactions append side by side, commit or roll back, the committed
\* entries are one chain from the genesis to the head. (repository.py:3-9)
ChainIntact == tampers = 0 => Faults = {} /\ head = Before(Len(entries) + 1)

\* The verifier passes no chain that differed, when it was scanned, from what the
\* program had committed since it last found no head; of one that did not differ it
\* complains only if the head moved on or was deleted after the scan.
\* (verify.py:3-23, 112-160)
VerdictTrue ==
  scan.step = "done" =>
    /\ scan.verdict = "ok" => ~scan.dirty
    /\ scan.verdict # "ok" /\ ~scan.dirty =>
         \/ scan.verdict = "head-mismatch" /\ scan.raced
         \/ scan.verdict = "head-missing" /\ tampers > 0

\* Pages neither overlap nor skip, although entries arrive between them: the
\* listing holds every entry there was when it began. (repository.py:145-155)
PagesComplete ==
  /\ \A i, j \in DOMAIN pager.got : i < j => pager.got[i] > pager.got[j]
  /\ pager.step = "done" /\ tampers = 0 => pager.due \subseteq {pager.got[i] : i \in DOMAIN pager.got}

=============================================================================
