-------------------------- MODULE Findings_proofs ---------------------------
(***************************************************************************)
(* Any number of writers, findings and edits behind the program's back.    *)
(* What the program commits is one chain that ends where the head says,    *)
(* the verifier tells a table that differs from it from one that does not, *)
(* a listing has every entry there was when it began, and no commit undoes *)
(* another one.                                                            *)
(***************************************************************************)
EXTENDS Findings, SequenceTheorems, FiniteSetTheorems, WellFoundedInduction, TLAPS

PCs == {"idle", "flush", "audit", "commit"}

\* Requests are records, one for each writer.
Shape ==
  /\ req = [w \in Writers |-> req[w]]
  /\ \A w \in Writers :
       /\ req[w] = [pc |-> req[w].pc, act |-> req[w].act, seen |-> req[w].seen, set |-> req[w].set]
       /\ req[w].pc \in PCs /\ req[w].act \in Acts

\* The entry that follows the end of the chain.
Following(a) == Entry(Seeded, clock + 1, a)

\* Who has appended holds the head row, and has linked its entry to it; nobody
\* else holds the row.
HolderOK(w) ==
  IF req[w].pc = "commit" THEN lock = w /\ own[w] = <<Following(req[w].act)>>
                          ELSE lock # w /\ own[w] = <<>>

\* What is expected before the i-th entry of s.
Prior(s, i) == IF i = 1 THEN Start
               ELSE [seq |-> s[i - 1].seq, hash |-> s[i - 1].hash]

\* Where s ends.
End(s) == Prior(s, Len(s) + 1)

\* The end of a chain whose last entry is e.
EndAt(e) == [seq |-> e.seq, hash |-> e.hash]

\* A sequence of entries the verifier finds no fault in.
Sound(s) ==
  /\ s \in Seq(Entries)
  /\ \A i \in 1..Len(s) : CheckEntry(s[i], Prior(s, i)) = "ok"

\* What the program has committed since it last found no head is one chain up to
\* the head, whatever was done to the table.
Chain == Sound(written) /\ (head # NoHead => head = End(written))

\* Entries created by the time t.
Rows(t) == {e \in Entries : e.seq >= 1 /\ e.at <= t}

\* Edits of the table add nothing to it.
Table ==
  /\ entries \in Seq(Rows(clock))
  /\ tampers = 0 => entries = written /\ head # NoHead

IInv ==
  /\ tampers \in Nat /\ clock \in Nat /\ head \in Heads \cup {NoHead}
  /\ lock \in Writers \cup {NoWriter} /\ own = [w \in Writers |-> own[w]]
  /\ Shape
  /\ \A w \in Writers : HolderOK(w)
  /\ Chain /\ Table

USE ChainAssumption, HeadAssumption

-----------------------------------------------------------------------------
(* Entries and the chain.                                                  *)

\* An entry linked to the end h follows it.
LEMMA EntryFollows ==
  ASSUME NEW h \in Heads, NEW t \in Nat, NEW a \in Acts
  PROVE  /\ Entry(h, t, a) \in Entries /\ EndAt(Entry(h, t, a)) \in Heads
         /\ CheckEntry(Entry(h, t, a), h) = "ok"
         /\ Entry(h, t, a).seq = h.seq + 1 /\ Entry(h, t, a).at = t
         /\ Entry(h, t, a).hash = Append(h.hash, [seq |-> h.seq + 1, at |-> t, act |-> a])
<1> DEFINE c == Content(h.seq + 1, t, a)
<1>1. h.seq \in Nat /\ h.hash \in Seq(Contents)
  BY DEF Heads
<1>2. c \in Contents
  BY <1>1 DEF Content, Contents
<1>3. Hash(h.hash, c) \in Seq(Contents)
  BY <1>1, <1>2 DEF Hash
<1>4. Entry(h, t, a) = [seq |-> h.seq + 1, at |-> t, act |-> a, prev |-> h.hash,
                        hash |-> Hash(h.hash, c)]
  BY DEF Entry
<1>5. /\ Entry(h, t, a).seq = h.seq + 1 /\ Entry(h, t, a).act = a /\ Entry(h, t, a).prev = h.hash
      /\ Entry(h, t, a).at = t /\ Entry(h, t, a).hash = Hash(h.hash, c)
  BY <1>4
<1>6. Entry(h, t, a) \in Entries
  BY <1>1, <1>3, <1>4 DEF Entries
<1>7. EndAt(Entry(h, t, a)) \in Heads
  BY <1>1, <1>3, <1>5 DEF Heads, EndAt
<1>8. CheckEntry(Entry(h, t, a), h) = "ok"
  BY <1>5 DEF CheckEntry
<1> QED
  BY <1>5, <1>6, <1>7, <1>8 DEF Hash, Content

\* To append the entry that follows the end keeps the sequence sound.
LEMMA SoundGrows ==
  ASSUME NEW s, Sound(s), NEW e \in Entries, CheckEntry(e, End(s)) = "ok"
  PROVE  Sound(s \o <<e>>) /\ End(s \o <<e>>) = EndAt(e)
<1> DEFINE t == s \o <<e>>
           n == Len(s)
<1>1. s \in Seq(Entries) /\ n \in Nat /\ <<e>> \in Seq(Entries) /\ Len(<<e>>) = 1 /\ <<e>>[1] = e
  BY LenProperties DEF Sound
<1>2. /\ t \in Seq(Entries) /\ Len(t) = n + 1
      /\ \A i \in 1..n : t[i] = s[i]
      /\ t[n + 1] = e
  BY <1>1, ConcatProperties
<1> HIDE DEF t
<1>3. \A i \in 1..n : CheckEntry(s[i], Prior(s, i)) = "ok"
  BY DEF Sound
<1>4. End(s) = Prior(s, n + 1)
  BY DEF End
<1> HIDE DEF n
<1>5. \A i \in 1..(n + 1) : Prior(t, i) = Prior(s, i)
  BY <1>1, <1>2 DEF Prior
<1>6. ASSUME NEW i \in 1..(n + 1) PROVE CheckEntry(t[i], Prior(t, i)) = "ok"
  <2>1. CASE i = n + 1
    BY <1>1, <1>2, <1>4, <1>5, <2>1
  <2>2. CASE i # n + 1
    <3>1. i \in 1..n
      BY <1>1, <2>2
    <3> QED
      BY <1>2, <1>3, <1>5, <3>1
  <2> QED
    BY <2>1, <2>2
<1>7. Sound(t)
  BY <1>2, <1>6 DEF Sound
<1>8. End(t) = EndAt(e)
  BY <1>1, <1>2 DEF End, Prior, EndAt
<1> QED
  BY <1>7, <1>8 DEF t

LEMMA SmallestOf ==
  ASSUME NEW T \in SUBSET Nat, T # {}
  PROVE  \E n \in T : \A m \in T : n <= m
<1>1. PICK n \in T : \A m \in T : <<m, n>> \notin OpToRel(<, Nat)
  BY WFMin, NatLessThanWellFounded, Zenon
<1>2. ASSUME NEW m \in T PROVE ~(m < n)
  <2>1. m \in Nat /\ n \in Nat
    OBVIOUS
  <2>2. m < n => <<m, n>> \in OpToRel(<, Nat)
    BY <2>1, Zenon DEF OpToRel
  <2> QED
    BY <1>1, <2>2, Zenon
<1> QED
  BY <1>2

\* What the three comparisons of check_entry establish together.
LEMMA LinkedEntry ==
  ASSUME NEW s, Sound(s), NEW i \in 1..Len(s)
  PROVE  /\ s[i] \in Entries
         /\ s[i].seq = Prior(s, i).seq + 1 /\ s[i].prev = Prior(s, i).hash
         /\ s[i].hash = Append(s[i].prev, [seq |-> s[i].seq, at |-> s[i].at, act |-> s[i].act])
<1>1. s[i] \in Entries
  BY ElementOfSeq DEF Sound
<1>2. CheckEntry(s[i], Prior(s, i)) = "ok"
  BY DEF Sound
<1> DEFINE e == s[i]
           p == Prior(s, i)
           h == Append(e.prev, [seq |-> e.seq, at |-> e.at, act |-> e.act])
<1>3. CheckEntry(e, p) = CASE e.seq # p.seq + 1 -> "seq-gap"
                           [] h # e.hash -> "content-tamper"
                           [] e.prev # p.hash -> "broken-link"
                           [] OTHER -> "ok"
  BY DEF CheckEntry, Hash, Content
<1> HIDE DEF e, p, h
<1>4. e.seq = p.seq + 1 /\ h = e.hash /\ e.prev = p.hash
  BY <1>2, <1>3 DEF e, p
<1> QED
  BY <1>1, <1>4 DEF e, p, h

\* Sequence numbers are positions.
LEMMA SeqIsPosition ==
  ASSUME NEW s, Sound(s), NEW i \in 1..Len(s)
  PROVE  s[i].seq = i
<1> DEFINE T == {k \in 1..Len(s) : s[k].seq # k}
<1>1. Len(s) \in Nat
  BY LenProperties DEF Sound
<1>2. SUFFICES ASSUME T # {} PROVE FALSE
  OBVIOUS
<1>3. T \in SUBSET Nat
  BY <1>1
<1> HIDE DEF T
<1>4. PICK k \in T : \A m \in T : k <= m
  BY <1>2, <1>3, SmallestOf
<1>5. k \in 1..Len(s) /\ s[k].seq # k
  BY <1>4 DEF T
<1>6. s[k].seq = Prior(s, k).seq + 1
  BY <1>5, LinkedEntry
<1>7. CASE k = 1
  BY <1>5, <1>6, <1>7 DEF Prior, Start
<1>8. CASE k # 1
  <2> DEFINE j == k - 1
  <2>1. j \in 1..Len(s) /\ j < k /\ k = j + 1
    BY <1>1, <1>5, <1>8
  <2>2. Prior(s, k).seq = s[j].seq
    BY <1>8 DEF Prior
  <2> HIDE DEF j
  <2>3. j \notin T
    <3>1. j \in Nat /\ k \in Nat
      BY <2>1, <1>5, <1>1
    <3> QED
      BY <3>1, <1>4, <2>1
  <2>4. s[j].seq = j
    BY <2>1, <2>3 DEF T
  <2> QED
    BY <1>5, <1>6, <2>1, <2>2, <2>4
<1> QED
  BY <1>7, <1>8

\* A sound sequence ends with its length.
LEMMA EndIsLength ==
  ASSUME NEW s, Sound(s)
  PROVE  Len(s) \in Nat /\ End(s) \in Heads /\ End(s).seq = Len(s)
<1> DEFINE n == Len(s)
<1>1. n \in Nat
  BY LenProperties DEF Sound
<1>2. CASE n = 0
  BY <1>2 DEF End, Prior, Heads, Start, Genesis
<1>3. CASE n # 0
  <2>1. n \in 1..Len(s)
    BY <1>1, <1>3
  <2>2. End(s) = [seq |-> s[n].seq, hash |-> s[n].hash]
    BY <1>1, <1>3 DEF End, Prior
  <2> HIDE DEF n
  <2>3. s[n] \in Entries /\ s[n].seq = n
    BY <2>1, LinkedEntry, SeqIsPosition
  <2> QED
    BY <2>2, <2>3 DEF Entries, Heads, n
<1> QED
  BY <1>1, <1>2, <1>3

\* Rows are put in their place among the others: nothing is lost, and after all of
\* them when their numbers are the largest.
LEMMA InsertKeeps ==
  ASSUME NEW S, NEW s \in Seq(S), NEW e \in S
  PROVE  /\ Insert(s, <<e>>) \in Seq(S)
         /\ (\A i \in 1..Len(s) : s[i].seq < e.seq) => Insert(s, <<e>>) = s \o <<e>>
<1> DEFINE n == Len(s)
           low == {i \in 1..n : s[i].seq < e.seq}
           k == Cardinality(low)
<1>1. n \in Nat /\ DOMAIN s = 1..n /\ \A i \in 1..n : s[i] \in S
  BY ElementOfSeq, LenProperties
<1>2. IsFiniteSet(1..n) /\ Cardinality(1..n) = n
  <2>1. 1 \in Int /\ n \in Int /\ n \in Nat
    BY <1>1
  <2> HIDE DEF n
  <2>2. Cardinality(1..n) = IF 1 > n THEN 0 ELSE n - 1 + 1
    BY <2>1, FS_Interval
  <2> QED
    BY <2>1, <2>2, FS_Interval
<1>3. k \in 0..n
  <2>1. IsFiniteSet(low) /\ k <= n
    BY <1>2, FS_Subset
  <2>2. k \in Nat
    BY <2>1, FS_CardinalityType
  <2> QED
    BY <1>1, <2>1, <2>2
<1>4. Insert(s, <<e>>) = SubSeq(s, 1, k) \o <<e>> \o SubSeq(s, k + 1, n)
  BY <1>1 DEF Insert
<1>5. low = 1..n => k = n
  BY <1>2
<1>6. (\A i \in 1..n : s[i].seq < e.seq) => low = 1..n
  OBVIOUS
<1> HIDE DEF low, k
<1> DEFINE l == SubSeq(s, 1, k)
           r == SubSeq(s, k + 1, n)
<1>7. l \in Seq(S) /\ r \in Seq(S) /\ <<e>> \in Seq(S)
  <2>1. /\ 1 \in Int /\ k \in Int /\ k + 1 \in Int /\ n \in Int
        /\ \A i \in 1..k : s[i] \in S
        /\ \A i \in (k + 1)..n : s[i] \in S
    BY <1>1, <1>3
  <2> HIDE DEF n
  <2> QED
    BY <2>1, SubSeqProperties
<1>8. k = n => l = s /\ r = <<>>
  <2>1. SubSeq(s, 1, n) = s
    BY SubSeqFull
  <2>2. n + 1 \in Int /\ n \in Int /\ n < n + 1
    BY <1>1
  <2> HIDE DEF n
  <2>3. SubSeq(s, n + 1, n) = <<>>
    BY <2>2, SubSeqEmpty
  <2> QED
    BY <2>1, <2>3
<1> HIDE DEF l, r, n
<1>9. l \o <<e>> \in Seq(S) /\ (l \o <<e>>) \o r \in Seq(S)
  BY <1>7, ConcatProperties
<1>10. (l \o <<e>>) \o <<>> = l \o <<e>>
  BY <1>9, ConcatEmptySeq
<1>11. Insert(s, <<e>>) = (l \o <<e>>) \o r
  BY <1>4 DEF l, r
<1> QED
  BY <1>5, <1>6, <1>8, <1>9, <1>10, <1>11 DEF n

\* A commit of the entry that follows, on a chain that goes on or begins anew.
LEMMA LogGrows ==
  ASSUME Chain, Table, head \in Heads \cup {NoHead}, clock \in Nat, NEW a \in Acts,
         tampers' = tampers, entries' = Insert(entries, <<Following(a)>>),
         written' = IF head = NoHead THEN <<Following(a)>> ELSE written \o <<Following(a)>>,
         head' = EndAt(Following(a)), clock' = clock + 1
  PROVE  Chain' /\ Table' /\ head' \in Heads
<1> DEFINE e == Following(a)
           base == IF head = NoHead THEN <<>> ELSE written
<1>1. Sound(base) /\ Seeded = End(base) /\ Seeded \in Heads
  <2>1. Sound(<<>>) /\ End(<<>>) = Start /\ Start \in Heads
    BY DEF Sound, End, Prior, Start, Heads, Genesis
  <2> QED
    BY <2>1 DEF Seeded, Chain
<1>2. /\ e \in Entries /\ CheckEntry(e, Seeded) = "ok" /\ EndAt(e) \in Heads
      /\ e.seq = Seeded.seq + 1 /\ e.at = clock + 1
  <2>1. clock + 1 \in Nat
    OBVIOUS
  <2> QED
    BY <1>1, <2>1, EntryFollows DEF Following
<1>3. head' = EndAt(e) /\ entries' = Insert(entries, <<e>>)
  OBVIOUS
<1>4. written' = base \o <<e>>
  <2>1. <<e>> \in Seq(Entries)
    BY <1>2
  <2>2. <<>> \o <<e>> = <<e>>
    BY <2>1, ConcatEmptySeq
  <2> QED
    BY <2>2
<1> HIDE DEF e
<1>5. Sound(base \o <<e>>) /\ End(base \o <<e>>) = EndAt(e)
  BY <1>1, <1>2, SoundGrows
<1>6. Chain' /\ head' \in Heads
  <2> DEFINE t == base \o <<e>>
  <2>1. Sound(t) /\ End(t) = EndAt(e) /\ written' = t
    BY <1>4, <1>5
  <2> HIDE DEF t
  <2> QED
    BY <1>2, <1>3, <2>1 DEF Chain, Sound, End, Prior
<1>7. entries \in Seq(Rows(clock')) /\ e \in Rows(clock')
  <2>1. Rows(clock) \subseteq Rows(clock')
    BY DEF Rows, Entries
  <2>2. entries \in Seq(Rows(clock'))
    <3>1. entries \in Seq(Rows(clock))
      BY DEF Table
    <3> QED
      BY <2>1, <3>1, SeqMonotonic
  <2>3. Seeded.seq \in Nat
    BY <1>1 DEF Heads
  <2> QED
    BY <1>2, <2>2, <2>3 DEF Rows
<1>8. entries' \in Seq(Rows(clock'))
  BY <1>3, <1>7, InsertKeeps
<1>9. ASSUME tampers = 0
      PROVE  entries' = written' /\ head' # NoHead
  <2>1. entries = written /\ Seeded = head /\ head = End(written) /\ Sound(written) /\ base = written
    BY <1>9 DEF Table, Chain, Seeded
  <2>2. \A i \in 1..Len(entries) : entries[i].seq < e.seq
    <3>1. \A i \in 1..Len(written) : written[i].seq = i
      BY <2>1, SeqIsPosition
    <3>2. Len(written) \in Nat /\ End(written).seq = Len(written)
      BY <2>1, EndIsLength
    <3> QED
      BY <1>2, <2>1, <3>1, <3>2
  <2>3. Insert(entries, <<e>>) = entries \o <<e>>
    BY <1>7, <2>2, InsertKeeps
  <2> QED
    BY <1>3, <1>4, <1>6, <2>1, <2>3
<1> QED
  BY <1>6, <1>8, <1>9 DEF Table

\* The chain and the table depend on these variables only.
LEMMA LogSame ==
  ASSUME Chain, Table, UNCHANGED <<entries, head, clock, written, tampers>>
  PROVE  Chain' /\ Table'
BY DEF Chain, Table, Sound, End, CheckEntry, Prior, Rows

\* The verifier finds no fault in a sound table.
LEMMA SoundIsFaultless ==
  ASSUME entries \in Seq(Entries)
  PROVE  Faults = {} <=> Sound(entries)
<1>1. DOMAIN entries = 1..Len(entries)
  BY LenProperties
<1>2. \A i : Before(i) = Prior(entries, i)
  BY DEF Before, Prior
<1> QED
  BY <1>1, <1>2 DEF Sound, Faults

-----------------------------------------------------------------------------
(* Steps.                                                                  *)

\* A request goes from a state without the row to another: the log is left alone.
LEMMA OwnStep ==
  ASSUME IInv, NEW w \in Writers, NEW r,
         r = [pc |-> r.pc, act |-> r.act, seen |-> r.seen, set |-> r.set],
         r.pc \in PCs, r.act \in Acts, r.pc # "commit", req[w].pc # "commit",
         req' = [req EXCEPT ![w] = r],
         UNCHANGED <<entries, head, clock, lock, own, written, tampers>>
  PROVE  IInv'
<1>1. req'[w] = r /\ \A v \in Writers \ {w} : req'[v] = req[v]
  BY DEF IInv, Shape
<1>2. Shape'
  BY <1>1 DEF IInv, Shape
<1>3. \A v \in Writers : HolderOK(v)'
  BY <1>1 DEF IInv, HolderOK, Following, Seeded, Entry, Content
<1>4. (Chain /\ Table)'
  BY LogSame DEF IInv
<1> QED
  BY <1>2, <1>3, <1>4 DEF IInv

LEMMA BeginStep ==
  ASSUME IInv, NEW w \in Writers, NEW a \in Acts, NEW seen, NEW set, Begin(w, a, seen, set)
  PROVE  IInv'
<1> DEFINE r == [pc |-> "flush", act |-> a, seen |-> seen, set |-> set]
<1>1. /\ r = [pc |-> r.pc, act |-> r.act, seen |-> r.seen, set |-> r.set]
      /\ r.pc = "flush" /\ r.act = a
  OBVIOUS
<1>2. /\ req' = [req EXCEPT ![w] = r] /\ req[w].pc = "idle"
      /\ UNCHANGED <<entries, head, clock, lock, own, written, tampers>>
  BY DEF Begin, chainVars
<1> HIDE DEF r
<1>3. r.pc \in PCs /\ r.act \in Acts /\ r.pc # "commit" /\ req[w].pc # "commit"
  BY <1>1, <1>2 DEF PCs
<1> QED
  BY <1>1, <1>2, <1>3, OwnStep

\* The record of a request with another pc.
LEMMA PcStep ==
  ASSUME IInv, NEW w \in Writers, NEW c \in PCs
  PROVE  /\ [req[w] EXCEPT !.pc = c] =
              [pc |-> c, act |-> req[w].act, seen |-> req[w].seen, set |-> req[w].set]
         /\ [req EXCEPT ![w].pc = c] = [req EXCEPT ![w] = [req[w] EXCEPT !.pc = c]]
BY DEF IInv, Shape

LEMMA FlushStep ==
  ASSUME IInv, NEW w \in Writers, Flush(w)
  PROVE  IInv'
<1> DEFINE r == [req[w] EXCEPT !.pc = "audit"]
<1>1. "audit" \in PCs /\ req[w].act \in Acts
  BY DEF PCs, IInv, Shape
<1>2. r = [pc |-> "audit", act |-> req[w].act, seen |-> req[w].seen, set |-> req[w].set]
      /\ req' = [req EXCEPT ![w] = r]
  BY <1>1, PcStep DEF Flush
<1>3. req[w].pc = "flush" /\ UNCHANGED <<entries, head, clock, lock, own, written, tampers>>
  BY DEF Flush, chainVars
<1>4. r = [pc |-> r.pc, act |-> r.act, seen |-> r.seen, set |-> r.set]
      /\ r.pc \in PCs /\ r.act \in Acts /\ r.pc # "commit"
  BY <1>1, <1>2
<1> HIDE DEF r
<1> QED
  BY <1>2, <1>3, <1>4, OwnStep

LEMMA AuditStep ==
  ASSUME IInv, NEW w \in Writers, Audit(w)
  PROVE  IInv'
<1> DEFINE r == [req[w] EXCEPT !.pc = "commit"]
<1>1. "commit" \in PCs /\ req[w].act \in Acts
  BY DEF PCs, IInv, Shape
<1>2. r = [pc |-> "commit", act |-> req[w].act, seen |-> req[w].seen, set |-> req[w].set]
      /\ req' = [req EXCEPT ![w] = r]
  BY <1>1, PcStep DEF Audit
<1>3. /\ req[w].pc = "audit" /\ lock \in {NoWriter, w} /\ lock' = w
      /\ own' = [own EXCEPT ![w] = Append(own[w], Entry(EndFor(w), clock + Len(own[w]) + 1, req[w].act))]
      /\ UNCHANGED <<entries, head, clock, written, tampers>>
  BY DEF Audit, AppendEntry, Locked
<1>4. own[w] = <<>> /\ \A v \in Writers \ {w} : req[v].pc # "commit"
  BY <1>3 DEF IInv, HolderOK
<1>5. Append(own[w], Entry(EndFor(w), clock + Len(own[w]) + 1, req[w].act)) = <<Following(req[w].act)>>
  <2>1. Len(own[w]) = 0 /\ EndFor(w) = Seeded /\ clock \in Nat
    BY <1>4 DEF EndFor, IInv
  <2>2. clock + Len(own[w]) + 1 = clock + 1
    BY <2>1
  <2> QED
    BY <1>4, <2>1, <2>2 DEF Following
<1>6. own'[w] = <<Following(req[w].act)>> /\ \A v \in Writers \ {w} : own'[v] = own[v]
  BY <1>3, <1>5 DEF IInv
<1>7. r.pc = "commit" /\ r.act = req[w].act
      /\ r = [pc |-> r.pc, act |-> r.act, seen |-> r.seen, set |-> r.set]
  BY <1>2
<1> HIDE DEF r
<1>8. req'[w] = r /\ \A v \in Writers \ {w} : req'[v] = req[v]
  BY <1>2 DEF IInv, Shape
<1>9. Shape'
  BY <1>1, <1>2, <1>7, <1>8 DEF IInv, Shape
<1>10. HolderOK(w)'
  BY <1>3, <1>6, <1>7, <1>8 DEF HolderOK, Following, Seeded, Entry, Content
<1>11. \A v \in Writers \ {w} : HolderOK(v)'
  BY <1>3, <1>4, <1>6, <1>8 DEF IInv, HolderOK
<1>12. (Chain /\ Table)'
  BY <1>3, LogSame DEF IInv
<1>13. own' = [v \in Writers |-> own'[v]] /\ lock' \in Writers \cup {NoWriter}
  BY <1>3 DEF IInv
<1> QED
  BY <1>3, <1>9, <1>10, <1>11, <1>12, <1>13 DEF IInv

\* A request that ends is Idle, and holds the row no more.
LEMMA Released ==
  ASSUME IInv, NEW w \in Writers, req' = [req EXCEPT ![w] = Idle],
         own' = [own EXCEPT ![w] = <<>>], Release(w),
         UNCHANGED <<head, clock>> \/ lock = w, Acts # {}
  PROVE  /\ Shape' /\ \A v \in Writers : HolderOK(v)'
         /\ own' = [v \in Writers |-> own'[v]] /\ lock' \in Writers \cup {NoWriter}
<1>1. Idle = [pc |-> "idle", act |-> Idle.act, seen |-> Idle.seen, set |-> Idle.set]
      /\ Idle.pc = "idle" /\ Idle.act \in Acts
  BY DEF Idle
<1>2. req'[w] = Idle /\ \A v \in Writers \ {w} : req'[v] = req[v]
  BY DEF IInv, Shape
<1>3. own'[w] = <<>> /\ \A v \in Writers \ {w} : own'[v] = own[v]
  BY DEF IInv
<1>4. Shape'
  BY <1>1, <1>2 DEF IInv, Shape, PCs
<1>5. lock' = IF lock = w THEN NoWriter ELSE lock
  BY DEF Release
<1>6. HolderOK(w)'
  BY <1>1, <1>2, <1>3, <1>5 DEF HolderOK, IInv
<1>7. ASSUME NEW v \in Writers \ {w} PROVE HolderOK(v)'
  <2>1. CASE lock = w
    BY <1>2, <1>3, <1>5, <2>1 DEF HolderOK, IInv
  <2>2. CASE UNCHANGED <<head, clock>>
    BY <1>2, <1>3, <1>5, <2>2 DEF HolderOK, IInv, Following, Seeded, Entry, Content
  <2> QED
    BY <2>1, <2>2
<1> QED
  BY <1>4, <1>5, <1>6, <1>7 DEF IInv

LEMMA CommitStep ==
  ASSUME IInv, NEW w \in Writers, Commit(w)
  PROVE  IInv'
<1> DEFINE a == req[w].act
<1>1. req[w].pc = "commit" /\ a \in Acts
  BY DEF Commit, IInv, Shape
<1>2. lock = w /\ own[w] = <<Following(a)>>
  BY <1>1 DEF IInv, HolderOK
<1>3. /\ req' = [req EXCEPT ![w] = Idle] /\ own' = [own EXCEPT ![w] = <<>>] /\ Release(w)
      /\ entries' = Insert(entries, own[w]) /\ head' = EndFor(w) /\ tampers' = tampers
      /\ written' = IF head = NoHead THEN own[w] ELSE written \o own[w]
      /\ clock' = clock + Len(own[w])
  BY DEF Commit, CommitEntries
<1>4. EndFor(w) = EndAt(Following(a)) /\ Len(own[w]) = 1
  BY <1>2 DEF EndFor, EndAt
<1> HIDE DEF a
<1>5. clock' = clock + 1 /\ clock' \in Nat
  <2>1. clock \in Nat
    BY DEF IInv
  <2> QED
    BY <1>3, <1>4, <2>1
<1>6. (Chain /\ Table)' /\ head' \in Heads
  BY <1>1, <1>2, <1>3, <1>4, <1>5, LogGrows DEF IInv
<1>7. Acts # {}
  BY <1>1
<1>8. /\ Shape' /\ \A v \in Writers : HolderOK(v)'
      /\ own' = [v \in Writers |-> own'[v]] /\ lock' \in Writers \cup {NoWriter}
  BY <1>2, <1>3, <1>7, Released
<1> QED
  BY <1>3, <1>5, <1>6, <1>8 DEF IInv

LEMMA AbortStep ==
  ASSUME IInv, NEW w \in Writers, Abort(w)
  PROVE  IInv'
<1>1. /\ req' = [req EXCEPT ![w] = Idle] /\ own' = [own EXCEPT ![w] = <<>>] /\ Release(w)
      /\ UNCHANGED <<entries, head, clock, written, tampers>>
  BY DEF Abort, RollBackEntries
<1>2. Acts # {}
  BY DEF IInv, Shape
<1>3. /\ Shape' /\ \A v \in Writers : HolderOK(v)'
      /\ own' = [v \in Writers |-> own'[v]] /\ lock' \in Writers \cup {NoWriter}
  BY <1>1, <1>2, Released
<1>4. (Chain /\ Table)'
  BY <1>1, LogSame DEF IInv
<1> QED
  BY <1>1, <1>3, <1>4 DEF IInv

LEMMA RestStays ==
  ASSUME IInv, UNCHANGED <<head, clock, lock, own, req>>, tampers' \in Nat, (Chain /\ Table)'
  PROVE  IInv'
BY DEF IInv, Shape, HolderOK, Following, Seeded, Entry, Content

LEMMA ReadersStep ==
  ASSUME IInv, Readers, UNCHANGED findingVars
  PROVE  IInv'
<1>1. UNCHANGED <<entries, head, clock, lock, own, written, req, tampers>>
  BY DEF Readers, ScanEntries, ScanHead, FirstPage, NextPage, chainVars, findingVars
<1>2. (Chain /\ Table)'
  BY <1>1, LogSame DEF IInv
<1> QED
  BY <1>1, <1>2, RestStays DEF IInv

\* There are several acts.
LEMMA OtherAct ==
  ASSUME NEW b
  PROVE  (CHOOSE a \in Acts : a # b) \in Acts
<1>1. PICK f \in FindingIds : TRUE
  BY FindingsAssumption
<1>2. <<"created", f>> \in Acts /\ <<"updated", f>> \in Acts /\ <<"created", f>> # <<"updated", f>>
  BY <1>1, FindingsAssumption
<1>3. \E a \in Acts : a # b
  BY <1>2
<1> QED
  BY <1>3

LEMMA AlterStep ==
  ASSUME IInv, Alter
  PROVE  entries' \in Seq(Rows(clock))
<1> DEFINE n == Len(entries)
           S == Rows(clock)
<1>1. entries \in Seq(S) /\ n \in Nat /\ DOMAIN entries = 1..n /\ \A k \in 1..n : entries[k] \in S
  BY ElementOfSeq, LenProperties DEF IInv, Table
<1>2. PICK i \in 1..n :
        LET e == entries[i] IN
        \/ LET a == CHOOSE a \in Acts : a # e.act IN
             \/ entries' = [entries EXCEPT ![i].act = a]
             \/ entries' = [entries EXCEPT
                             ![i] = Entry([seq |-> e.seq - 1, hash |-> e.prev], e.at, a)]
        \/ entries' = SubSeq(entries, 1, i - 1) \o SubSeq(entries, i + 1, n)
        \/ entries' = SubSeq(entries, 1, i - 1)
  BY <1>1 DEF Alter
<1> DEFINE e == entries[i]
           a == CHOOSE a \in Acts : a # e.act
           x == [e EXCEPT !.act = a]
           y == Entry([seq |-> e.seq - 1, hash |-> e.prev], e.at, a)
<1>3. e \in S /\ a \in Acts
  <2>1. e \in S
    BY <1>1
  <2> DEFINE b == e.act
  <2> HIDE DEF e, b
  <2>2. (CHOOSE c \in Acts : c # b) \in Acts
    BY OtherAct
  <2> QED
    BY <2>1, <2>2 DEF b
<1>4. x \in S /\ [entries EXCEPT ![i].act = a] = [entries EXCEPT ![i] = x]
  BY <1>3 DEF Rows, Entries
<1>5. y \in S
  <2> DEFINE h == [seq |-> e.seq - 1, hash |-> e.prev]
             t == e.at
  <2>1. h \in Heads /\ h.seq = e.seq - 1 /\ t \in Nat /\ t <= clock
    BY <1>3 DEF Rows, Entries, Heads
  <2>2. e.seq \in Nat /\ e.seq >= 1
    BY <1>3 DEF Rows, Entries
  <2> HIDE DEF h, a, e, t
  <2>3. Entry(h, t, a) \in Entries /\ Entry(h, t, a).seq = h.seq + 1 /\ Entry(h, t, a).at = t
    BY <1>3, <2>1, EntryFollows
  <2>4. Entry(h, t, a) \in S
    BY <2>1, <2>2, <2>3 DEF Rows
  <2> QED
    BY <2>4 DEF h, t
<1> HIDE DEF S
<1>6. ASSUME NEW z \in S, entries' = [entries EXCEPT ![i] = z]
      PROVE  entries' \in Seq(S)
  BY <1>1, <1>6, ExceptSeq
<1> DEFINE l == SubSeq(entries, 1, i - 1)
           r == SubSeq(entries, i + 1, n)
<1>7. l \in Seq(S) /\ r \in Seq(S)
  <2>1. /\ 1 \in Int /\ i - 1 \in Int /\ i + 1 \in Int /\ n \in Int
        /\ \A k \in 1..(i - 1) : entries[k] \in S
        /\ \A k \in (i + 1)..n : entries[k] \in S
    BY <1>1
  <2> HIDE DEF n
  <2> QED
    BY <2>1, SubSeqProperties
<1> HIDE DEF l, r, n
<1>8. l \o r \in Seq(S)
  BY <1>7, ConcatProperties
<1>9. \/ entries' = [entries EXCEPT ![i] = x] \/ entries' = [entries EXCEPT ![i] = y]
      \/ entries' = l \o r \/ entries' = l
  BY <1>2, <1>4, Zenon DEF l, r, n
<1> HIDE DEF x, y
<1> QED
  BY <1>4, <1>5, <1>6, <1>7, <1>8, <1>9 DEF S

\* Nobody is about to commit when the head is deleted.
LEMMA TamperStep ==
  ASSUME IInv, Tamper, UNCHANGED findingVars
  PROVE  IInv'
<1>1. /\ UNCHANGED <<clock, lock, own, written, req>> /\ tampers' = tampers + 1
      /\ Alter \/ DropHead
  BY DEF Tamper, findingVars
<1>2. tampers' \in Nat /\ tampers' # 0
  BY <1>1 DEF IInv
<1>3. CASE Alter
  <2>1. UNCHANGED head
    BY <1>3 DEF Alter
  <2>2. Chain'
    BY <1>1, <2>1 DEF IInv, Chain, Sound, End, Prior
  <2>3. Rows(clock)' = Rows(clock)
    BY <1>1 DEF Rows
  <2>4. Table'
    BY <1>2, <1>3, <2>3, AlterStep DEF Table
  <2> QED
    BY <1>1, <1>2, <2>1, <2>2, <2>4, RestStays
<1>4. CASE DropHead
  <2>1. head' = NoHead /\ lock = NoWriter /\ UNCHANGED entries
    BY <1>4 DEF DropHead
  <2>2. Chain'
    BY <1>1, <2>1 DEF IInv, Chain, Sound, Prior
  <2>3. Rows(clock)' = Rows(clock)
    BY <1>1 DEF Rows
  <2>4. Table'
    BY <1>2, <2>1, <2>3 DEF IInv, Table
  <2>5. \A v \in Writers : HolderOK(v)'
    BY <1>1, <2>1 DEF IInv, HolderOK
  <2> QED
    BY <1>1, <1>2, <2>1, <2>2, <2>4, <2>5 DEF IInv, Shape
<1> QED
  BY <1>1, <1>3, <1>4

LEMMA InitOK == Init => IInv
<1> SUFFICES ASSUME Init PROVE IInv
  OBVIOUS
<1>1. Acts = {"created", "updated", "status_changed", "deleted"} \X FindingIds
  BY FindingsAssumption
<1>2. Chain
  BY DEF Init, ChainInit, Chain, Sound, End, Prior
<1>3. head \in Heads /\ clock \in Nat
  BY DEF Init, ChainInit, Heads, Start, Genesis
<1>8. Table
  BY <1>3 DEF Init, ChainInit, Table
<1>4. Idle.pc = "idle" /\ Idle.act \in Acts
      /\ Idle = [pc |-> Idle.pc, act |-> Idle.act, seen |-> Idle.seen, set |-> Idle.set]
  <2>0. PICK f \in FindingIds : TRUE
    BY FindingsAssumption
  <2>1. <<"created", f>> \in Acts
    BY <1>1, <2>0
  <2> DEFINE act == CHOOSE a \in Acts : TRUE
  <2>2. act \in Acts
    BY <2>1
  <2>3. Idle = [pc |-> "idle", act |-> act, seen |-> NoFinding, set |-> NewRow]
    BY DEF Idle
  <2> HIDE DEF act
  <2> QED
    BY <2>2, <2>3
<1>5. Shape
  BY <1>4 DEF Init, Shape, PCs
<1>6. \A w \in Writers : HolderOK(w)
  BY <1>4 DEF Init, ChainInit, HolderOK
<1>7. tampers \in Nat /\ lock \in Writers \cup {NoWriter} /\ own = [w \in Writers |-> own[w]]
  BY DEF Init, ChainInit
<1> QED
  BY <1>2, <1>3, <1>5, <1>6, <1>7, <1>8 DEF IInv

LEMMA NextOK == IInv /\ [Next]_vars => IInv'
<1> SUFFICES ASSUME IInv, [Next]_vars PROVE IInv'
  OBVIOUS
<1>1. CASE Readers /\ UNCHANGED findingVars
  BY <1>1, ReadersStep
<1>2. CASE Tamper /\ UNCHANGED findingVars
  BY <1>2, TamperStep
<1>3. ASSUME NEW w \in Writers, Step(w) \/ Abort(w)
      PROVE  IInv'
  BY <1>3, FlushStep, AuditStep, CommitStep, AbortStep DEF Step
<1>4. ASSUME NEW w \in Writers, NEW f \in FindingIds,
             \/ Create(w, f)
             \/ \E t \in Texts : Change(w, f, "updated", [text |-> t])
             \/ \E s \in States : Change(w, f, "status_changed", [status |-> s])
             \/ Change(w, f, "deleted", [live |-> FALSE])
      PROVE  IInv'
  <2>1. \A k \in {"created", "updated", "status_changed", "deleted"} : <<k, f>> \in Acts
    BY FindingsAssumption
  <2>2. PICK k \in {"created", "updated", "status_changed", "deleted"} :
          \E seen, set : Begin(w, <<k, f>>, seen, set)
    BY <1>4 DEF Create, Change
  <2> QED
    BY <2>1, <2>2, BeginStep
<1>5. CASE UNCHANGED vars
  <2>1. UNCHANGED <<entries, head, clock, lock, own, written, req, tampers>>
    BY <1>5 DEF vars, chainVars, findingVars
  <2>2. (Chain /\ Table)'
    BY <2>1, LogSame DEF IInv
  <2> QED
    BY <2>1, <2>2, RestStays DEF IInv
<1> QED
  BY <1>1, <1>2, <1>3, <1>4, <1>5 DEF Next

-----------------------------------------------------------------------------
(* The theorems.                                                           *)

\* The inductive invariant, for every execution. (audit/repository.py:33-95)
THEOREM RecordsInvariant == Spec => []IInv
<1>1. Init => IInv
  BY InitOK
<1>2. IInv /\ [Next]_vars => IInv'
  BY NextOK
<1> QED
  BY <1>1, <1>2, PTL DEF Spec

\* The committed entries are one chain from the genesis to the head.
\* (audit/repository.py:3-9)
THEOREM ChainNeverForks == Spec => []ChainIntact
<1>1. IInv => ChainIntact
  <2> SUFFICES ASSUME IInv, tampers = 0 PROVE Faults = {} /\ head = Before(Len(entries) + 1)
    BY DEF ChainIntact
  <2>1. Sound(entries) /\ head = Prior(entries, Len(entries) + 1)
    BY DEF IInv, Chain, Table, End
  <2>2. \A i : Before(i) = Prior(entries, i)
    BY DEF Before, Prior
  <2> QED
    BY <2>1, <2>2, SoundIsFaultless DEF Sound
<1> QED
  BY <1>1, RecordsInvariant, PTL

\* A commit changes the columns its request was about and no other.
\* (findings/repository.py:61-78)
THEOREM ColumnsKept == Spec => NoColumnReverted
<1> DEFINE Only(f) ==
      row[f] # NoFinding /\ row'[f] # row[f] =>
        \E w \in Writers :
          /\ req[w].pc = "commit" /\ req'[w].pc = "idle" /\ On(w) = f
          /\ \A k \in Columns \ DOMAIN req[w].set : row'[f][k] = row[f][k]
<1>1. ASSUME IInv, Next, NEW f \in FindingIds, row[f] # NoFinding, row'[f] # row[f]
      PROVE  \E w \in Writers :
               /\ req[w].pc = "commit" /\ req'[w].pc = "idle" /\ On(w) = f
               /\ \A k \in Columns \ DOMAIN req[w].set : row'[f][k] = row[f][k]
  <2>1. PICK w \in Writers : Commit(w)
    BY <1>1 DEF Next, findingVars, Step, Flush, Audit, Abort, Create, Change, Begin
  <2>2. row' = [row EXCEPT ![On(w)] = Updated(w)] /\ req' = [req EXCEPT ![w] = Idle]
        /\ req[w].pc = "commit"
    BY <2>1 DEF Commit
  <2>3. On(w) = f /\ row'[f] = Updated(w)
    BY <1>1, <2>2
  <2>4. req'[w].pc = "idle"
    BY <1>1, <2>2 DEF IInv, Shape, Idle
  <2>5. Written(w) \subseteq DOMAIN req[w].set
    BY DEF Written
  <2>6. \A k \in Columns \ DOMAIN req[w].set : Updated(w)[k] = row[f][k]
    BY <1>1, <2>3, <2>5 DEF Updated
  <2> QED
    BY <2>2, <2>3, <2>4, <2>6
<1>2. IInv /\ [Next]_vars => [\A f \in FindingIds : Only(f)]_vars
  BY <1>1 DEF vars, findingVars
<1> QED
  BY <1>2, RecordsInvariant, PTL DEF Spec, NoColumnReverted

-----------------------------------------------------------------------------
(* Equal ends.  SHA-256 being taken for injective, a hash fixes all        *)
(* that came before: two sound sequences with the same end are equal.      *)

\* A hash fixes its entry and all the entries before it: equal hashes hash equal
\* contents after equal hashes.
LEMMA HashFixesPast ==
  ASSUME NEW s, Sound(s), NEW t, Sound(t), NEW n \in 1..Len(s), n \in 1..Len(t),
         s[n].hash = t[n].hash
  PROVE  \A i \in 1..n : s[i] = t[i]
<1>1. Len(s) \in Nat /\ Len(t) \in Nat /\ n \in Nat /\ n <= Len(s) /\ n <= Len(t)
  BY EndIsLength
<1>2. ASSUME NEW i \in 1..n, s[i].hash = t[i].hash
      PROVE  s[i] = t[i]
  <2>1. i \in 1..Len(s) /\ i \in 1..Len(t)
    BY <1>1
  <2> DEFINE e == s[i]
             f == t[i]
             c == [seq |-> e.seq, at |-> e.at, act |-> e.act]
             d == [seq |-> f.seq, at |-> f.at, act |-> f.act]
             p == e.prev
             q == f.prev
  <2>2. /\ e \in Entries /\ e.hash = Append(e.prev, c)
        /\ f \in Entries /\ f.hash = Append(f.prev, d)
    BY <2>1, LinkedEntry
  <2>3. c \in Contents /\ d \in Contents /\ e.prev \in Seq(Contents) /\ f.prev \in Seq(Contents)
    BY <2>2 DEF Entries, Contents
  <2>4. Append(p, c) = Append(q, d)
    BY <1>2, <2>2
  <2> HIDE DEF c, d, p, q
  <2>5. p = q /\ c = d
    <3>1. c \in Contents /\ d \in Contents /\ p \in Seq(Contents) /\ q \in Seq(Contents)
      BY <2>3 DEF p, q
    <3> QED
      BY <2>4, <3>1, AppendInjective
  <2>6. e.seq = f.seq /\ e.at = f.at /\ e.act = f.act /\ e.prev = f.prev
    BY <2>5 DEF c, d, p, q
  <2>7. e.hash = f.hash
    BY <1>2
  <2> HIDE DEF e, f
  <2>8. /\ e = [seq |-> e.seq, at |-> e.at, act |-> e.act, prev |-> e.prev, hash |-> e.hash]
        /\ f = [seq |-> f.seq, at |-> f.at, act |-> f.act, prev |-> f.prev, hash |-> f.hash]
    BY <2>2 DEF Entries
  <2>9. e = f
    BY <2>6, <2>7, <2>8
  <2> QED
    BY <2>9 DEF e, f
\* Hence equal hashes go all the way down.
<1> DEFINE T == {k \in 0..(n - 1) : s[n - k].hash # t[n - k].hash}
<1>3. T = {}
  <2>1. SUFFICES ASSUME T # {} PROVE FALSE
    OBVIOUS
  <2>2. T \in SUBSET Nat
    BY <1>1
  <2> HIDE DEF T
  <2>3. PICK k \in T : \A m \in T : k <= m
    BY <2>1, <2>2, SmallestOf
  <2>4. k \in 0..(n - 1) /\ s[n - k].hash # t[n - k].hash
    BY <2>3 DEF T
  <2>5. k # 0
    <3>1. SUFFICES ASSUME k = 0 PROVE FALSE
      OBVIOUS
    <3>2. n - k = n
      BY <1>1, <3>1
    <3> QED
      BY <2>4, <3>2
  <2> DEFINE i == n - k
             l == k - 1
             j == n - l
  <2>6. /\ l \in 0..(n - 1) /\ l < k /\ j = i + 1 /\ j - 1 = i /\ j # 1
        /\ i \in 1..n /\ j \in 1..n /\ j \in 1..Len(s) /\ j \in 1..Len(t)
    BY <1>1, <2>4, <2>5
  <2>7. l \notin T
    <3>1. l \in Nat /\ k \in Nat /\ l < k
      BY <1>1, <2>4, <2>6
    <3> HIDE DEF l
    <3> QED
      BY <2>3, <3>1
  <2>8. s[j].hash = t[j].hash
    BY <2>6, <2>7 DEF T
  <2> HIDE DEF i, j
  <2>9. s[j] = t[j]
    BY <1>2, <2>6, <2>8
  <2>10. s[j].prev = s[i].hash /\ t[j].prev = t[i].hash
    <3>1. Prior(s, j).hash = s[i].hash /\ Prior(t, j).hash = t[i].hash
      BY <2>6 DEF Prior
    <3> QED
      BY <2>6, <3>1, LinkedEntry
  <2> QED
    BY <2>4, <2>9, <2>10 DEF i
<1>4. ASSUME NEW i \in 1..n PROVE s[i].hash = t[i].hash
  <2> DEFINE k == n - i
  <2>1. k \in 0..(n - 1) /\ n - k = i
    BY <1>1
  <2> HIDE DEF k
  <2> QED
    BY <1>3, <2>1
<1> QED
  BY <1>2, <1>4

LEMMA EndFixesAll ==
  ASSUME NEW s, Sound(s), NEW t, Sound(t), End(s) = End(t)
  PROVE  s = t
<1> DEFINE n == Len(s)
<1>1. n \in Nat /\ Len(t) = n /\ s \in Seq(Entries) /\ t \in Seq(Entries)
  BY EndIsLength DEF Sound
<1>2. \A i \in 1..n : s[i] = t[i]
  <2>1. CASE n = 0
    BY <2>1
  <2>2. CASE n # 0
    <3>1. n \in 1..Len(s) /\ n \in 1..Len(t)
      BY <1>1, <2>2
    <3>2. End(s).hash = s[n].hash /\ End(t).hash = t[n].hash
      BY <1>1, <2>2 DEF End, Prior
    <3> HIDE DEF n
    <3> QED
      BY <3>1, <3>2, HashFixesPast
  <2> QED
    BY <2>1, <2>2
<1> QED
  BY <1>1, <1>2, SeqEqual
-----------------------------------------------------------------------------
(* The verifier reads the table and, later, the head: meanwhile the head   *)
(* moves on in time, or is deleted.                                        *)

ScanTyped ==
  scan \in [step : {"idle", "head", "done"}, last : Heads, since : Nat, verdict : Kinds,
            dirty : BOOLEAN, raced : BOOLEAN]

\* No entry up to h was created after the time t.
EndedBy(h, t) == h.hash = <<>> \/ (h.hash # <<>> /\ h.hash[Len(h.hash)].at <= t)

\* The head is not what a scan that found a fault in what was written ended with;
\* of another one it is, or was, or is no more.
ScanOK ==
  /\ ScanTyped
  /\ scan.step = "head" =>
       /\ scan.since <= clock /\ EndedBy(scan.last, scan.since)
       /\ scan.dirty => scan.last # head
       /\ ~scan.dirty => head = NoHead \/ head = scan.last \/ clock > scan.since
  /\ VerdictTrue

\* The head is left alone, is deleted, or ends with a new entry; the scan is left
\* alone by all but its own steps.
LEMMA HeadMovesOn ==
  ASSUME IInv, [Next]_vars
  PROVE  /\ tampers' >= tampers
         /\ \/ ScanEntries /\ UNCHANGED <<head, clock, tampers>>
            \/ ScanHead /\ UNCHANGED <<head, clock, tampers>>
            \/ UNCHANGED <<scan, clock>> /\ head' \in {head, NoHead}
            \/ /\ UNCHANGED scan /\ clock' = clock + 1
               /\ \E a \in Acts : head' = EndAt(Following(a))
<1>0. tampers \in Nat
  BY DEF IInv
<1>1. CASE Readers /\ UNCHANGED findingVars
  BY <1>0, <1>1 DEF Readers, ScanEntries, ScanHead, FirstPage, NextPage, chainVars
<1>2. CASE Tamper /\ UNCHANGED findingVars
  BY <1>0, <1>2 DEF Tamper, Alter, DropHead, readerVars
<1>3. ASSUME NEW w \in Writers, Commit(w)
      PROVE  /\ UNCHANGED <<scan, tampers>> /\ clock' = clock + 1
             /\ \E a \in Acts : head' = EndAt(Following(a))
  <2>1. own[w] = <<Following(req[w].act)>> /\ req[w].act \in Acts /\ clock \in Nat
    BY <1>3 DEF Commit, IInv, HolderOK, Shape
  <2>2. head' = EndAt(Following(req[w].act)) /\ clock' = clock + Len(own[w])
    BY <1>3, <2>1 DEF Commit, CommitEntries, EndFor, EndAt
  <2>3. clock' = clock + 1
    BY <2>1, <2>2
  <2>4. UNCHANGED <<scan, tampers>>
    BY <1>3 DEF Commit, readerVars
  <2> QED
    BY <2>1, <2>2, <2>3, <2>4
<1>4. ASSUME NEW w \in Writers,
             \/ Flush(w) \/ Audit(w) \/ Abort(w)
             \/ \E f \in FindingIds :
                  \/ Create(w, f)
                  \/ \E t \in Texts : Change(w, f, "updated", [text |-> t])
                  \/ \E s \in States : Change(w, f, "status_changed", [status |-> s])
                  \/ Change(w, f, "deleted", [live |-> FALSE])
      PROVE  UNCHANGED <<scan, head, clock, tampers>>
  BY <1>4 DEF Flush, Audit, Abort, Create, Change, Begin, AppendEntry, RollBackEntries,
              readerVars, chainVars
<1>5. CASE UNCHANGED vars
  BY <1>0, <1>5 DEF vars, readerVars, chainVars
<1> QED
  BY <1>0, <1>1, <1>2, <1>3, <1>4, <1>5 DEF Next, Step

LEMMA ScanEntriesStep ==
  ASSUME IInv, ScanOK, ScanEntries, UNCHANGED <<head, clock>>
  PROVE  ScanOK'
<1> DEFINE last == Before(Len(entries) + 1)
           dirty == entries # written \/ head = NoHead
<1>1. scan' = IF Faults = {}
                THEN [scan EXCEPT !.step = "head", !.last = last, !.since = clock, !.dirty = dirty]
                ELSE LET i == CHOOSE i \in Faults : \A j \in Faults : i <= j
                     IN  [scan EXCEPT !.step = "done", !.dirty = dirty,
                                      !.verdict = CheckEntry(entries[i], Before(i))]
  BY DEF ScanEntries
<1>2. entries \in Seq(Rows(clock)) /\ entries \in Seq(Entries) /\ Len(entries) \in Nat
      /\ DOMAIN entries = 1..Len(entries) /\ clock \in Nat
  <2>1. entries \in Seq(Rows(clock)) /\ clock \in Nat
    BY DEF IInv, Table
  <2>2. Rows(clock) \subseteq Entries
    BY DEF Rows
  <2>3. entries \in Seq(Entries)
    BY <2>1, <2>2, SeqMonotonic
  <2> QED
    BY <2>1, <2>3, LenProperties
<1>3. CASE Faults = {}
  <2>1. Sound(entries)
    BY <1>2, <1>3, SoundIsFaultless
  <2>2. last = End(entries)
    BY DEF Before, End, Prior
  <2>3. last \in Heads
    BY <2>1, <2>2, EndIsLength
  <2>4. EndedBy(last, clock)
    <3> DEFINE n == Len(entries)
    <3>1. CASE n = 0
      BY <2>2, <3>1 DEF End, Prior, Start, Genesis, EndedBy
    <3>2. CASE n # 0
      <4>1. n \in 1..Len(entries) /\ last = [seq |-> entries[n].seq, hash |-> entries[n].hash]
        BY <1>2, <2>2, <3>2 DEF End, Prior
      <4> HIDE DEF n, last
      <4> DEFINE e == entries[n]
                 c == [seq |-> e.seq, at |-> e.at, act |-> e.act]
      <4>2. e \in Rows(clock) /\ e \in Entries /\ e.hash = Append(e.prev, c)
        BY <1>2, <2>1, <4>1, LinkedEntry, ElementOfSeq
      <4>3. last.hash = e.hash /\ e.at <= clock /\ c.at = e.at
        BY <4>1, <4>2 DEF Rows
      <4>4. e.prev \in Seq(Contents) /\ c \in Contents
        BY <4>2 DEF Entries, Contents
      <4> DEFINE p == e.prev
      <4>5. last.hash = Append(p, c) /\ p \in Seq(Contents)
        BY <4>2, <4>3, <4>4
      <4> HIDE DEF e, c, p
      <4>6. last.hash # <<>> /\ last.hash[Len(last.hash)] = c
        BY <4>4, <4>5, AppendProperties
      <4> QED
        BY <4>3, <4>6 DEF EndedBy
    <3> QED
      BY <3>1, <3>2
  <2>5. ASSUME dirty PROVE last # head
    <3>1. SUFFICES ASSUME last = head PROVE FALSE
      OBVIOUS
    <3>2. head # NoHead
      BY <2>3, <3>1
    <3>3. Sound(written) /\ End(written) = End(entries) /\ entries # written
      BY <2>2, <2>5, <3>1, <3>2 DEF IInv, Chain
    <3> QED
      BY <2>1, <3>3, EndFixesAll
  <2>6. ~dirty => last = head
    BY <2>2 DEF IInv, Chain
  <2> HIDE DEF last, dirty
  <2>7. scan' = [scan EXCEPT !.step = "head", !.last = last, !.since = clock, !.dirty = dirty]
    BY <1>1, <1>3
  <2>8. dirty \in BOOLEAN
    BY DEF dirty
  <2>9. ScanTyped'
    BY <1>2, <2>3, <2>7, <2>8 DEF ScanOK, ScanTyped
  <2>10. scan'.step = "head" /\ scan'.last = last /\ scan'.dirty = dirty /\ scan'.since = clock
    BY <2>7 DEF ScanOK, ScanTyped
  <2> QED
    BY <1>2, <2>4, <2>5, <2>6, <2>9, <2>10 DEF ScanOK, VerdictTrue, EndedBy
<1>4. CASE Faults # {}
  <2> DEFINE i == CHOOSE i \in Faults : \A j \in Faults : i <= j
             v == CheckEntry(entries[i], Before(i))
  <2>1. i \in Faults
    <3>1. Faults \in SUBSET Nat
      BY <1>2 DEF Faults
    <3>2. \E n \in Faults : \A m \in Faults : n <= m
      BY <1>4, <3>1, SmallestOf
    <3> QED
      BY <3>2
  <2> HIDE DEF i
  <2>2. v # "ok" /\ v \in Kinds
    BY <2>1 DEF Faults, CheckEntry, Kinds
  <2>3. dirty
    <3>1. SUFFICES ASSUME entries = written PROVE FALSE
      OBVIOUS
    <3>2. Sound(written)
      BY DEF IInv, Chain
    <3> QED
      BY <1>2, <1>4, <3>1, <3>2, SoundIsFaultless
  <2> HIDE DEF v, dirty
  <2>4. scan' = [scan EXCEPT !.step = "done", !.dirty = dirty, !.verdict = v]
    BY <1>1, <1>4 DEF i, v
  <2>5. dirty \in BOOLEAN
    BY DEF dirty
  <2>6. ScanTyped' /\ scan'.step = "done" /\ scan'.dirty = dirty /\ scan'.verdict = v
    BY <2>2, <2>4, <2>5 DEF ScanOK, ScanTyped
  <2> QED
    BY <2>2, <2>3, <2>6 DEF ScanOK, VerdictTrue
<1> QED
  BY <1>3, <1>4

LEMMA ScanHeadStep ==
  ASSUME IInv, ScanOK, ScanHead, UNCHANGED <<head, clock, tampers>>
  PROVE  ScanOK'
<1> DEFINE v == HeadVerdict(scan.last)
           raced == clock > scan.since
<1>1. scan.step = "head" /\ scan' = [scan EXCEPT !.step = "done", !.raced = raced, !.verdict = v]
  BY DEF ScanHead
<1>2. /\ v \in Kinds /\ raced \in BOOLEAN
      /\ v = "ok" => head = scan.last
      /\ v # "ok" => \/ v = "head-missing" /\ head = NoHead
                     \/ v = "head-mismatch" /\ head # NoHead /\ head # scan.last
  BY DEF Kinds, HeadVerdict
<1>3. v = "ok" => ~scan.dirty
  BY <1>1, <1>2 DEF ScanOK
<1>4. head = NoHead => tampers > 0
  BY DEF IInv, Table
<1>5. v # "ok" /\ ~scan.dirty => \/ v = "head-missing" /\ tampers > 0
                                 \/ v = "head-mismatch" /\ raced
  BY <1>1, <1>2, <1>4 DEF ScanOK
<1> HIDE DEF v, raced
<1>6. /\ ScanTyped' /\ scan'.step = "done" /\ scan'.dirty = scan.dirty
      /\ scan'.verdict = v /\ scan'.raced = raced
  BY <1>1, <1>2 DEF ScanOK, ScanTyped
<1> QED
  BY <1>3, <1>5, <1>6 DEF ScanOK, VerdictTrue

\* The head after a commit is the end of no scan before it.
LEMMA NewHeadIsNew ==
  ASSUME IInv, NEW a \in Acts, NEW h \in Heads, NEW t \in Nat, EndedBy(h, t), t <= clock
  PROVE  EndAt(Following(a)) # h
<1> DEFINE e == Following(a)
<1>1. Seeded \in Heads /\ clock + 1 \in Nat /\ clock \in Nat
  BY EndIsLength DEF IInv, Chain, Seeded, Start, Heads, Genesis
<1> DEFINE c == [seq |-> Seeded.seq + 1, at |-> clock + 1, act |-> a]
           p == Seeded.hash
<1>2. e.hash = Append(p, c)
  BY <1>1, EntryFollows DEF Following
<1>3. p \in Seq(Contents) /\ c \in Contents /\ c.at = clock + 1
  BY <1>1 DEF Heads, Contents
<1> HIDE DEF e, c, p
<1>4. e.hash # <<>> /\ e.hash[Len(e.hash)] = c
  BY <1>2, <1>3, AppendProperties
<1>5. SUFFICES ASSUME h = EndAt(e) PROVE FALSE
  BY DEF e
<1>6. h.hash = e.hash
  BY <1>5 DEF EndAt
<1>7. c.at <= t
  BY <1>4, <1>6 DEF EndedBy
<1> QED
  BY <1>1, <1>3, <1>7

LEMMA ScanNext ==
  ASSUME IInv, ScanOK, [Next]_vars
  PROVE  ScanOK'
<1>1. CASE ScanEntries /\ UNCHANGED <<head, clock, tampers>>
  BY <1>1, ScanEntriesStep
<1>2. CASE ScanHead /\ UNCHANGED <<head, clock, tampers>>
  BY <1>2, ScanHeadStep
<1>3. ASSUME UNCHANGED scan, tampers' >= tampers
      PROVE  ScanTyped' /\ VerdictTrue'
  <2>1. tampers \in Nat /\ tampers' \in Nat
    BY NextOK DEF IInv
  <2> QED
    BY <1>3, <2>1 DEF ScanOK, ScanTyped, VerdictTrue
<1>4. scan.last \in Heads /\ scan.since \in Nat /\ clock \in Nat
  BY DEF IInv, ScanOK, ScanTyped
<1>5. CASE UNCHANGED <<scan, clock>> /\ head' \in {head, NoHead}
  <2>1. ScanTyped' /\ VerdictTrue'
    BY <1>3, <1>5, HeadMovesOn
  <2> QED
    BY <1>4, <1>5, <2>1 DEF ScanOK, EndedBy
<1>6. ASSUME UNCHANGED scan, clock' = clock + 1, NEW a \in Acts, head' = EndAt(Following(a))
      PROVE  ScanOK'
  <2>1. ScanTyped' /\ VerdictTrue'
    BY <1>3, <1>6, HeadMovesOn
  <2>2. ASSUME scan.step = "head"
        PROVE  /\ scan.since <= clock' /\ EndedBy(scan.last, scan.since)
               /\ scan.last # head' /\ clock' > scan.since
    <3>1. scan.since <= clock /\ EndedBy(scan.last, scan.since)
      BY <2>2 DEF ScanOK
    <3>2. scan.last # head'
      BY <1>4, <1>6, <3>1, NewHeadIsNew
    <3> QED
      BY <1>4, <1>6, <3>1, <3>2
  <2> QED
    BY <1>6, <2>1, <2>2 DEF ScanOK, EndedBy
<1> QED
  BY <1>1, <1>2, <1>5, <1>6, HeadMovesOn

\* The verifier passes no chain that differed, when it was scanned, from what the
\* program had committed since it last found no head; of one that did not differ it
\* complains only of a head that moved on or was deleted after the scan.
\* (audit/verify.py:112-160)
THEOREM VerdictsAreTrue == Spec => []VerdictTrue
<1>1. Init => ScanOK
  BY DEF Init, ChainInit, ScanOK, ScanTyped, VerdictTrue, Heads, Kinds, Start, Genesis
<1>2. IInv /\ ScanOK /\ [Next]_vars => ScanOK'
  BY ScanNext
<1>3. ScanOK => VerdictTrue
  BY DEF ScanOK
<1> QED
  BY <1>1, <1>2, <1>3, RecordsInvariant, PTL DEF Spec
-----------------------------------------------------------------------------
(* Pages.  In a finite set of numbers each has a rank, the count of those  *)
(* above it; the ranks are 0 to the size of the set less one, each once.   *)

Above(S, s) == {t \in S : t > s}

LEMMA RankFalls ==
  ASSUME NEW S \in SUBSET Nat, IsFiniteSet(S), NEW s \in S, NEW t \in S, s < t
  PROVE  /\ Cardinality(Above(S, t)) \in Nat /\ Cardinality(Above(S, s)) \in Nat
         /\ Cardinality(Above(S, t)) < Cardinality(Above(S, s))
<1> DEFINE A == Above(S, s)
           B == Above(S, t)
<1>1. A \in SUBSET S /\ B \in SUBSET A /\ t \in A /\ t \notin B
  <2>1. s \in Nat /\ t \in Nat
    OBVIOUS
  <2>2. \A x \in S : x > t => x > s
    BY <2>1
  <2>3. A \subseteq S /\ B \subseteq A
    BY <2>2 DEF Above
  <2>4. t \in A
    BY DEF Above
  <2>5. t \notin B
    BY <2>1 DEF Above
  <2> HIDE DEF A, B
  <2> QED
    BY <2>3, <2>4, <2>5
<1> HIDE DEF A, B
<1>2. IsFiniteSet(A)
  BY <1>1, FS_Subset
<1>3. IsFiniteSet(B) /\ Cardinality(B) <= Cardinality(A) /\ Cardinality(A) # Cardinality(B)
  BY <1>1, <1>2, FS_Subset
<1>4. Cardinality(A) \in Nat /\ Cardinality(B) \in Nat
  BY <1>2, <1>3, FS_CardinalityType
<1> QED
  BY <1>3, <1>4 DEF A, B

LEMMA RankInRange ==
  ASSUME NEW S \in SUBSET Nat, IsFiniteSet(S), NEW s \in S
  PROVE  Cardinality(Above(S, s)) \in 0..(Cardinality(S) - 1)
<1> DEFINE A == Above(S, s)
<1>1. A \in SUBSET S /\ s \notin A
  BY DEF Above
<1> HIDE DEF A
<1>2. IsFiniteSet(A) /\ Cardinality(A) <= Cardinality(S) /\ Cardinality(S) # Cardinality(A)
  BY <1>1, FS_Subset
<1>3. Cardinality(A) \in Nat /\ Cardinality(S) \in Nat
  BY <1>2, FS_CardinalityType
<1>4. Cardinality(A) \in 0..(Cardinality(S) - 1)
  BY <1>2, <1>3
<1> QED
  BY <1>4 DEF A

\* Ranks are distinct, so there are as many as numbers, and none is left out.
LEMMA RankTaken ==
  ASSUME NEW S \in SUBSET Nat, IsFiniteSet(S), NEW r \in 0..(Cardinality(S) - 1)
  PROVE  \E s \in S : Cardinality(Above(S, s)) = r
<1> DEFINE n == Cardinality(S)
           T == 0..(n - 1)
           f == [s \in S |-> Cardinality(Above(S, s))]
<1>1. n \in Nat
  BY FS_CardinalityType
<1>2. IsFiniteSet(T) /\ Cardinality(T) = n
  <2>1. 0 \in Int /\ n - 1 \in Int
    BY <1>1
  <2>2. IsFiniteSet(0..(n - 1))
        /\ Cardinality(0..(n - 1)) = IF 0 > n - 1 THEN 0 ELSE (n - 1) - 0 + 1
    BY <2>1, FS_Interval
  <2> HIDE DEF n
  <2> QED
    BY <1>1, <2>2
<1>3. f \in [S -> T]
  BY RankInRange
<1>4. \A s, t \in S : f[s] = f[t] => s = t
  <2> SUFFICES ASSUME NEW s \in S, NEW t \in S, f[s] = f[t], s # t PROVE FALSE
    OBVIOUS
  <2>1. s < t \/ t < s
    OBVIOUS
  <2>2. Cardinality(Above(S, s)) = Cardinality(Above(S, t))
    OBVIOUS
  <2> HIDE DEF f
  <2>3. CASE s < t
    BY <2>2, <2>3, RankFalls
  <2>4. CASE t < s
    BY <2>2, <2>4, RankFalls
  <2> QED
    BY <2>1, <2>3, <2>4
<1> HIDE DEF f, T
<1>5. f \in Injection(S, T)
  BY <1>3, <1>4 DEF Injection, IsInjective
<1>6. f \in Surjection(S, T)
  BY <1>2, <1>5, FS_Injection DEF n
<1>7. \E s \in S : f[s] = r
  BY <1>6 DEF Surjection, T, n
<1> QED
  BY <1>7 DEF f

\* A page lists the numbers of the lowest ranks, in the order of their ranks: all
\* of a set that fits, and of another all that are not below its last.
LEMMA NewestOf ==
  ASSUME NEW S \in SUBSET Nat, IsFiniteSet(S), NEW g, g = Newest(S)
  PROVE  /\ g \in Seq(Nat) /\ Len(g) \in Nat
         /\ \A k \in 1..Len(g) : g[k] \in S
         /\ \A j, k \in 1..Len(g) : j < k => g[j] > g[k]
         /\ Cardinality(S) <= PageLimit => \A s \in S : \E k \in 1..Len(g) : g[k] = s
         /\ Cardinality(S) > PageLimit =>
              /\ Len(g) > 0
              /\ \A s \in S : s >= g[Len(g)] => \E k \in 1..Len(g) : g[k] = s
<1> DEFINE n == Cardinality(S)
           m == IF n < PageLimit THEN n ELSE PageLimit
           R(s) == Cardinality(Above(S, s))
<1>1. n \in Nat /\ m \in Nat /\ m <= n /\ PageLimit \in Nat /\ PageLimit > 0
  BY FS_CardinalityType
<1>2. g = [k \in 1..m |-> CHOOSE s \in S : R(s) = k - 1]
  BY DEF Newest, Above
<1>3. \A s \in S : R(s) \in 0..(n - 1)
  BY RankInRange
<1>4. \A r \in 0..(n - 1) : \E s \in S : R(s) = r
  BY RankTaken
<1>5. \A s, t \in S : s < t => R(t) < R(s)
  BY RankFalls
<1> HIDE DEF n, R
<1>6. \A k \in 1..m : g[k] \in S /\ R(g[k]) = k - 1
  <2> SUFFICES ASSUME NEW k \in 1..m PROVE g[k] \in S /\ R(g[k]) = k - 1
    OBVIOUS
  <2>1. k - 1 \in 0..(n - 1)
    BY <1>1
  <2>2. g[k] = CHOOSE s \in S : R(s) = k - 1
    BY <1>2
  <2>3. \E s \in S : R(s) = k - 1
    BY <1>4, <2>1
  <2> QED
    BY <2>2, <2>3
<1>7. DOMAIN g = 1..m
  BY <1>2
<1> HIDE DEF m
<1>8. g \in Seq(Nat) /\ Len(g) = m
  <2>1. g = [k \in 1..m |-> g[k]]
    BY <1>2
  <2>2. g \in [1..m -> Nat]
    BY <1>6, <2>1
  <2> QED
    BY <1>1, <2>2
<1>9. ASSUME NEW j \in 1..m, NEW k \in 1..m, j < k PROVE g[j] > g[k]
  <2>1. g[j] \in S /\ g[k] \in S /\ R(g[j]) = j - 1 /\ R(g[k]) = k - 1
    BY <1>6
  <2>2. g[j] \in Nat /\ g[k] \in Nat
    BY <2>1
  <2>3. g[j] # g[k]
    <3>1. j - 1 # k - 1
      BY <1>1, <1>9
    <3> QED
      BY <2>1, <3>1
  <2>4. ~(g[j] < g[k])
    <3> SUFFICES ASSUME g[j] < g[k] PROVE FALSE
      OBVIOUS
    <3>1. R(g[k]) < R(g[j])
      BY <1>5, <2>1
    <3> QED
      BY <1>1, <1>9, <2>1, <3>1
  <2> QED
    BY <2>2, <2>3, <2>4
<1>10. ASSUME NEW s \in S, R(s) < m PROVE \E k \in 1..m : g[k] = s
  <2> DEFINE k == R(s) + 1
  <2>1. k \in 1..m /\ k - 1 = R(s) /\ R(s) \in Nat
    BY <1>1, <1>3, <1>10
  <2> HIDE DEF k
  <2>2. g[k] \in S /\ R(g[k]) = R(s)
    BY <1>6, <2>1
  <2> DEFINE x == g[k]
  <2>3. x \in S /\ R(x) = R(s)
    BY <2>2
  <2> HIDE DEF x
  <2>4. ~(x < s)
    BY <1>5, <2>1, <2>3
  <2>5. ~(s < x)
    BY <1>5, <2>1, <2>3
  <2>6. x \in Nat /\ s \in Nat
    BY <2>3
  <2>7. x = s
    BY <2>4, <2>5, <2>6
  <2> QED
    BY <2>1, <2>7 DEF x
<1>11. ASSUME n <= PageLimit, NEW s \in S PROVE \E k \in 1..m : g[k] = s
  <2>1. m = n
    BY <1>1, <1>11 DEF m
  <2>2. R(s) < m
    BY <1>1, <1>3, <2>1
  <2> QED
    BY <1>10, <2>2
<1>12. ASSUME n > PageLimit
       PROVE  m > 0 /\ \A s \in S : s >= g[m] => \E k \in 1..m : g[k] = s
  <2>1. m = PageLimit /\ m > 0 /\ m \in 1..m
    BY <1>1, <1>12 DEF m
  <2>2. g[m] \in S /\ R(g[m]) = m - 1
    BY <1>6, <2>1
  <2>3. ASSUME NEW s \in S, s >= g[m] PROVE \E k \in 1..m : g[k] = s
    <3>1. s \in Nat /\ g[m] \in Nat
      BY <2>2
    <3>2. R(s) <= m - 1
      <4>1. CASE s = g[m]
        BY <1>1, <2>2, <4>1
      <4>2. CASE s # g[m]
        <5>1. g[m] < s
          BY <2>3, <3>1, <4>2
        <5>2. R(s) < R(g[m])
          BY <1>5, <2>2, <5>1
        <5> QED
          BY <1>1, <1>3, <2>2, <5>2
      <4> QED
        BY <4>1, <4>2
    <3>3. R(s) < m
      BY <1>1, <1>3, <3>2
    <3> QED
      BY <1>10, <3>3
  <2> QED
    BY <2>1, <2>3
<1> QED
  BY <1>1, <1>6, <1>8, <1>9, <1>11, <1>12 DEF n
-----------------------------------------------------------------------------
(* The lister: what it has is in order, and of what was due it has all     *)
(* that is not below its cursor.                                           *)

Listed(s) == \E i \in 1..Len(pager.got) : pager.got[i] = s

PagerTyped ==
  pager \in [step : {"idle", "more", "done"}, got : Seq(Nat), due : SUBSET Nat]

PagerOK ==
  /\ PagerTyped
  /\ \A i, j \in 1..Len(pager.got) : i < j => pager.got[i] > pager.got[j]
  /\ pager.step = "idle" => pager.got = <<>>
  /\ pager.step = "more" => Len(pager.got) > 0
  /\ tampers = 0 =>
       /\ pager.step # "idle" => pager.due \subseteq Seqs
       /\ pager.step = "more" =>
            \A s \in pager.due : s >= pager.got[Len(pager.got)] => Listed(s)
       /\ pager.step = "done" => \A s \in pager.due : Listed(s)

LEMMA SeqsFinite ==
  ASSUME IInv
  PROVE  Seqs \in SUBSET Nat /\ IsFiniteSet(Seqs)
<1> DEFINE n == Len(entries)
           f == [i \in 1..n |-> entries[i].seq]
<1>1. n \in Nat /\ DOMAIN entries = 1..n /\ \A i \in 1..n : entries[i] \in Rows(clock)
  BY ElementOfSeq, LenProperties DEF IInv, Table
<1>2. Seqs \in SUBSET Nat
  BY <1>1 DEF Seqs, Rows, Entries
<1>3. \A s \in Seqs : \E i \in 1..n : f[i] = s
  BY <1>1 DEF Seqs
<1>4. f \in [1..n -> Seqs]
  BY <1>1 DEF Seqs
<1>5. IsFiniteSet(1..n)
  <2>1. 1 \in Int /\ n \in Int
    BY <1>1
  <2> HIDE DEF n
  <2> QED
    BY <2>1, FS_Interval
<1> HIDE DEF f, n
<1>6. f \in Surjection(1..n, Seqs)
  BY <1>3, <1>4 DEF Surjection
<1> QED
  BY <1>2, <1>5, <1>6, FS_Surjection

\* A page of a set below all that is listed, which holds all that is due and not
\* listed, keeps the lister right.
LEMMA PageStep ==
  ASSUME PagerOK, NEW S \in SUBSET Nat, IsFiniteSet(S), Page(S),
         \A i \in 1..Len(pager.got) : \A s \in S : pager.got[i] > s,
         UNCHANGED <<entries, tampers>>, Seqs \in SUBSET Nat,
         NEW due, due = IF pager.step = "idle" THEN Seqs ELSE pager.due,
         tampers = 0 => due \subseteq Seqs /\ \A s \in due : s \in S \/ Listed(s)
  PROVE  PagerOK'
<1> DEFINE g == Newest(S)
           l == pager.got
           c == l \o g
           a == Len(l)
           b == Len(g)
           n == Cardinality(S)
           step == IF n > PageLimit THEN "more" ELSE "done"
<1>1. pager' = [pager EXCEPT !.got = c, !.step = step, !.due = due]
  BY DEF Page
<1>2. l \in Seq(Nat) /\ a \in Nat /\ due \in SUBSET Nat /\ n \in Nat /\ PageLimit \in Nat
  BY LenProperties, FS_CardinalityType DEF PagerOK, PagerTyped
<1>3. /\ g \in Seq(Nat) /\ b \in Nat
      /\ \A k \in 1..b : g[k] \in S
      /\ \A j, k \in 1..b : j < k => g[j] > g[k]
      /\ n <= PageLimit => \A s \in S : \E k \in 1..b : g[k] = s
      /\ n > PageLimit => b > 0 /\ \A s \in S : s >= g[b] => \E k \in 1..b : g[k] = s
  <2>1. g = Newest(S)
    OBVIOUS
  <2> HIDE DEF g
  <2> QED
    BY <2>1, NewestOf
<1> HIDE DEF g, n
<1>4. /\ c \in Seq(Nat) /\ Len(c) = a + b
      /\ \A i \in 1..(a + b) : c[i] = IF i <= a THEN l[i] ELSE g[i - a]
  BY <1>2, <1>3, ConcatProperties
<1>5. /\ \A i, j \in 1..a : i < j => l[i] > l[j]
      /\ \A i \in 1..a : \A s \in S : l[i] > s
  BY DEF PagerOK
<1> HIDE DEF l, a, b, c, step
<1>6. pager'.got = c /\ pager'.step = step /\ pager'.due = due
  BY <1>1 DEF PagerOK, PagerTyped
<1>7. step \in {"more", "done"} /\ (step = "more" <=> n > PageLimit)
  BY DEF step
<1>8. PagerTyped'
  BY <1>1, <1>2, <1>4, <1>7 DEF PagerOK, PagerTyped
<1>9. ASSUME NEW i \in 1..(a + b), NEW j \in 1..(a + b), i < j PROVE c[i] > c[j]
  <2>1. CASE j <= a
    <3>1. i \in 1..a /\ j \in 1..a /\ i <= a
      BY <1>2, <1>3, <1>9, <2>1
    <3> QED
      BY <1>4, <1>5, <1>9, <2>1, <3>1
  <2>2. CASE i <= a /\ ~(j <= a)
    <3> DEFINE k == j - a
    <3>1. i \in 1..a /\ k \in 1..b
      BY <1>2, <1>3, <1>9, <2>2
    <3>2. c[i] = l[i] /\ c[j] = g[k]
      BY <1>4, <2>2
    <3> HIDE DEF k
    <3> QED
      BY <1>3, <1>5, <3>1, <3>2
  <2>3. CASE ~(i <= a)
    <3> DEFINE h == i - a
               k == j - a
    <3>1. h \in 1..b /\ k \in 1..b /\ h < k /\ ~(j <= a)
      BY <1>2, <1>3, <1>9, <2>3
    <3>2. c[i] = g[h] /\ c[j] = g[k]
      BY <1>4, <2>3, <3>1
    <3> HIDE DEF h, k
    <3> QED
      BY <1>3, <3>1, <3>2
  <2> QED
    BY <2>1, <2>2, <2>3
\* What was listed still is, and the page is.
<1>10. ASSUME NEW s, (\E i \in 1..a : l[i] = s) \/ \E k \in 1..b : g[k] = s
       PROVE  \E i \in 1..(a + b) : c[i] = s
  <2>1. CASE \E i \in 1..a : l[i] = s
    <3>1. PICK i \in 1..a : l[i] = s
      BY <2>1
    <3>2. i \in 1..(a + b) /\ i <= a
      BY <1>2, <1>3
    <3> QED
      BY <1>4, <3>1, <3>2
  <2>2. CASE \E k \in 1..b : g[k] = s
    <3>1. PICK k \in 1..b : g[k] = s
      BY <2>2
    <3> DEFINE i == a + k
    <3>2. i \in 1..(a + b) /\ ~(i <= a) /\ i - a = k
      BY <1>2, <1>3
    <3> HIDE DEF i
    <3>3. c[i] = g[k]
      BY <1>4, <3>2
    <3> QED
      BY <3>1, <3>2, <3>3
  <2> QED
    BY <1>10, <2>1, <2>2
<1>11. ASSUME tampers = 0, NEW s \in due
       PROVE  s \in S \/ \E i \in 1..a : l[i] = s
  BY <1>11 DEF Listed, l, a
<1>12. ASSUME tampers = 0, n <= PageLimit, NEW s \in due
       PROVE  \E i \in 1..(a + b) : c[i] = s
  BY <1>3, <1>10, <1>11, <1>12
<1>13. ASSUME n > PageLimit PROVE a + b > 0 /\ c[a + b] = g[b]
  <2>1. a + b \in 1..(a + b) /\ ~(a + b <= a) /\ (a + b) - a = b
    BY <1>2, <1>3, <1>13
  <2> QED
    BY <1>2, <1>3, <1>4, <1>13, <2>1
<1>14. ASSUME tampers = 0, n > PageLimit, NEW s \in due, s >= c[a + b]
       PROVE  \E i \in 1..(a + b) : c[i] = s
  <2>1. s >= g[b]
    BY <1>13, <1>14
  <2>2. (\E i \in 1..a : l[i] = s) \/ \E k \in 1..b : g[k] = s
    BY <1>3, <1>11, <1>14, <2>1
  <2> QED
    BY <1>10, <2>2
<1> DEFINE m == a + b
<1>15. Len(pager'.got) = m /\ pager'.got = c
  BY <1>4, <1>6
<1>16. Seqs' = Seqs /\ tampers' = tampers
  BY DEF Seqs
<1> HIDE DEF m
<1>17. \A s : Listed(s)' <=> \E i \in 1..m : c[i] = s
  BY <1>15 DEF Listed
<1>18. \A i, j \in 1..m : i < j => c[i] > c[j]
  BY <1>9 DEF m
<1>19. n > PageLimit => m > 0
  BY <1>13 DEF m
<1>20. ASSUME tampers = 0
       PROVE  /\ due \subseteq Seqs
              /\ step = "more" => \A s \in due : s >= c[m] => \E i \in 1..m : c[i] = s
              /\ step = "done" => \A s \in due : \E i \in 1..m : c[i] = s
  <2>1. due \subseteq Seqs
    BY <1>20
  <2>2. n > PageLimit \/ n <= PageLimit
    BY <1>2
  <2>3. ASSUME step = "more", NEW s \in due, s >= c[m] PROVE \E i \in 1..m : c[i] = s
    BY <1>7, <1>14, <1>20, <2>3 DEF m
  <2>4. ASSUME step = "done", NEW s \in due PROVE \E i \in 1..m : c[i] = s
    BY <1>7, <1>12, <1>20, <2>2, <2>4 DEF m
  <2> QED
    BY <2>1, <2>3, <2>4
<1> QED
  BY <1>6, <1>7, <1>8, <1>15, <1>16, <1>17, <1>18, <1>19, <1>20 DEF PagerOK

LEMMA FirstPageStep ==
  ASSUME IInv, PagerOK, FirstPage
  PROVE  PagerOK'
<1>1. /\ pager.step = "idle" /\ Page(Seqs) /\ UNCHANGED <<entries, tampers>>
      /\ Len(pager.got) = 0
  BY DEF FirstPage, chainVars, PagerOK
<1>2. Seqs \in SUBSET Nat /\ IsFiniteSet(Seqs)
  BY SeqsFinite
<1>3. PICK due : due = IF pager.step = "idle" THEN Seqs ELSE pager.due
  OBVIOUS
<1>4. \A i \in 1..Len(pager.got) : \A s \in Seqs : pager.got[i] > s
  BY <1>1
<1>5. due \subseteq Seqs /\ \A s \in due : s \in Seqs
  BY <1>1, <1>3
<1> QED
  BY <1>1, <1>2, <1>3, <1>4, <1>5, PageStep

LEMMA NextPageStep ==
  ASSUME IInv, PagerOK, NextPage
  PROVE  PagerOK'
<1> DEFINE n == Len(pager.got)
           c == pager.got[n]
           S == Below(c)
<1>1. /\ pager.step = "more" /\ Page(S) /\ UNCHANGED <<entries, tampers>>
      /\ n > 0 /\ n \in Nat /\ \A i \in 1..n : pager.got[i] \in Nat
  BY ElementOfSeq, LenProperties DEF NextPage, chainVars, PagerOK, PagerTyped
<1>2. Seqs \in SUBSET Nat /\ IsFiniteSet(Seqs)
  BY SeqsFinite
<1>3. S \in SUBSET Seqs /\ S \in SUBSET Nat
  BY <1>2 DEF Below
<1>4. IsFiniteSet(S)
  BY <1>2, <1>3, FS_Subset
<1>5. PICK due : due = IF pager.step = "idle" THEN Seqs ELSE pager.due
  OBVIOUS
<1>6. n \in 1..n /\ c \in Nat
  BY <1>1
<1>7. ASSUME NEW i \in 1..n, NEW s \in S PROVE pager.got[i] > s
  <2>1. s < c /\ s \in Nat
    BY <1>3 DEF Below
  <2>2. i = n \/ pager.got[i] > c
    <3>1. i = n \/ i < n
      BY <1>1
    <3> QED
      BY <1>6, <3>1 DEF PagerOK
  <2>3. pager.got[i] \in Nat
    BY <1>1
  <2> QED
    BY <1>6, <2>1, <2>2, <2>3
<1>8. ASSUME tampers = 0
      PROVE  due \subseteq Seqs /\ \A s \in due : s \in S \/ Listed(s)
  <2>1. due = pager.due /\ due \subseteq Seqs
    BY <1>1, <1>5, <1>8 DEF PagerOK
  <2>2. ASSUME NEW s \in due PROVE s \in S \/ Listed(s)
    <3>1. s < c \/ s >= c
      BY <1>2, <1>6, <2>1
    <3>2. CASE s < c
      BY <2>1, <3>2 DEF Below
    <3>3. CASE s >= c
      BY <1>1, <1>8, <2>1, <3>3 DEF PagerOK
    <3> QED
      BY <3>1, <3>2, <3>3
  <2> QED
    BY <2>1, <2>2
<1> HIDE DEF S
<1> QED
  BY <1>1, <1>2, <1>3, <1>4, <1>5, <1>7, <1>8, PageStep

\* Entries arrive; while nobody edits the table, none goes.
LEMMA SeqsGrow ==
  ASSUME IInv, [Next]_vars
  PROVE  \/ FirstPage \/ NextPage
         \/ UNCHANGED pager /\ (tampers' = 0 => tampers = 0 /\ Seqs \subseteq Seqs')
<1>1. CASE Readers /\ UNCHANGED findingVars
  <2>1. FirstPage \/ NextPage \/ UNCHANGED <<pager, entries, tampers>>
    BY <1>1 DEF Readers, ScanEntries, ScanHead, chainVars
  <2> QED
    BY <2>1 DEF Seqs
<1>2. CASE Tamper /\ UNCHANGED findingVars
  <2>1. UNCHANGED pager /\ tampers' = tampers + 1 /\ tampers \in Nat
    BY <1>2 DEF Tamper, readerVars, IInv
  <2> QED
    BY <2>1
<1>3. ASSUME NEW w \in Writers, Commit(w)
      PROVE  UNCHANGED <<pager, tampers>> /\ (tampers = 0 => Seqs \subseteq Seqs')
  <2> DEFINE u == Following(req[w].act)
  <2>1. own[w] = <<u>> /\ req[w].act \in Acts
    BY <1>3 DEF Commit, IInv, HolderOK, Shape
  <2>2. /\ UNCHANGED <<pager, tampers>>
        /\ written' = IF head = NoHead THEN own[w] ELSE written \o own[w]
    BY <1>3 DEF Commit, CommitEntries, readerVars
  <2>3. ASSUME tampers = 0 PROVE Seqs \subseteq Seqs'
    <3>1. entries' = entries \o <<u>>
      <4>1. entries = written /\ head # NoHead
        BY <2>3 DEF IInv, Table
      <4>2. IInv'
        BY <1>3, CommitStep
      <4>3. entries' = written'
        BY <2>2, <2>3, <4>2 DEF IInv, Table
      <4> QED
        BY <2>1, <2>2, <4>1, <4>3
    <3>2. entries \in Seq(Rows(clock)) /\ entries' \in Seq(Rows(clock'))
      <4>1. IInv'
        BY <1>3, CommitStep
      <4> QED
        BY <4>1 DEF IInv, Table
    <3> HIDE DEF u
    <3>3. \A i \in 1..Len(entries) : i \in 1..Len(entries') /\ entries'[i] = entries[i]
      <4> DEFINE S == Rows(clock) \cup {u}
      <4>1. entries \in Seq(S) /\ <<u>> \in Seq(S)
        BY <3>2, SeqMonotonic
      <4> HIDE DEF S
      <4>2. Len(entries) \in Nat /\ Len(<<u>>) = 1
        BY <4>1, LenProperties
      <4> QED
        BY <3>1, <4>1, <4>2, ConcatProperties
    <3>4. DOMAIN entries = 1..Len(entries) /\ DOMAIN entries' = 1..Len(entries')
      BY <3>2, LenProperties
    <3> QED
      BY <3>3, <3>4 DEF Seqs
  <2> QED
    BY <2>2, <2>3
<1>4. ASSUME NEW w \in Writers,
             \/ Flush(w) \/ Audit(w) \/ Abort(w)
             \/ \E f \in FindingIds :
                  \/ Create(w, f)
                  \/ \E t \in Texts : Change(w, f, "updated", [text |-> t])
                  \/ \E s \in States : Change(w, f, "status_changed", [status |-> s])
                  \/ Change(w, f, "deleted", [live |-> FALSE])
      PROVE  UNCHANGED <<pager, tampers, entries>>
  BY <1>4 DEF Flush, Audit, Abort, Create, Change, Begin, AppendEntry, RollBackEntries,
              readerVars, chainVars
<1>5. CASE UNCHANGED vars
  BY <1>5 DEF vars, readerVars, chainVars, Seqs
<1>6. ASSUME UNCHANGED <<pager, tampers, entries>>
      PROVE  UNCHANGED pager /\ (tampers' = 0 => tampers = 0 /\ Seqs \subseteq Seqs')
  BY <1>6 DEF Seqs
<1> QED
  BY <1>1, <1>2, <1>3, <1>4, <1>5, <1>6 DEF Next, Step

LEMMA PagerNext ==
  ASSUME IInv, PagerOK, [Next]_vars
  PROVE  PagerOK'
<1>1. CASE FirstPage
  BY <1>1, FirstPageStep
<1>2. CASE NextPage
  BY <1>2, NextPageStep
<1>3. CASE UNCHANGED pager /\ (tampers' = 0 => tampers = 0 /\ Seqs \subseteq Seqs')
  BY <1>3 DEF PagerOK, PagerTyped, Listed
<1> QED
  BY <1>1, <1>2, <1>3, SeqsGrow

\* Pages neither overlap nor skip: the listing holds every entry there was when it
\* began. (audit/repository.py:145-155)
THEOREM ListingIsComplete == Spec => []PagesComplete
<1>1. Init => PagerOK
  BY DEF Init, ChainInit, PagerOK, PagerTyped
<1>2. IInv /\ PagerOK /\ [Next]_vars => PagerOK'
  BY PagerNext
<1>3. PagerOK => PagesComplete
  <2> SUFFICES ASSUME PagerOK PROVE PagesComplete
    OBVIOUS
  <2>1. DOMAIN pager.got = 1..Len(pager.got)
    BY LenProperties DEF PagerOK, PagerTyped
  <2> QED
    BY <2>1 DEF PagerOK, PagesComplete, Listed
<1> QED
  BY <1>1, <1>2, <1>3, RecordsInvariant, PTL DEF Spec
=============================================================================
