-------------------------- MODULE OperationsProofs --------------------------
(***************************************************************************)
(* Proofs about the operational tables, for any number of users, any       *)
(* limits of a page, any retention and any number of transactions.         *)
(*                                                                         *)
(* Fresh(t) are the identities that no row of table t has had yet: those   *)
(* of transactions that are not committed, those not yet generated and, in *)
(* the audit, the users who have resolved nothing.  It only shrinks, so    *)
(* that a row once gone never comes back (IdInv, ReaderInv).  LockInv is   *)
(* the row lock of the UPDATE: whoever holds it has an open failure in     *)
(* hand, which retention does not touch.                                   *)
(***************************************************************************)
EXTENDS Operations, FiniteSetTheorems, WellFoundedInduction, TLAPS

Recorded == {"outcomes", "failures"}
Steps == {"idle", "update", "audit", "commit", "lookup", "ok",
          "already_resolved", "not_found", "error"}
Rows(ids) == [id : ids, at : Nat, resolved : BOOLEAN]
Requests == [step : Steps, failure : Nat, began : Nat]
Ids == Nat \cup Users
Readers == [table : Tables \cup {"none"}, limit : Nat \ {0}, unresolved : BOOLEAN,
            before : Nat \cup {NoTime}, more : BOOLEAN, present : SUBSET Ids,
            shown : SUBSET Ids, twice : SUBSET Ids, cuts : SUBSET Nat]

TypeOK ==
  /\ clock \in Nat /\ nextId \in Nat
  /\ stored \in [Tables -> SUBSET Rows(Ids)]
  /\ \A t \in Recorded : stored[t] \subseteq Rows(Nat)
  /\ stored["audit"] \subseteq Rows(Users)
  /\ \A t \in Tables : IsFiniteSet(stored[t])
  /\ writes \subseteq [into : SUBSET Recorded, row : Rows(Nat)]
  /\ request \in [Users -> Requests]
  /\ audits \subseteq Nat \X Users
  /\ reader \in Readers

\* Identities that no row of table t has had.
Fresh(t) ==
  IF t = "audit"
  THEN {u \in Users : \A p \in audits : p[2] # u}
  ELSE {n \in Nat : n >= nextId \/ \E w \in writes : t \in w.into /\ w.row.id = n}

IdInv ==
  /\ \A w \in writes : w.row.id < nextId /\ ~w.row.resolved
  /\ \A v, w \in writes : v.row.id = w.row.id => v = w
  /\ \A t \in Tables : \A r \in stored[t] : r.id \notin Fresh(t)
  /\ \A t \in Tables : \A r, s \in stored[t] : r.id = s.id => r = s
  /\ \A p \in audits : p[1] \notin Fresh("failures")

Audited(id) == \E p \in audits : p[1] = id
Listed(id) == \E f \in stored["failures"] : f.id = id

LockInv ==
  /\ \A u, v \in Users :
       request[u].step \in {"audit", "commit"} /\ request[v].step \in {"audit", "commit"}
         /\ request[u].failure = request[v].failure => u = v
  /\ \A u \in Users :
       /\ request[u].step \in {"audit", "commit"} =>
            \E f \in stored["failures"] : f.id = request[u].failure /\ ~f.resolved
       /\ request[u].step = "lookup" => Audited(request[u].failure)

ReaderInv ==
  /\ reader.table = "none" =>
       /\ ~reader.more /\ reader.before = NoTime
       /\ reader.shown = {} /\ reader.twice = {} /\ reader.present = {}
  /\ reader.table # "none" =>
       /\ \A id \in reader.shown \cup reader.present : id \notin Fresh(reader.table)
       /\ \A row \in stored[reader.table] :
            row.id \in reader.shown => reader.before # NoTime /\ row.at >= reader.before

\* PagesComplete for one row.
Covered(row) ==
  (/\ row.id \in reader.present
   /\ reader.unresolved => ~row.resolved
   /\ reader.more => reader.before # NoTime /\ row.at >= reader.before)
  => row.id \in reader.shown \/ row.at \in reader.cuts

PagesInv ==
  /\ reader.twice = {}
  /\ reader.table # "none" => \A row \in stored[reader.table] : Covered(row)

IInv == TypeOK /\ IdInv /\ LockInv /\ FailuresTruthful /\ ReaderInv /\ PagesInv

-----------------------------------------------------------------------------
(* Smallest and largest *)

\* The smaller and the larger of two numbers.
LEMMA PairBounds ==
  ASSUME NEW a \in Nat, NEW b \in Nat
  PROVE  /\ Min({a, b}) = IF a <= b THEN a ELSE b
         /\ Max({a, b}) = IF a >= b THEN a ELSE b
<1>1. \A x \in {a, b} : (\A y \in {a, b} : x <= y) <=> x = IF a <= b THEN a ELSE b
  OBVIOUS
<1>2. \A x \in {a, b} : (\A y \in {a, b} : x >= y) <=> x = IF a >= b THEN a ELSE b
  OBVIOUS
<1> QED
  BY <1>1, <1>2 DEF Min, Max

\* A set of numbers that is not empty has a smallest one.
LEMMA MinExists ==
  ASSUME NEW S \in SUBSET Nat, S # {}
  PROVE  Min(S) \in S /\ \A x \in S : Min(S) <= x
<1> DEFINE R == OpToRel(<, Nat)
<1>1. IsWellFoundedOn(R, Nat)
  BY NatLessThanWellFounded
<1>2. \A x, y \in Nat : x < y => <<x, y>> \in R
  BY DEF OpToRel
<1> HIDE DEF R
<1>3. PICK m \in S : \A y \in S : ~(<<y, m>> \in R)
  BY <1>1, WFMin
<1>4. ASSUME NEW y \in S PROVE m <= y
  <2>1. m \in Nat /\ y \in Nat /\ ~(<<y, m>> \in R)
    BY <1>3
  <2>2. ~(y < m)
    BY <1>2, <2>1
  <2> QED
    BY <2>1, <2>2
<1>5. \E x \in S : \A y \in S : x <= y
  BY <1>4
<1> QED
  BY <1>5 DEF Min

\* A page has at least one row and at most MaxLimit.
LEMMA ClampBounds ==
  ASSUME NEW l \in Nat
  PROVE  Clamp(l) \in Nat \ {0} /\ Clamp(l) <= MaxLimit
<1>1. MaxLimit \in Nat \ {0}
  BY OperationsAssumption
<1>2. Max({l, 1}) = IF l >= 1 THEN l ELSE 1
  BY PairBounds
<1> DEFINE m == Max({l, 1})
<1>3. m \in Nat \ {0}
  BY <1>2
<1> HIDE DEF m
<1>4. Min({m, MaxLimit}) = IF m <= MaxLimit THEN m ELSE MaxLimit
  BY <1>1, <1>3, PairBounds
<1> QED
  BY <1>1, <1>3, <1>4 DEF Clamp, m

\* A page that is not full is all there was, an empty page means that nothing
\* was left, and what a page leaves out is not newer than what it shows.
LEMMA PageFacts ==
  ASSUME NEW rows, IsFiniteSet(rows), NEW limit \in Nat \ {0}, NEW page \in Pages(rows, limit)
  PROVE  /\ page \subseteq rows /\ IsFiniteSet(page) /\ Cardinality(page) \in Nat
         /\ \A r \in page, s \in rows \ page : r.at >= s.at
         /\ Cardinality(page) # limit => page = rows
         /\ page = {} => Cardinality(page) # limit
<1>1. /\ page \in SUBSET rows /\ Cardinality(page) = Min({limit, Cardinality(rows)})
      /\ \A r \in page, s \in rows \ page : r.at >= s.at
  BY DEF Pages
<1>2. IsFiniteSet(page) /\ (Cardinality(rows) = Cardinality(page) => rows = page)
  BY <1>1, FS_Subset
<1>3. Cardinality(rows) \in Nat /\ Cardinality(page) \in Nat
  BY <1>2, FS_CardinalityType
<1> DEFINE c == Cardinality(rows)
<1>4. c \in Nat
  BY <1>3
<1> HIDE DEF c
<1>5. Min({limit, c}) = IF limit <= c THEN limit ELSE c
  BY <1>4, PairBounds
<1>6. Cardinality(page) = limit \/ Cardinality(page) = Cardinality(rows)
  BY <1>1, <1>5 DEF c
<1>7. page = {} => Cardinality(page) = 0
  BY FS_EmptySet
<1> QED
  BY <1>1, <1>2, <1>3, <1>6, <1>7

-----------------------------------------------------------------------------
(* The inductive invariant and the property *)

\* PagesInv is PagesComplete, row by row.
LEMMA PagesAgree ==
  ASSUME TypeOK, ReaderInv, PagesInv
  PROVE  PagesComplete
<1>1. ASSUME reader.table # "none", NEW row \in Selected(reader.table, NoTime, reader.unresolved),
             row.id \in reader.present,
             IF reader.more THEN reader.before # NoTime /\ row.at >= reader.before
             ELSE reader.table # "none"
      PROVE  row.id \in reader.shown \/ row.at \in reader.cuts
  <2>1. row \in stored[reader.table] /\ (reader.unresolved => ~row.resolved)
    BY <1>1 DEF Selected
  <2>2. Covered(row)
    BY <1>1, <2>1 DEF PagesInv
  <2> QED
    BY <1>1, <2>1, <2>2 DEF Covered
<1>2. reader.twice = {}
  BY DEF PagesInv
<1> QED
  BY <1>1, <1>2 DEF PagesComplete

-----------------------------------------------------------------------------
(* Steps *)

\* No identity becomes fresh again, and a row that is new to a table has a
\* fresh one; an old row keeps its time and stays resolved.
Evolves ==
  \A t \in Tables :
    /\ \A id \in Ids : id \notin Fresh(t) => id \notin Fresh(t)'
    /\ \A row \in stored'[t] :
         \/ row.id \in Fresh(t)
         \/ \E old \in stored[t] : /\ old.id = row.id /\ old.at = row.at
                                   /\ old.resolved => row.resolved

\* A step of the others does not disturb the reader.
LEMMA ReaderKept ==
  ASSUME TypeOK, TypeOK', ReaderInv, PagesInv, reader' = reader, Evolves
  PROVE  ReaderInv' /\ PagesInv'
<1> DEFINE t == reader.table
<1>1. /\ reader.shown \subseteq Ids /\ reader.present \subseteq Ids
      /\ t \in Tables \cup {"none"}
  BY DEF TypeOK, Readers
<1>2. CASE t = "none"
  BY <1>2 DEF ReaderInv, PagesInv
<1>3. CASE t # "none"
  <2>1. t \in Tables
    BY <1>1, <1>3
  <2>2. \A id \in reader.shown \cup reader.present : id \notin Fresh(t) /\ id \notin Fresh(t)'
    BY <1>1, <1>3, <2>1 DEF ReaderInv, Evolves
  <2>3. ASSUME NEW row \in stored'[t], row.id \in reader.shown \cup reader.present
        PROVE  \E old \in stored[t] : /\ old.id = row.id /\ old.at = row.at
                                      /\ old.resolved => row.resolved
    BY <2>1, <2>2, <2>3 DEF Evolves
  <2>4. ASSUME NEW row \in stored'[t], row.id \in reader.shown
        PROVE  reader.before # NoTime /\ row.at >= reader.before
    <3>1. PICK old \in stored[t] : old.id = row.id /\ old.at = row.at
      BY <2>3, <2>4
    <3> QED
      BY <1>3, <2>4, <3>1 DEF ReaderInv
  <2>5. ASSUME NEW row \in stored'[t] PROVE Covered(row)'
    <3> SUFFICES ASSUME row.id \in reader.present, reader.unresolved => ~row.resolved,
                        reader.more => reader.before # NoTime /\ row.at >= reader.before
                 PROVE  row.id \in reader.shown \/ row.at \in reader.cuts
      BY DEF Covered
    <3>1. PICK old \in stored[t] : /\ old.id = row.id /\ old.at = row.at
                                   /\ old.resolved => row.resolved
      BY <2>3
    <3>2. Covered(old)
      BY <1>3 DEF PagesInv
    <3> QED
      BY <3>1, <3>2 DEF Covered
  <2>6. ReaderInv'
    BY <1>3, <2>2, <2>4 DEF ReaderInv
  <2>7. PagesInv'
    BY <1>3, <2>5 DEF PagesInv
  <2> QED
    BY <2>6, <2>7
<1> QED
  BY <1>2, <1>3

\* A user's request goes on to its next step.
LEMMA GotoFacts ==
  ASSUME TypeOK, NEW u \in Users, NEW s \in Steps, Goto(u, s)
  PROVE  /\ request' \in [Users -> Requests]
         /\ request'[u].step = s /\ request'[u].failure = request[u].failure
         /\ \A v \in Users : v # u => request'[v] = request[v]
BY DEF TypeOK, Goto, Requests

\* What a step keeps that changes the request of a user only.
LEMMA RequestOnly ==
  ASSUME TypeOK, IdInv, ReaderInv, PagesInv, NEW u \in Users,
         UNCHANGED <<clock, stored, writes, nextId, audits, reader>>,
         request' \in [Users -> Requests],
         \A v \in Users : v # u => request'[v] = request[v]
  PROVE  TypeOK' /\ IdInv' /\ ReaderInv' /\ PagesInv'
<1>1. TypeOK'
  BY DEF TypeOK
<1>3. \A t \in Tables : \A id : id \in Fresh(t)' <=> id \in Fresh(t)
  BY DEF Fresh
<1>4. IdInv'
  <2>1. \A t \in Tables : \A r \in stored[t] : r.id \notin Fresh(t)'
    BY <1>3 DEF IdInv
  <2>2. \A p \in audits : p[1] \notin Fresh("failures")'
    BY <1>3 DEF IdInv, Tables
  <2> QED
    BY <2>1, <2>2 DEF IdInv
<1>5. Evolves
  BY <1>3 DEF Evolves
<1> QED
  BY <1>1, <1>4, <1>5, ReaderKept

\* Tick
LEMMA TickStep == ASSUME IInv, Tick PROVE IInv'
<1> USE DEF IInv
<1>1. clock' \in Nat /\ UNCHANGED <<stored, writes, nextId, request, audits, reader>>
  BY DEF Tick, TypeOK
<1>2. TypeOK'
  BY <1>1 DEF TypeOK
<1>3. \A t \in Tables : \A id : id \in Fresh(t)' <=> id \in Fresh(t)
  BY <1>1 DEF Fresh
<1>4. IdInv'
  BY <1>1 DEF IdInv, Fresh
<1>5. LockInv' /\ FailuresTruthful'
  BY <1>1 DEF LockInv, FailuresTruthful, Audited
<1>6. Evolves
  BY <1>1, <1>3 DEF Evolves
<1> QED
  BY <1>1, <1>2, <1>4, <1>5, <1>6, ReaderKept

\* BeginRecord: the identity is taken from those not yet generated.
LEMMA BeginRecordStep == ASSUME IInv, BeginRecord PROVE IInv'
<1> USE DEF IInv
<1>1. PICK into \in {{"outcomes"}, {"outcomes", "failures"}, {"failures"}} :
        writes' = writes \cup {[into |-> into, row |-> Row(nextId, clock)]}
  BY DEF BeginRecord
<1> DEFINE w == [into |-> into, row |-> Row(nextId, clock)]
<1>2. /\ nextId' = nextId + 1 /\ nextId \in Nat /\ clock \in Nat
      /\ UNCHANGED <<clock, stored, request, audits, reader>>
  BY DEF BeginRecord, TypeOK
<1>3. /\ w \in [into : SUBSET Recorded, row : Rows(Nat)]
      /\ w.row.id = nextId /\ w.row.resolved = FALSE /\ w.into = into
  BY <1>2 DEF Row, Rows, Recorded
<1>4. writes' = writes \cup {w}
  BY <1>1
<1> HIDE DEF w
<1>5. TypeOK'
  BY <1>2, <1>3, <1>4 DEF TypeOK
<1>6. ASSUME NEW t \in Tables, NEW id, id \in Fresh(t)' PROVE id \in Fresh(t)
  <2>1. CASE t = "audit"
    BY <1>2, <1>6, <2>1 DEF Fresh
  <2>2. CASE t # "audit"
    <3>1. id \in Nat /\ (id >= nextId' \/ \E x \in writes' : t \in x.into /\ x.row.id = id)
      BY <1>6, <2>2 DEF Fresh
    <3>2. id >= nextId \/ \E x \in writes : t \in x.into /\ x.row.id = id
      BY <1>2, <1>3, <1>4, <3>1
    <3> QED
      BY <2>2, <3>1, <3>2 DEF Fresh
  <2> QED
    BY <2>1, <2>2
<1>7. IdInv'
  <2>1. \A v \in writes : v.row.id \in Nat /\ v.row.id < nextId
    BY DEF IdInv, TypeOK, Rows
  <2>2. \A v \in writes' : v.row.id < nextId' /\ ~v.row.resolved
    BY <1>2, <1>3, <1>4, <2>1 DEF IdInv
  <2>3. \A v, x \in writes' : v.row.id = x.row.id => v = x
    BY <1>2, <1>3, <1>4, <2>1 DEF IdInv
  <2>4. /\ \A t \in Tables : \A r \in stored[t] : r.id \notin Fresh(t)'
        /\ \A p \in audits : p[1] \notin Fresh("failures")'
    BY <1>6 DEF IdInv, Tables
  <2> QED
    BY <1>2, <2>2, <2>3, <2>4 DEF IdInv
<1>8. LockInv' /\ FailuresTruthful'
  BY <1>2 DEF LockInv, FailuresTruthful, Audited
<1>9. Evolves
  BY <1>2, <1>6 DEF Evolves
<1> QED
  BY <1>2, <1>5, <1>7, <1>8, <1>9, ReaderKept

\* RollbackRecord
LEMMA RollbackRecordStep == ASSUME IInv, RollbackRecord PROVE IInv'
<1> USE DEF IInv
<1>1. /\ writes' \subseteq writes
      /\ UNCHANGED <<clock, stored, nextId, request, audits, reader>>
  BY DEF RollbackRecord
<1>2. TypeOK'
  BY <1>1 DEF TypeOK
<1>3. \A t \in Tables : \A id : id \in Fresh(t)' => id \in Fresh(t)
  BY <1>1 DEF Fresh
<1>4. IdInv'
  <2>1. /\ \A t \in Tables : \A r \in stored[t] : r.id \notin Fresh(t)'
        /\ \A p \in audits : p[1] \notin Fresh("failures")'
    BY <1>3 DEF IdInv, Tables
  <2> QED
    BY <1>1, <2>1 DEF IdInv
<1>5. LockInv' /\ FailuresTruthful'
  BY <1>1 DEF LockInv, FailuresTruthful, Audited
<1>6. Evolves
  BY <1>1, <1>3 DEF Evolves
<1> QED
  BY <1>1, <1>2, <1>4, <1>5, <1>6, ReaderKept

\* CommitRecord: the row appears with an identity that was fresh.
LEMMA CommitRecordStep == ASSUME IInv, CommitRecord PROVE IInv'
<1> USE DEF IInv
<1>1. PICK w \in writes :
        /\ stored' = [t \in Tables |->
                        IF t \in w.into THEN stored[t] \cup {w.row} ELSE stored[t]]
        /\ writes' = writes \ {w}
        /\ UNCHANGED <<clock, nextId, request, audits, reader>>
  BY DEF CommitRecord
<1>2. /\ w.into \subseteq Recorded /\ w.row \in Rows(Nat) /\ w.row.id \in Nat
      /\ ~w.row.resolved /\ w.row.id < nextId /\ nextId \in Nat
  BY DEF TypeOK, IdInv, Rows
<1>3. ASSUME NEW t \in Tables
      PROVE  /\ stored'[t] = IF t \in w.into THEN stored[t] \cup {w.row} ELSE stored[t]
             /\ stored[t] \subseteq stored'[t]
             /\ \A row \in stored'[t] : row \in stored[t] \/ (row = w.row /\ t \in w.into)
  BY <1>1
<1>4. TypeOK'
  <2>1. ASSUME NEW t \in Tables PROVE IsFiniteSet(stored'[t])
    <3>1. IsFiniteSet(stored[t])
      BY DEF TypeOK
    <3>2. IsFiniteSet(stored[t] \cup {w.row})
      BY <3>1, FS_AddElement
    <3>3. stored'[t] = stored[t] \cup {w.row} \/ stored'[t] = stored[t]
      BY <1>3
    <3> QED
      BY <3>1, <3>2, <3>3
  <2>2. \A t \in Recorded : stored'[t] \subseteq Rows(Nat)
    BY <1>2, <1>3 DEF TypeOK, Recorded, Tables
  <2>3. stored'["audit"] \subseteq Rows(Users)
    BY <1>2, <1>3 DEF TypeOK, Recorded, Tables
  <2>4. w.row \in Rows(Ids)
    BY <1>2 DEF Rows, Ids
  <2>5. stored' \in [Tables -> SUBSET Rows(Ids)]
    BY <1>1, <2>4 DEF TypeOK
  <2> QED
    BY <1>1, <2>1, <2>2, <2>3, <2>5 DEF TypeOK
<1>5. \A t \in Tables : \A id : id \in Fresh(t)' => id \in Fresh(t)
  BY <1>1 DEF Fresh
<1>6. ASSUME NEW t \in Tables, t \in w.into
      PROVE  w.row.id \in Fresh(t) /\ w.row.id \notin Fresh(t)'
  <2>1. t # "audit"
    BY <1>2, <1>6 DEF Recorded
  <2>2. \A v \in writes' : v.row.id # w.row.id
    BY <1>1 DEF IdInv
  <2>3. ~(w.row.id >= nextId)
    BY <1>2
  <2> QED
    BY <1>1, <1>2, <1>6, <2>1, <2>2, <2>3 DEF Fresh
<1>7. IdInv'
  <2>1. ASSUME NEW t \in Tables, NEW r \in stored'[t] PROVE r.id \notin Fresh(t)'
    <3>1. CASE r \in stored[t]
      BY <1>5, <3>1 DEF IdInv
    <3>2. CASE r = w.row /\ t \in w.into
      BY <1>6, <3>2
    <3> QED
      BY <1>3, <3>1, <3>2
  <2>2. ASSUME NEW t \in Tables, NEW r \in stored'[t], NEW s \in stored'[t], r.id = s.id
        PROVE  r = s
    <3>1. /\ r \in stored[t] \/ (r = w.row /\ t \in w.into)
          /\ s \in stored[t] \/ (s = w.row /\ t \in w.into)
      BY <1>3
    <3>2. \A x \in stored[t] : x.id \notin Fresh(t)
      BY DEF IdInv
    <3>3. t \in w.into => w.row.id \in Fresh(t)
      BY <1>6
    <3>4. CASE r \in stored[t] /\ s \in stored[t]
      BY <2>2, <3>4 DEF IdInv
    <3> QED
      BY <2>2, <3>1, <3>2, <3>3, <3>4
  <2>3. \A p \in audits : p[1] \notin Fresh("failures")'
    BY <1>5 DEF IdInv, Tables
  <2> QED
    BY <1>1, <2>1, <2>2, <2>3 DEF IdInv
<1>8. "failures" \in Tables
  BY DEF Tables
<1>9. LockInv'
  <2>1. \A f \in stored["failures"] : f \in stored'["failures"]
    BY <1>3, <1>8
  <2> QED
    BY <1>1, <2>1 DEF LockInv, Audited
<1>10. FailuresTruthful'
  <2>1. ASSUME NEW f \in stored'["failures"]
        PROVE  f.resolved <=> \E p \in audits : p[1] = f.id
    <3>1. CASE f \in stored["failures"]
      BY <3>1 DEF FailuresTruthful
    <3>2. CASE f = w.row /\ "failures" \in w.into
      <4>1. w.row.id \in Fresh("failures")
        BY <1>6, <1>8, <3>2
      <4> QED
        BY <1>2, <3>2, <4>1 DEF IdInv
    <3> QED
      BY <1>3, <1>8, <3>1, <3>2
  <2>2. \A f \in stored["failures"] : f \in stored'["failures"]
    BY <1>3, <1>8
  <2>3. \A u \in Users :
          /\ request'[u].step = "ok" => \E p \in audits' : p[2] = u
          /\ request'[u].step \in {"ok", "already_resolved", "not_found"} =>
               \E p \in audits' : p[1] = request'[u].failure
          /\ request'[u].step = "update" =>
               \/ \E f \in stored'["failures"] : f.id = request'[u].failure
               \/ \E p \in audits' : p[1] = request'[u].failure
    <3> SUFFICES ASSUME NEW u \in Users
                 PROVE  /\ request[u].step = "ok" => \E p \in audits : p[2] = u
                        /\ request[u].step \in {"ok", "already_resolved", "not_found"} =>
                             \E p \in audits : p[1] = request[u].failure
                        /\ request[u].step = "update" =>
                             \/ \E f \in stored'["failures"] : f.id = request[u].failure
                             \/ \E p \in audits : p[1] = request[u].failure
      BY <1>1
    <3>1. /\ request[u].step = "ok" => \E p \in audits : p[2] = u
          /\ request[u].step \in {"ok", "already_resolved", "not_found"} =>
               \E p \in audits : p[1] = request[u].failure
      BY DEF FailuresTruthful
    <3>2. ASSUME request[u].step = "update"
          PROVE  \/ \E f \in stored'["failures"] : f.id = request[u].failure
                 \/ \E p \in audits : p[1] = request[u].failure
      BY <2>2, <3>2 DEF FailuresTruthful
    <3> QED
      BY <3>1, <3>2
  <2>4. \A p, q \in audits' : p[1] = q[1] => p = q
    BY <1>1 DEF FailuresTruthful
  <2>5. \A f \in stored'["failures"] : f.resolved <=> \E p \in audits' : p[1] = f.id
    BY <1>1, <2>1
  <2>6. \A p \in audits' : /\ p[1] = request'[p[2]].failure
                           /\ request'[p[2]].step \in {"ok", "error"}
    BY <1>1 DEF FailuresTruthful
  <2> QED
    BY <2>3, <2>4, <2>5, <2>6 DEF FailuresTruthful
<1>11. Evolves
  <2>1. ASSUME NEW t \in Tables, NEW row \in stored'[t]
        PROVE  \/ row.id \in Fresh(t)
               \/ \E old \in stored[t] : /\ old.id = row.id /\ old.at = row.at
                                         /\ old.resolved => row.resolved
    BY <1>3, <1>6
  <2> QED
    BY <1>5, <2>1 DEF Evolves
<1> QED
  BY <1>1, <1>4, <1>7, <1>9, <1>10, <1>11, ReaderKept

\* DeleteExpired: a failure that is still open is not removed.
LEMMA DeleteExpiredStep == ASSUME IInv, DeleteExpired PROVE IInv'
<1> USE DEF IInv
<1>1. /\ stored' = [t \in Tables |-> {row \in stored[t] : ~Expired(t, row)}]
      /\ UNCHANGED <<clock, writes, nextId, request, audits, reader>>
  BY DEF DeleteExpired
<1>2. \A t \in Tables : stored'[t] \subseteq stored[t]
  BY <1>1
<1>3. \A f \in stored["failures"] : ~f.resolved => f \in stored'["failures"]
  BY <1>1 DEF Expired, Tables
<1>4. TypeOK'
  <2>1. \A t \in Tables : IsFiniteSet(stored'[t])
    BY <1>2, FS_Subset DEF TypeOK
  <2>2. stored' \in [Tables -> SUBSET Rows(Ids)]
    BY <1>1 DEF TypeOK
  <2>3. /\ \A t \in Recorded : stored'[t] \subseteq Rows(Nat)
        /\ stored'["audit"] \subseteq Rows(Users)
    BY <1>2 DEF TypeOK, Recorded, Tables
  <2> QED
    BY <1>1, <2>1, <2>2, <2>3 DEF TypeOK
<1>5. \A t \in Tables : \A id : id \in Fresh(t)' <=> id \in Fresh(t)
  BY <1>1 DEF Fresh
<1>6. IdInv'
  <2>1. \A t \in Tables : \A r \in stored'[t] : r.id \notin Fresh(t)'
    BY <1>2, <1>5 DEF IdInv
  <2>2. \A t \in Tables : \A r, s \in stored'[t] : r.id = s.id => r = s
    BY <1>2 DEF IdInv
  <2>3. \A p \in audits : p[1] \notin Fresh("failures")'
    BY <1>5 DEF IdInv, Tables
  <2> QED
    BY <1>1, <2>1, <2>2, <2>3 DEF IdInv
<1>7. LockInv'
  BY <1>1, <1>3 DEF LockInv, Audited
<1>8. FailuresTruthful'
  <2>1. \A f \in stored'["failures"] : f \in stored["failures"]
    BY <1>2 DEF Tables
  <2>2. ASSUME NEW u \in Users, request[u].step = "update"
        PROVE  \/ \E f \in stored'["failures"] : f.id = request[u].failure
               \/ \E p \in audits : p[1] = request[u].failure
    <3>1. CASE \E p \in audits : p[1] = request[u].failure
      BY <3>1
    <3>2. CASE \E f \in stored["failures"] : f.id = request[u].failure
      <4>1. PICK f \in stored["failures"] : f.id = request[u].failure
        BY <3>2
      <4>2. f.resolved => \E p \in audits : p[1] = f.id
        BY DEF FailuresTruthful
      <4> QED
        BY <1>3, <4>1, <4>2
    <3> QED
      BY <2>2, <3>1, <3>2 DEF FailuresTruthful
  <2>3. \A u \in Users :
          /\ request'[u].step = "ok" => \E p \in audits' : p[2] = u
          /\ request'[u].step \in {"ok", "already_resolved", "not_found"} =>
               \E p \in audits' : p[1] = request'[u].failure
          /\ request'[u].step = "update" =>
               \/ \E f \in stored'["failures"] : f.id = request'[u].failure
               \/ \E p \in audits' : p[1] = request'[u].failure
    <3> SUFFICES ASSUME NEW u \in Users
                 PROVE  /\ request[u].step = "ok" => \E p \in audits : p[2] = u
                        /\ request[u].step \in {"ok", "already_resolved", "not_found"} =>
                             \E p \in audits : p[1] = request[u].failure
                        /\ request[u].step = "update" =>
                             \/ \E f \in stored'["failures"] : f.id = request[u].failure
                             \/ \E p \in audits : p[1] = request[u].failure
      BY <1>1
    <3>1. /\ request[u].step = "ok" => \E p \in audits : p[2] = u
          /\ request[u].step \in {"ok", "already_resolved", "not_found"} =>
               \E p \in audits : p[1] = request[u].failure
      BY DEF FailuresTruthful
    <3>2. ASSUME request[u].step = "update"
          PROVE  \/ \E f \in stored'["failures"] : f.id = request[u].failure
                 \/ \E p \in audits : p[1] = request[u].failure
      BY <2>2, <3>2
    <3> QED
      BY <3>1, <3>2
  <2>4. \A p, q \in audits' : p[1] = q[1] => p = q
    BY <1>1 DEF FailuresTruthful
  <2>5. \A f \in stored'["failures"] : f.resolved <=> \E p \in audits' : p[1] = f.id
    BY <1>1, <2>1 DEF FailuresTruthful
  <2>6. \A p \in audits' : /\ p[1] = request'[p[2]].failure
                           /\ request'[p[2]].step \in {"ok", "error"}
    BY <1>1 DEF FailuresTruthful
  <2> QED
    BY <2>3, <2>4, <2>5, <2>6 DEF FailuresTruthful
<1>9. Evolves
  BY <1>2, <1>5 DEF Evolves
<1> QED
  BY <1>1, <1>4, <1>6, <1>7, <1>8, <1>9, ReaderKept

\* BeginResolve
LEMMA BeginResolveStep == ASSUME IInv, NEW u \in Users, BeginResolve(u) PROVE IInv'
<1> USE DEF IInv
<1>1. PICK f \in stored["failures"] :
        request' = [request EXCEPT ![u] = [step |-> "update", failure |-> f.id, began |-> clock]]
  BY DEF BeginResolve
<1>2. /\ request[u].step = "idle"
      /\ UNCHANGED <<clock, stored, writes, nextId, audits, reader>>
  BY DEF BeginResolve
<1>3. f.id \in Nat /\ clock \in Nat
  BY DEF TypeOK, Recorded, Rows
<1>4. /\ request' \in [Users -> Requests]
      /\ request'[u].step = "update" /\ request'[u].failure = f.id
      /\ \A v \in Users : v # u => request'[v] = request[v]
  BY <1>1, <1>3 DEF TypeOK, Requests, Steps
<1>5. TypeOK' /\ IdInv' /\ ReaderInv' /\ PagesInv'
  BY <1>2, <1>4, RequestOnly
<1>6. LockInv'
  <2>1. \A v \in Users : request'[v].step \in {"audit", "commit", "lookup"} =>
          request'[v] = request[v]
    BY <1>4
  <2> QED
    BY <1>2, <2>1 DEF LockInv, Audited
<1>7. FailuresTruthful'
  <2>1. \A v \in Users : request'[v].step # "update" => request'[v] = request[v]
    BY <1>4
  <2>2. ASSUME NEW v \in Users
        PROVE  /\ request'[v].step = "ok" => \E p \in audits : p[2] = v
               /\ request'[v].step \in {"ok", "already_resolved", "not_found"} =>
                    \E p \in audits : p[1] = request'[v].failure
               /\ request'[v].step = "update" =>
                    \/ \E g \in stored["failures"] : g.id = request'[v].failure
                    \/ \E p \in audits : p[1] = request'[v].failure
    <3>1. CASE v = u
      BY <1>2, <1>4, <3>1 DEF FailuresTruthful
    <3>2. CASE v # u
      BY <1>4, <3>2 DEF FailuresTruthful
    <3> QED
      BY <3>1, <3>2
  <2>3. ASSUME NEW p \in audits
        PROVE  /\ p[1] = request'[p[2]].failure
               /\ request'[p[2]].step \in {"ok", "error"}
    <3>1. p[2] \in Users /\ p[1] = request[p[2]].failure
            /\ request[p[2]].step \in {"ok", "error"}
      BY DEF FailuresTruthful, TypeOK
    <3>2. p[2] # u
      BY <1>2, <3>1
    <3> QED
      BY <1>4, <3>1, <3>2
  <2> QED
    BY <1>2, <2>2, <2>3 DEF FailuresTruthful
<1> QED
  BY <1>5, <1>6, <1>7

\* A step of resolve_failure() short of its COMMIT: it keeps the truth if what
\* the user is told is true and the lock is held by nobody else.
LEMMA ResolveStep ==
  ASSUME IInv, NEW u \in Users, NEW s \in Steps \ {"ok", "idle", "update"}, Goto(u, s),
         request[u].step \in {"update", "audit", "commit", "lookup"},
         UNCHANGED <<clock, stored, writes, nextId, audits, reader>>,
         s \in {"audit", "commit"} =>
           /\ \E f \in stored["failures"] : f.id = request[u].failure /\ ~f.resolved
           /\ \A v \in Users : (v # u /\ request[v].step \in {"audit", "commit"})
                               => request[v].failure # request[u].failure,
         s \in {"lookup", "already_resolved", "not_found"} => Audited(request[u].failure)
  PROVE  IInv'
<1> USE DEF IInv
<1>1. /\ request' \in [Users -> Requests]
      /\ request'[u].step = s /\ request'[u].failure = request[u].failure
      /\ \A v \in Users : v # u => request'[v] = request[v]
  BY GotoFacts
<1>2. TypeOK' /\ IdInv' /\ ReaderInv' /\ PagesInv'
  BY <1>1, RequestOnly
<1>3. LockInv'
  <2>1. ASSUME NEW v \in Users, NEW x \in Users,
               request'[v].step \in {"audit", "commit"}, request'[x].step \in {"audit", "commit"},
               request'[v].failure = request'[x].failure
        PROVE  v = x
    <3>1. CASE v # u /\ x # u
      BY <1>1, <2>1, <3>1 DEF LockInv
    <3>2. CASE v = u /\ x # u
      BY <1>1, <2>1, <3>2
    <3>3. CASE v # u /\ x = u
      BY <1>1, <2>1, <3>3
    <3> QED
      BY <3>1, <3>2, <3>3
  <2>2. ASSUME NEW v \in Users
        PROVE  /\ request'[v].step \in {"audit", "commit"} =>
                    \E f \in stored["failures"] : f.id = request'[v].failure /\ ~f.resolved
               /\ request'[v].step = "lookup" => \E p \in audits : p[1] = request'[v].failure
    <3>1. CASE v = u
      BY <1>1, <3>1 DEF Audited
    <3>2. CASE v # u
      BY <1>1, <3>2 DEF LockInv, Audited
    <3> QED
      BY <3>1, <3>2
  <2> QED
    BY <2>1, <2>2 DEF LockInv, Audited
<1>4. FailuresTruthful'
  <2>1. ASSUME NEW v \in Users
        PROVE  /\ request'[v].step = "ok" => \E p \in audits : p[2] = v
               /\ request'[v].step \in {"ok", "already_resolved", "not_found"} =>
                    \E p \in audits : p[1] = request'[v].failure
               /\ request'[v].step = "update" =>
                    \/ \E f \in stored["failures"] : f.id = request'[v].failure
                    \/ \E p \in audits : p[1] = request'[v].failure
    <3>1. CASE v = u
      BY <1>1, <3>1 DEF FailuresTruthful, Audited
    <3>2. CASE v # u
      BY <1>1, <3>2 DEF FailuresTruthful
    <3> QED
      BY <3>1, <3>2
  <2>2. ASSUME NEW p \in audits
        PROVE  /\ p[1] = request'[p[2]].failure
               /\ request'[p[2]].step \in {"ok", "error"}
    <3>1. p[2] \in Users /\ p[1] = request[p[2]].failure
            /\ request[p[2]].step \in {"ok", "error"}
      BY DEF FailuresTruthful, TypeOK
    <3>2. p[2] # u
      BY <3>1
    <3> QED
      BY <1>1, <3>1, <3>2
  <2> QED
    BY <2>1, <2>2 DEF FailuresTruthful
<1> QED
  BY <1>2, <1>3, <1>4

\* UpdateFailure: it waits for the lock, and finds no open failure only if
\* another user has resolved it.
LEMMA UpdateFailureStep == ASSUME IInv, NEW u \in Users, UpdateFailure(u) PROVE IInv'
<1> USE DEF IInv
<1>1. /\ request[u].step = "update" /\ ~Locked(request[u].failure)
      /\ UNCHANGED <<clock, stored, writes, nextId, audits, reader>>
  BY DEF UpdateFailure
<1>2. CASE \E f \in stored["failures"] : f.id = request[u].failure /\ ~f.resolved
  <2>1. Goto(u, "audit")
    BY <1>2 DEF UpdateFailure, Resolvable
  <2>2. \A v \in Users : request[v].step \in {"audit", "commit"}
                           => request[v].failure # request[u].failure
    BY <1>1 DEF Locked
  <2>3. "audit" \in Steps \ {"ok", "idle", "update"}
    BY DEF Steps
  <2> QED
    BY <1>1, <1>2, <2>1, <2>2, <2>3, ResolveStep
<1>3. CASE ~\E f \in stored["failures"] : f.id = request[u].failure /\ ~f.resolved
  <2>1. Goto(u, "lookup")
    BY <1>3 DEF UpdateFailure, Resolvable
  <2>2. Audited(request[u].failure)
    <3>1. \/ \E f \in stored["failures"] : f.id = request[u].failure
          \/ \E p \in audits : p[1] = request[u].failure
      BY <1>1 DEF FailuresTruthful
    <3>2. \A f \in stored["failures"] :
            f.id = request[u].failure => \E p \in audits : p[1] = f.id
      BY <1>3 DEF FailuresTruthful
    <3> QED
      BY <3>1, <3>2 DEF Audited
  <2>3. "lookup" \in Steps \ {"ok", "idle", "update"}
    BY DEF Steps
  <2> QED
    BY <1>1, <2>1, <2>2, <2>3, ResolveStep
<1> QED
  BY <1>2, <1>3

\* InsertAudit, LookUp and RollbackResolve
LEMMA ShortStep ==
  ASSUME IInv, NEW u \in Users, InsertAudit(u) \/ LookUp(u) \/ RollbackResolve(u)
  PROVE  IInv'
<1> USE DEF IInv
<1>1. /\ {"commit", "error", "already_resolved", "not_found"} \subseteq Steps \ {"ok", "idle", "update"}
      /\ request[u].step \in {"update", "audit", "commit", "lookup"}
      /\ UNCHANGED <<clock, stored, writes, nextId, audits, reader>>
  BY DEF InsertAudit, LookUp, RollbackResolve, Steps
<1>2. CASE Goto(u, "error")
  BY <1>1, <1>2, ResolveStep
<1>3. CASE request[u].step = "audit" /\ Goto(u, "commit")
  <2>1. \E f \in stored["failures"] : f.id = request[u].failure /\ ~f.resolved
    BY <1>3 DEF LockInv
  <2>2. \A v \in Users : v # u /\ request[v].step \in {"audit", "commit"}
                           => request[v].failure # request[u].failure
    BY <1>3 DEF LockInv
  <2> QED
    BY <1>1, <1>3, <2>1, <2>2, ResolveStep
<1>4. CASE request[u].step = "lookup" /\ (Goto(u, "already_resolved") \/ Goto(u, "not_found"))
  <2>1. Audited(request[u].failure)
    BY <1>4 DEF LockInv
  <2>2. CASE Goto(u, "already_resolved")
    BY <1>1, <2>1, <2>2, ResolveStep
  <2>3. CASE Goto(u, "not_found")
    BY <1>1, <2>1, <2>3, ResolveStep
  <2> QED
    BY <1>4, <2>2, <2>3
<1> QED
  BY <1>2, <1>3, <1>4 DEF InsertAudit, LookUp, RollbackResolve

\* CommitResolve: the failure in hand is open and nobody else's, so that it has
\* no audit entry yet.
LEMMA CommitResolveStep == ASSUME IInv, NEW u \in Users, CommitResolve(u) PROVE IInv'
<1> USE DEF IInv
<1> DEFINE id == request[u].failure
           Mark(f) == IF f.id = id THEN [f EXCEPT !.resolved = TRUE] ELSE f
           F == stored["failures"]
           A == stored["audit"]
           e == Row(u, request[u].began)
<1>1. /\ request[u].step = "commit" /\ (Goto(u, "ok") \/ Goto(u, "error"))
      /\ stored' = [stored EXCEPT !["failures"] = {Mark(f) : f \in F}, !["audit"] = A \cup {e}]
      /\ audits' = audits \cup {<<id, u>>}
      /\ UNCHANGED <<clock, writes, nextId, reader>>
  BY DEF CommitResolve
<1>2. /\ request' \in [Users -> Requests]
      /\ request'[u].step \in {"ok", "error"} /\ request'[u].failure = id
      /\ \A v \in Users : v # u => request'[v] = request[v]
  BY <1>1, GotoFacts DEF Steps
<1>3. /\ id \in Nat /\ request[u].began \in Nat
      /\ e \in Rows(Users) /\ e \in Rows(Ids) /\ e.id = u
  BY DEF TypeOK, Requests, Row, Rows, Ids
<1>4. ASSUME NEW f \in F
      PROVE  /\ Mark(f) \in Rows(Nat) /\ Mark(f).id = f.id /\ Mark(f).at = f.at
             /\ Mark(f).resolved <=> (f.resolved \/ f.id = id)
             /\ f \in Rows(Nat)
  BY DEF TypeOK, Recorded, Rows
<1>5. /\ stored'["failures"] = {Mark(f) : f \in F} /\ stored'["audit"] = A \cup {e}
      /\ stored'["outcomes"] = stored["outcomes"] /\ stored' \in [Tables -> {stored'[t] : t \in Tables}]
  BY <1>1 DEF TypeOK, Tables
<1> HIDE DEF Mark, id, e
<1>6. TypeOK'
  <2>1. IsFiniteSet(F) /\ IsFiniteSet(A) /\ IsFiniteSet(stored["outcomes"])
    BY DEF TypeOK, Tables
  <2>2. IsFiniteSet({Mark(f) : f \in F})
    <3> DEFINE g == [f \in F |-> Mark(f)]
    <3>1. g \in Surjection(F, {Mark(f) : f \in F})
      BY DEF Surjection
    <3> QED
      BY <2>1, <3>1, FS_Surjection
  <2>3. IsFiniteSet(A \cup {e})
    BY <2>1, FS_AddElement
  <2>4. \A t \in Tables : IsFiniteSet(stored'[t])
    BY <1>5, <2>1, <2>2, <2>3 DEF Tables
  <2>5. /\ stored'["failures"] \subseteq Rows(Nat) /\ stored'["outcomes"] \subseteq Rows(Nat)
        /\ stored'["audit"] \subseteq Rows(Users)
    BY <1>3, <1>4, <1>5 DEF TypeOK, Recorded
  <2>6. Rows(Nat) \subseteq Rows(Ids) /\ Rows(Users) \subseteq Rows(Ids)
    BY DEF Rows, Ids
  <2>7. stored' \in [Tables -> SUBSET Rows(Ids)]
    BY <1>5, <2>5, <2>6 DEF Tables
  <2>8. audits' \subseteq Nat \X Users
    BY <1>1, <1>3 DEF TypeOK
  <2>9. \A t \in Recorded : stored'[t] \subseteq Rows(Nat)
    BY <2>5 DEF Recorded
  <2>10. /\ clock' \in Nat /\ nextId' \in Nat /\ reader' \in Readers
         /\ writes' \subseteq [into : SUBSET Recorded, row : Rows(Nat)]
    BY <1>1 DEF TypeOK
  <2> QED
    BY <1>2, <2>4, <2>5, <2>7, <2>8, <2>9, <2>10 DEF TypeOK
<1>7. /\ \A x : x \in Fresh("failures")' <=> x \in Fresh("failures")
      /\ \A x : x \in Fresh("outcomes")' <=> x \in Fresh("outcomes")
      /\ \A x : x \in Fresh("audit")' <=> x \in Fresh("audit") /\ x # u
      /\ u \in Fresh("audit")
  <2>1. /\ \A x : x \in Fresh("failures")' <=> x \in Fresh("failures")
        /\ \A x : x \in Fresh("outcomes")' <=> x \in Fresh("outcomes")
    BY <1>1 DEF Fresh
  <2> DEFINE n == <<id, u>>
  <2>5. n[2] = u /\ audits' = audits \cup {n}
    BY <1>1
  <2> HIDE DEF n
  <2>2. \A x : (\A p \in audits' : p[2] # x) <=> (\A p \in audits : p[2] # x) /\ x # u
    BY <2>5, Zenon
  <2>3. \A x : x \in Fresh("audit")' <=> x \in Fresh("audit") /\ x # u
    BY <2>2 DEF Fresh
  <2>4. u \in Fresh("audit")
    BY <1>1 DEF Fresh, FailuresTruthful
  <2> QED
    BY <2>1, <2>3, <2>4
<1>8. PICK g \in F : g.id = id /\ ~g.resolved
  BY <1>1 DEF LockInv, id
<1>9. \A p \in audits : p[1] # id
  BY <1>8 DEF FailuresTruthful
<1>10. \A p \in audits : p[2] # u
  BY <1>1 DEF FailuresTruthful
<1>11. IdInv'
  <2>1. \A r \in stored'["failures"] : r.id \notin Fresh("failures")'
    BY <1>4, <1>5, <1>7 DEF IdInv, Tables
  <2>2. \A r \in stored'["outcomes"] : r.id \notin Fresh("outcomes")'
    BY <1>5, <1>7 DEF IdInv, Tables
  <2>3. \A r \in stored'["audit"] : r.id \notin Fresh("audit")'
    BY <1>3, <1>5, <1>7 DEF IdInv, Tables
  <2>4. \A r, s \in stored'["failures"] : r.id = s.id => r = s
    <3> SUFFICES ASSUME NEW a \in F, NEW b \in F, Mark(a).id = Mark(b).id PROVE Mark(a) = Mark(b)
      BY <1>5
    <3>1. a.id = b.id
      BY <1>4
    <3> QED
      BY <3>1 DEF IdInv, Tables
  <2>5. \A r, s \in stored'["audit"] : r.id = s.id => r = s
    <3>1. \A r \in A : r.id # u
      BY <1>7 DEF IdInv, Tables
    <3>2. \A r, s \in A : r.id = s.id => r = s
      BY DEF IdInv, Tables
    <3> QED
      BY <1>3, <1>5, <3>1, <3>2
  <2>6. \A r, s \in stored'["outcomes"] : r.id = s.id => r = s
    BY <1>5 DEF IdInv, Tables
  <2>7. \A p \in audits' : p[1] \notin Fresh("failures")'
    <3>1. id \notin Fresh("failures")
      BY <1>8 DEF IdInv, Tables
    <3> QED
      BY <1>1, <1>7, <3>1 DEF IdInv
  <2>8. /\ \A t \in Tables : \A r \in stored'[t] : r.id \notin Fresh(t)'
        /\ \A t \in Tables : \A r, s \in stored'[t] : r.id = s.id => r = s
    BY <2>1, <2>2, <2>3, <2>4, <2>5, <2>6 DEF Tables
  <2> QED
    BY <1>1, <2>7, <2>8 DEF IdInv
<1>12. LockInv'
  <2>1. ASSUME NEW v \in Users, request'[v].step \in {"audit", "commit"}
        PROVE  \E f \in stored'["failures"] : f.id = request'[v].failure /\ ~f.resolved
    <3>1. v # u /\ request'[v] = request[v]
      BY <1>2, <2>1
    <3>2. request[v].failure # id
      BY <1>1, <2>1, <3>1 DEF LockInv, id
    <3>3. PICK f \in F : f.id = request[v].failure /\ ~f.resolved
      BY <2>1, <3>1 DEF LockInv
    <3>4. Mark(f) = f
      BY <3>2, <3>3 DEF Mark
    <3> QED
      BY <1>5, <3>1, <3>3, <3>4
  <2>2. ASSUME NEW v \in Users, request'[v].step = "lookup" PROVE Audited(request[v].failure)'
    BY <1>1, <1>2, <2>2 DEF LockInv, Audited
  <2>3. ASSUME NEW v \in Users, NEW x \in Users,
               request'[v].step \in {"audit", "commit"}, request'[x].step \in {"audit", "commit"},
               request'[v].failure = request'[x].failure
        PROVE  v = x
    BY <1>2, <2>3 DEF LockInv
  <2> QED
    BY <2>1, <2>2, <2>3 DEF LockInv
<1>13. FailuresTruthful'
  <2>1. ASSUME NEW p \in audits', NEW q \in audits', p[1] = q[1] PROVE p = q
    BY <1>1, <1>9, <2>1 DEF FailuresTruthful
  <2>6. ASSUME NEW p \in audits'
        PROVE  /\ p[1] = request'[p[2]].failure
               /\ request'[p[2]].step \in {"ok", "error"}
    <3>1. CASE p \in audits
      <4>1. p[2] \in Users /\ p[2] # u
        BY <1>10, <3>1 DEF TypeOK
      <4> QED
        BY <1>2, <3>1, <4>1 DEF FailuresTruthful
    <3>2. CASE p = <<id, u>>
      BY <1>2, <3>2
    <3> QED
      BY <1>1, <3>1, <3>2
  <2> DEFINE n == <<id, u>>
  <2>0. n[1] = id /\ n[2] = u /\ audits' = audits \cup {n}
    BY <1>1
  <2> HIDE DEF n
  <2>2. \A x : (\E p \in audits' : p[1] = x) <=> (\E p \in audits : p[1] = x) \/ x = id
    BY <2>0, Zenon
  <2>3. \A v : (\E p \in audits' : p[2] = v) <=> (\E p \in audits : p[2] = v) \/ v = u
    BY <2>0, Zenon
  <2>4. ASSUME NEW f \in F
        PROVE  Mark(f).resolved <=> \E p \in audits' : p[1] = Mark(f).id
    <3>1. f.resolved <=> \E p \in audits : p[1] = f.id
      BY DEF FailuresTruthful
    <3>2. Mark(f).id = f.id /\ (Mark(f).resolved <=> (f.resolved \/ f.id = id))
      BY <1>4
    <3> QED
      BY <2>2, <3>1, <3>2
  <2>5. ASSUME NEW v \in Users
        PROVE  /\ request'[v].step = "ok" => \E p \in audits' : p[2] = v
               /\ request'[v].step \in {"ok", "already_resolved", "not_found"} =>
                    \E p \in audits' : p[1] = request'[v].failure
               /\ request'[v].step = "update" =>
                    \/ \E f \in stored'["failures"] : f.id = request'[v].failure
                    \/ \E p \in audits' : p[1] = request'[v].failure
    <3>1. CASE v = u
      BY <1>2, <2>2, <2>3, <3>1
    <3>2. CASE v # u
      <4>1. request'[v] = request[v]
        BY <1>2, <3>2
      <4>2. \A f \in F : \E h \in stored'["failures"] : h.id = f.id
        BY <1>4, <1>5
      <4>3. /\ request[v].step = "ok" => \E p \in audits : p[2] = v
            /\ request[v].step \in {"ok", "already_resolved", "not_found"} =>
                 \E p \in audits : p[1] = request[v].failure
            /\ request[v].step = "update" =>
                 \/ \E f \in F : f.id = request[v].failure
                 \/ \E p \in audits : p[1] = request[v].failure
        BY DEF FailuresTruthful
      <4>4. request[v].step = "ok" => \E p \in audits' : p[2] = v
        BY <2>3, <4>3
      <4>5. (\E p \in audits : p[1] = request[v].failure)
              => (\E p \in audits' : p[1] = request[v].failure)
        BY <2>2
      <4> QED
        BY <4>1, <4>2, <4>3, <4>4, <4>5
    <3> QED
      BY <3>1, <3>2
  <2> QED
    BY <1>5, <2>1, <2>4, <2>5, <2>6 DEF FailuresTruthful
<1>14. Evolves
  <2>1. \A t \in Tables : \A x \in Ids : x \notin Fresh(t) => x \notin Fresh(t)'
    BY <1>7 DEF Tables
  <2>2. ASSUME NEW t \in Tables, NEW row \in stored'[t]
        PROVE  \/ row.id \in Fresh(t)
               \/ \E old \in stored[t] : /\ old.id = row.id /\ old.at = row.at
                                         /\ old.resolved => row.resolved
    <3>1. CASE t = "failures"
      <4>1. PICK f \in F : row = Mark(f)
        BY <1>5, <3>1
      <4>2. /\ f.id = row.id /\ f.at = row.at /\ (f.resolved => row.resolved)
        BY <1>4, <4>1
      <4> QED
        BY <3>1, <4>2
    <3>2. CASE t = "audit"
      BY <1>3, <1>5, <1>7, <3>2
    <3>3. CASE t = "outcomes"
      BY <1>5, <3>3
    <3> QED
      BY <3>1, <3>2, <3>3 DEF Tables
  <2> QED
    BY <2>1, <2>2 DEF Evolves
<1> QED
  BY <1>1, <1>6, <1>11, <1>12, <1>13, <1>14, ReaderKept

\* OpenList
LEMMA OpenListStep == ASSUME IInv, OpenList PROVE IInv'
<1> USE DEF IInv
<1>1. /\ reader.table = "none"
      /\ UNCHANGED <<clock, stored, writes, nextId, request, audits>>
  BY DEF OpenList
<1>2. PICK t \in Tables, limit \in Limits, unresolved \in BOOLEAN :
        reader' = [reader EXCEPT !.table = t, !.limit = Clamp(limit),
                       !.unresolved = unresolved, !.more = TRUE,
                       !.present = {row.id : row \in stored[t]}]
  BY DEF OpenList
<1>3. Clamp(limit) \in Nat \ {0}
  BY ClampBounds, OperationsAssumption
<1>4. {row.id : row \in stored[t]} \subseteq Ids
  BY DEF TypeOK, Rows
<1>5. /\ reader' \in Readers
      /\ reader'.table = t /\ reader'.more = TRUE /\ reader'.unresolved = unresolved
      /\ reader'.present = {row.id : row \in stored[t]}
      /\ reader'.shown = reader.shown /\ reader'.twice = reader.twice
      /\ reader'.before = reader.before /\ reader'.cuts = reader.cuts
  BY <1>2, <1>3, <1>4 DEF TypeOK, Readers
<1>6. reader.shown = {} /\ reader.twice = {} /\ reader.before = NoTime /\ t # "none"
  BY <1>1 DEF ReaderInv, Tables
<1>7. TypeOK'
  BY <1>1, <1>5 DEF TypeOK
<1>8. \A x : \A id : id \in Fresh(x)' <=> id \in Fresh(x)
  BY <1>1 DEF Fresh
<1>9. IdInv'
  <2>1. /\ \A x \in Tables : \A r \in stored[x] : r.id \notin Fresh(x)'
        /\ \A p \in audits : p[1] \notin Fresh("failures")'
    BY <1>8 DEF IdInv
  <2> QED
    BY <1>1, <2>1 DEF IdInv
<1>10. LockInv' /\ FailuresTruthful'
  BY <1>1 DEF LockInv, FailuresTruthful, Audited
<1>11. ReaderInv'
  <2>1. \A r \in stored[t] : r.id \notin Fresh(t)'
    BY <1>8 DEF IdInv
  <2>2. \A id \in reader'.shown \cup reader'.present : id \notin Fresh(t)'
    BY <1>5, <1>6, <2>1
  <2> QED
    BY <1>1, <1>5, <1>6, <2>2 DEF ReaderInv
<1>12. PagesInv'
  <2>1. ASSUME NEW row \in stored[t] PROVE Covered(row)'
    BY <1>5, <1>6 DEF Covered
  <2> QED
    BY <1>1, <1>5, <1>6, <2>1 DEF PagesInv
<1> QED
  BY <1>7, <1>9, <1>10, <1>11, <1>12

\* ReadPage: a page begins where the last one ended.
LEMMA ReadPageStep == ASSUME IInv, ReadPage PROVE IInv'
<1> USE DEF IInv
<1> DEFINE t == reader.table
           rows == Selected(t, reader.before, reader.unresolved)
<1>1. PICK page \in Pages(rows, reader.limit) :
        reader' = [reader EXCEPT
         !.twice = @ \cup {r.id : r \in {q \in page : q.id \in reader.shown}},
         !.shown = @ \cup {r.id : r \in page},
         !.before = IF page = {} THEN @ ELSE Min({r.at : r \in page}),
         !.cuts = IF page = {} THEN @ ELSE @ \cup {Min({r.at : r \in page})},
         !.more = (Cardinality(page) = reader.limit)]
  BY DEF ReadPage
<1>2. /\ reader.more /\ UNCHANGED <<clock, stored, writes, nextId, request, audits>>
  BY DEF ReadPage
<1>3. t \in Tables /\ t # "none" /\ reader.limit \in Nat \ {0}
  BY <1>2 DEF ReaderInv, TypeOK, Readers
<1>4. /\ rows \subseteq stored[t]
      /\ \A r \in stored[t] : r \in rows <=> /\ reader.before # NoTime => r.at < reader.before
                                             /\ reader.unresolved => ~r.resolved
  BY DEF Selected
<1>5. IsFiniteSet(rows)
  BY <1>3, <1>4, FS_Subset DEF TypeOK
<1> HIDE DEF rows
<1>6. /\ page \subseteq rows
      /\ \A r \in page, s \in rows \ page : r.at >= s.at
      /\ Cardinality(page) # reader.limit => page = rows
      /\ page = {} => Cardinality(page) # reader.limit
  BY <1>3, <1>5, PageFacts
<1>7. ASSUME NEW r \in stored[t] PROVE r.id \in Ids /\ r.at \in Nat
  BY <1>3 DEF TypeOK, Rows
<1> DEFINE ats == {r.at : r \in page}
           ids == {r.id : r \in page}
           again == {r.id : r \in {q \in page : q.id \in reader.shown}}
           m == Min(ats)
<1>8. ats \subseteq Nat /\ ids \subseteq Ids
  BY <1>4, <1>6, <1>7
<1>9. page # {} => m \in ats /\ \A x \in ats : m <= x
  <2> SUFFICES ASSUME page # {} PROVE m \in ats /\ \A x \in ats : m <= x
    OBVIOUS
  <2>1. ats # {} /\ ats \in SUBSET Nat
    BY <1>8
  <2> HIDE DEF ats
  <2> QED
    BY <2>1, MinExists
<1>10. again = {}
  <2> SUFFICES ASSUME NEW r \in page, r.id \in reader.shown PROVE FALSE
    OBVIOUS
  <2>1. r \in stored[t] /\ r \in rows
    BY <1>4, <1>6
  <2>2. reader.before # NoTime /\ r.at >= reader.before
    BY <1>3, <2>1 DEF ReaderInv
  <2>3. r.at < reader.before /\ r.at \in Nat /\ reader.before \in Nat
    BY <1>4, <1>7, <2>1, <2>2 DEF TypeOK, Readers
  <2> QED
    BY <2>2, <2>3
<1> HIDE DEF ats, ids, again, m
<1>11. /\ reader' = [reader EXCEPT !.twice = reader.twice \cup again, !.shown = reader.shown \cup ids,
                       !.before = IF page = {} THEN reader.before ELSE m,
                       !.cuts = IF page = {} THEN reader.cuts ELSE reader.cuts \cup {m},
                       !.more = (Cardinality(page) = reader.limit)]
  BY <1>1 DEF ats, ids, again, m
<1>12. reader \in Readers /\ (page # {} => m \in Nat)
  BY <1>8, <1>9 DEF TypeOK
<1>13. /\ reader' \in Readers
       /\ reader'.table = t /\ reader'.unresolved = reader.unresolved
       /\ reader'.present = reader.present
       /\ reader'.shown = reader.shown \cup ids /\ reader'.twice = reader.twice
       /\ reader'.more <=> Cardinality(page) = reader.limit
       /\ reader'.before = IF page = {} THEN reader.before ELSE m
       /\ reader'.cuts = IF page = {} THEN reader.cuts ELSE reader.cuts \cup {m}
  <2> DEFINE full == Cardinality(page) = reader.limit
  <2>1. full \in BOOLEAN
    OBVIOUS
  <2>2. reader' = [reader EXCEPT !.twice = reader.twice \cup again, !.shown = reader.shown \cup ids,
                       !.before = IF page = {} THEN reader.before ELSE m,
                       !.cuts = IF page = {} THEN reader.cuts ELSE reader.cuts \cup {m},
                       !.more = full]
    BY <1>11
  <2> HIDE DEF full
  <2>3. /\ reader' \in Readers
        /\ reader'.table = t /\ reader'.unresolved = reader.unresolved
        /\ reader'.present = reader.present
        /\ reader'.shown = reader.shown \cup ids /\ reader'.twice = reader.twice
        /\ reader'.more = full
        /\ reader'.before = IF page = {} THEN reader.before ELSE m
        /\ reader'.cuts = IF page = {} THEN reader.cuts ELSE reader.cuts \cup {m}
    BY <1>8, <1>10, <1>12, <2>1, <2>2 DEF Readers
  <2> QED
    BY <2>3 DEF full
<1>14. TypeOK'
  BY <1>2, <1>13 DEF TypeOK
<1>15. \A x : \A id : id \in Fresh(x)' <=> id \in Fresh(x)
  BY <1>2 DEF Fresh
<1>16. IdInv'
  <2>1. /\ \A x \in Tables : \A r \in stored[x] : r.id \notin Fresh(x)'
        /\ \A p \in audits : p[1] \notin Fresh("failures")'
    BY <1>15 DEF IdInv
  <2> QED
    BY <1>2, <2>1 DEF IdInv
<1>17. LockInv' /\ FailuresTruthful'
  BY <1>2 DEF LockInv, FailuresTruthful, Audited
<1>18. ReaderInv'
  <2>1. \A id \in ids : id \notin Fresh(t)
    BY <1>3, <1>4, <1>6 DEF IdInv, ids
  <2>2. \A id \in reader'.shown \cup reader'.present : id \notin Fresh(t)'
    BY <1>3, <1>13, <1>15, <2>1 DEF ReaderInv
  <2>3. ASSUME NEW row \in stored[t], row.id \in reader'.shown
        PROVE  reader'.before # NoTime /\ row.at >= reader'.before
    <3>1. NoTime \notin Nat /\ row.at \in Nat
      BY <1>7, OperationsAssumption
    <3>2. CASE row.id \in reader.shown
      <4>1. reader.before # NoTime /\ row.at >= reader.before /\ reader.before \in Nat
        BY <1>3, <3>2 DEF ReaderInv, TypeOK, Readers
      <4>2. CASE page = {}
        BY <1>13, <4>1, <4>2
      <4>3. CASE page # {}
        <5>1. PICK r \in page : r.at = m
          BY <1>9, <4>3 DEF ats
        <5>2. m < reader.before /\ m \in Nat
          BY <1>4, <1>6, <1>12, <4>1, <4>3, <5>1
        <5>3. row.at >= m
          BY <3>1, <4>1, <5>2
        <5> QED
          BY <1>13, <3>1, <4>3, <5>2, <5>3
      <4> QED
        BY <4>2, <4>3
    <3>3. CASE row.id \in ids
      <4>1. PICK r \in page : r.id = row.id
        BY <3>3 DEF ids
      <4>2. r \in stored[t]
        BY <1>4, <1>6
      <4>3. r = row
        BY <1>3, <4>1, <4>2 DEF IdInv
      <4>4. row.at \in ats /\ page # {}
        BY <4>3 DEF ats
      <4>5. m <= row.at /\ m \in Nat
        BY <1>9, <1>12, <4>4
      <4> QED
        BY <1>13, <3>1, <4>4, <4>5
    <3> QED
      BY <1>13, <2>3, <3>2, <3>3
  <2> QED
    BY <1>2, <1>3, <1>13, <2>2, <2>3 DEF ReaderInv
<1>19. ASSUME NEW row \in stored[t], row.id \in reader.present,
              reader.unresolved => ~row.resolved,
              reader'.more => reader'.before # NoTime /\ row.at >= reader'.before
       PROVE  row.id \in reader'.shown \/ row.at \in reader'.cuts
  <2>1. row.id \in reader.shown \/ row.at \in reader.cuts \/ row \in rows
    <3>1. CASE reader.before = NoTime \/ row.at < reader.before
      BY <1>4, <1>19, <3>1
    <3>2. CASE ~(reader.before = NoTime \/ row.at < reader.before)
      <4>1. reader.before \in Nat /\ row.at \in Nat /\ reader.before # NoTime
        BY <1>7, <3>2 DEF TypeOK, Readers
      <4>2. row.at >= reader.before
        BY <3>2, <4>1
      <4>3. Covered(row)
        BY <1>3 DEF PagesInv
      <4> QED
        BY <1>19, <4>1, <4>2, <4>3 DEF Covered
    <3> QED
      BY <3>1, <3>2
  <2>2. CASE row.id \in reader.shown \/ row.at \in reader.cuts
    BY <1>13, <2>2
  <2>3. CASE row \in page
    BY <1>13, <2>3 DEF ids
  <2>4. CASE row \in rows /\ row \notin page
    <3>1. reader'.more /\ page # {}
      BY <1>6, <1>13, <2>4
    <3>2. reader'.before = m /\ row.at >= m /\ m \in Nat /\ row.at \in Nat
      BY <1>7, <1>12, <1>13, <1>19, <3>1
    <3>3. PICK r \in page : r.at = m
      BY <1>9, <3>1 DEF ats
    <3>4. m >= row.at
      BY <1>6, <2>4, <3>3
    <3>5. row.at = m
      BY <3>2, <3>4
    <3> QED
      BY <1>13, <3>1, <3>5
  <2> QED
    BY <2>1, <2>2, <2>3, <2>4
<1>20. PagesInv'
  <2>1. \A row \in stored[t] : Covered(row)'
    BY <1>13, <1>19 DEF Covered
  <2> QED
    BY <1>2, <1>13, <2>1 DEF PagesInv
<1> QED
  BY <1>14, <1>16, <1>17, <1>18, <1>20

-----------------------------------------------------------------------------
(* Theorems *)

\* The invariant is inductive.
THEOREM Invariance == OperationsSpec => []IInv
<1>1. OperationsInit => IInv
  <2> SUFFICES ASSUME OperationsInit PROVE IInv
    OBVIOUS
  <2>1. /\ clock = 0 /\ stored = [t \in Tables |-> {}] /\ writes = {} /\ nextId = 1
        /\ request = [u \in Users |-> [step |-> "idle", failure |-> 0, began |-> 0]]
        /\ audits = {}
        /\ reader = [table |-> "none", limit |-> 1, unresolved |-> FALSE,
                     before |-> NoTime, more |-> FALSE, present |-> {},
                     shown |-> {}, twice |-> {}, cuts |-> {}]
    BY DEF OperationsInit
  <2>2. /\ \A t \in Tables : stored[t] = {}
        /\ \A t \in Recorded : stored[t] = {}
        /\ stored["audit"] = {} /\ stored["failures"] = {}
        /\ stored \in [Tables -> SUBSET Rows(Ids)]
    BY <2>1 DEF Tables, Recorded
  <2>3. request \in [Users -> Requests] /\ \A u \in Users : request[u].step = "idle"
    BY <2>1 DEF Requests, Steps
  <2>4. reader \in Readers
    BY <2>1 DEF Readers
  <2>5. TypeOK
    BY <2>1, <2>2, <2>3, <2>4, FS_EmptySet DEF TypeOK
  <2>6. IdInv
    BY <2>1, <2>2 DEF IdInv
  <2>7. LockInv /\ FailuresTruthful
    BY <2>1, <2>2, <2>3 DEF LockInv, FailuresTruthful
  <2>8. ReaderInv /\ PagesInv
    BY <2>1 DEF ReaderInv, PagesInv
  <2> QED
    BY <2>5, <2>6, <2>7, <2>8 DEF IInv
<1>2. IInv /\ [OperationsNext]_opVars => IInv'
  <2> SUFFICES ASSUME IInv, [OperationsNext]_opVars PROVE IInv'
    OBVIOUS
  <2>1. CASE Tick \/ BeginRecord \/ CommitRecord \/ RollbackRecord
    BY <2>1, TickStep, BeginRecordStep, CommitRecordStep, RollbackRecordStep
  <2>2. ASSUME NEW u \in Users,
               \/ BeginResolve(u) \/ UpdateFailure(u) \/ InsertAudit(u)
               \/ CommitResolve(u) \/ LookUp(u) \/ RollbackResolve(u)
        PROVE  IInv'
    BY <2>2, BeginResolveStep, UpdateFailureStep, CommitResolveStep, ShortStep
  <2>3. CASE DeleteExpired \/ OpenList \/ ReadPage
    BY <2>3, DeleteExpiredStep, OpenListStep, ReadPageStep
  <2>4. CASE UNCHANGED opVars
    <3>1. UNCHANGED <<clock, stored, writes, nextId, request, audits, reader>>
      BY <2>4 DEF opVars
    <3>2. TypeOK' /\ IdInv'
      BY <3>1 DEF IInv, TypeOK, IdInv, Fresh
    <3>4. LockInv' /\ FailuresTruthful'
      BY <3>1 DEF IInv, LockInv, FailuresTruthful, Audited
    <3>3. ReaderInv' /\ PagesInv'
      BY <3>1 DEF IInv, ReaderInv, PagesInv, Covered, Fresh
    <3> QED
      BY <3>2, <3>3, <3>4 DEF IInv
  <2> QED
    BY <2>1, <2>2, <2>3, <2>4 DEF OperationsNext
<1> QED
  BY <1>1, <1>2, PTL DEF OperationsSpec

\* Every variable keeps its type, and the tables stay finite.
THEOREM TypesHold == OperationsSpec => []TypeOK
<1>1. IInv => TypeOK
  BY DEF IInv
<1> QED
  BY <1>1, Invariance, PTL

\* One user at most resolves a failure and is named by the audit, the others
\* are told the truth, and no open failure is removed.
THEOREM FailuresTruthfulHolds == OperationsSpec => []FailuresTruthful
<1>1. IInv => FailuresTruthful
  BY DEF IInv
<1> QED
  BY <1>1, Invariance, PTL

\* Paging back shows no row twice and passes over rows that share the time of
\* a page's last row only.
THEOREM PagesCompleteHolds == OperationsSpec => []PagesComplete
<1>1. IInv => PagesComplete
  BY PagesAgree DEF IInv
<1> QED
  BY <1>1, Invariance, PTL

=============================================================================
