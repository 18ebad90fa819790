-------------------------- MODULE ConfigStoreProofs --------------------------
(***************************************************************************)
(* The stored config implements ConfigRegister, for any number of daemons  *)
(* and clients and any limit of the versions.                              *)
(*                                                                         *)
(* A PUT reads the secret to keep before its transaction begins.  MergeInv *)
(* says why that is safe: as long as the row still has the version the     *)
(* client expects, the secret that was read is the stored one, and when it *)
(* has not, SeenInv keeps the row from ever getting that version back.     *)
(***************************************************************************)
EXTENDS ConfigStore, TLAPS

Row == [version : Versions, secret : Stored]
Revisions == [version : Versions, base : Versions \cup {None},
              kept : BOOLEAN, secret : Stored]

\* The transaction that holds the row lock has found the expected version.
LockInv ==
  \A c \in Clients :
    /\ pc[c] = "commit" <=> locker = c
    /\ pc[c] = "commit" =>
         current.version = seen[c] /\ seen[c] + 1 <= MaxVersion

\* No client knows a version that is not stored yet.
SeenInv ==
  \A c \in Clients :
    /\ seen[c] # None => current # None /\ seen[c] <= current.version
    /\ pc[c] # "idle" => seen[c] # None

MergeInv ==
  \A c \in Clients :
    /\ pc[c] \in {"write", "commit"} /\ sent[c] = Redacted
         /\ seen[c] = current.version => merged[c] = current.secret

\* Revisions are never newer than the row.
OldInv ==
  \A i \in DOMAIN revisions : revisions[i].version <= current.version

IInv == TypeOK /\ TablesAgree /\ LockInv /\ SeenInv /\ MergeInv /\ OldInv

-----------------------------------------------------------------------------
\* What appending a revision does to the table.
LEMMA AppendRevision ==
  ASSUME NEW e \in Revisions, revisions \in Seq(Revisions),
         revisions' = Append(revisions, e)
  PROVE  /\ revisions' \in Seq(Revisions) /\ revisions' # <<>>
         /\ Len(revisions') \in DOMAIN revisions' /\ revisions'[Len(revisions')] = e
         /\ \A i \in DOMAIN revisions' :
              \/ revisions'[i] = e
              \/ i \in DOMAIN revisions /\ revisions'[i] = revisions[i]
         /\ {revisions'[i].version : i \in DOMAIN revisions'} =
              {revisions[i].version : i \in DOMAIN revisions} \cup {e.version}
<1>1. /\ revisions' \in Seq(Revisions) /\ Len(revisions) \in Nat
      /\ Len(revisions') = Len(revisions) + 1
      /\ DOMAIN revisions = 1..Len(revisions)
      /\ DOMAIN revisions' = 1..Len(revisions) + 1
      /\ \A i \in 1..Len(revisions) : revisions'[i] = revisions[i]
      /\ revisions'[Len(revisions) + 1] = e
  OBVIOUS
<1>2. revisions' # <<>>
  BY <1>1
<1>3. \A i \in DOMAIN revisions' :
        \/ revisions'[i] = e
        \/ i \in DOMAIN revisions /\ revisions'[i] = revisions[i]
  BY <1>1
<1> DEFINE old == {revisions[i].version : i \in DOMAIN revisions}
           new == {revisions'[i].version : i \in DOMAIN revisions'}
<1>4. new \subseteq old \cup {e.version}
  BY <1>3
<1>5. old \subseteq new
  BY <1>1
<1>6. e.version \in new
  BY <1>1
<1> QED
  BY <1>1, <1>2, <1>3, <1>4, <1>5, <1>6

\* The invariant holds before the project has a config.
LEMMA InitIInv == Init => IInv
BY StoreAssumption
DEF Init, IInv, TypeOK, TablesAgree, LockInv, SeenInv, MergeInv, OldInv,
    Stored, Versions

\* Steps that write no table and take no lock.
LEMMA DaemonLoadKeeps ==
  ASSUME IInv, NEW d \in Daemons, DaemonLoad(d)
  PROVE  IInv'
BY DEF DaemonLoad, tables, IInv, TypeOK, TablesAgree, LockInv, SeenInv,
       MergeInv, OldInv

\* DaemonCreate preserves the invariant.
LEMMA DaemonCreateKeeps ==
  ASSUME IInv, NEW d \in Daemons, DaemonCreate(d)
  PROVE  IInv'
<1> USE StoreAssumption DEF IInv, DaemonCreate
<1>1. CASE \E s \in Stored : CreateRow(s)
  <2>1. PICK s \in Stored : CreateRow(s)
    BY <1>1
  <2> DEFINE v == IF FileVersion = 0 THEN 1 ELSE FileVersion
             e == Revision(v, None, FALSE, s)
  <2>2. /\ current = None /\ current' = [version |-> v, secret |-> s]
        /\ revisions' = Append(revisions, e) /\ audited' = audited \cup {v}
        /\ revisions = <<>> /\ audited = {}
    BY <2>1 DEF CreateRow, TablesAgree
  <2>3. v \in Versions
    BY DEF Versions
  <2>4. e \in Revisions /\ e.version = v /\ e.secret = s
    BY <2>3 DEF Revisions, Revision
  <2> HIDE DEF v, e
  <2>5. revisions \in Seq(Revisions)
    BY DEF TypeOK, Revisions
  <2>6. /\ revisions' \in Seq(Revisions) /\ revisions' # <<>>
        /\ revisions'[Len(revisions')] = e
        /\ \A i \in DOMAIN revisions' : revisions'[i] = e
        /\ {revisions'[i].version : i \in DOMAIN revisions'} = {v}
    BY <2>2, <2>4, <2>5, AppendRevision
  <2>7. TypeOK'
    <3>1. current' \in [version : Versions, secret : Stored] \cup {None}
      BY <2>2, <2>3
    <3>2. (boot \in [Daemons -> {"load", "create", "started", "failed"}])'
      BY DEF TypeOK
    <3>3. (audited \subseteq Versions)'
      BY <2>2, <2>3
    <3> QED
      BY <2>6, <3>1, <3>2, <3>3 DEF TypeOK, Revisions
  <2>8. \A c \in Clients : seen[c] = None /\ pc[c] = "idle"
    BY <2>2 DEF SeenInv
  <2>9. current' # None
    BY <2>2, <2>3, StoreAssumption DEF Row, Versions, Stored
  <2>10. TablesAgree'
    BY <2>2, <2>4, <2>6, <2>9 DEF TablesAgree
  <2>11. (LockInv /\ SeenInv /\ MergeInv)'
    BY <2>8 DEF LockInv, SeenInv, MergeInv
  <2>12. OldInv'
    BY <2>2, <2>3, <2>4, <2>6 DEF OldInv, Versions
  <2> QED
    BY <2>7, <2>10, <2>11, <2>12
<1>2. CASE boot' = [boot EXCEPT ![d] = "failed"] /\ UNCHANGED tables
  BY <1>2 DEF tables, TypeOK, TablesAgree, LockInv, SeenInv, MergeInv, OldInv
<1> QED
  BY <1>1, <1>2

\* GetConfig preserves the invariant.
LEMMA GetConfigKeeps ==
  ASSUME IInv, NEW c \in Clients, GetConfig(c)
  PROVE  IInv'
<1> USE StoreAssumption DEF IInv, GetConfig, tables
<1>1. current.version \in Versions /\ current.version <= current.version
  BY DEF TypeOK, Versions
<1>2. TypeOK'
  BY <1>1 DEF TypeOK
<1>3. SeenInv'
  BY <1>1 DEF TypeOK, SeenInv
<1>4. (LockInv /\ MergeInv)'
  BY DEF TypeOK, LockInv, MergeInv
<1> QED
  BY <1>2, <1>3, <1>4 DEF TablesAgree, OldInv

\* PutConfig preserves the invariant.
LEMMA PutConfigKeeps ==
  ASSUME IInv, NEW c \in Clients, PutConfig(c)
  PROVE  IInv'
<1> USE DEF IInv, PutConfig, tables
<1>1. TypeOK'
  BY DEF TypeOK
<1>2. (LockInv /\ SeenInv /\ MergeInv)'
  BY DEF TypeOK, LockInv, SeenInv, MergeInv
<1> QED
  BY <1>1, <1>2 DEF TablesAgree, OldInv

\* PutLoad preserves the invariant: what it merges is what is stored.
LEMMA PutLoadKeeps ==
  ASSUME IInv, NEW c \in Clients, PutLoad(c)
  PROVE  IInv'
<1> USE StoreAssumption DEF IInv, PutLoad, tables
<1>1. current # None
  BY DEF SeenInv
<1>2. /\ sent[c] = Redacted => merged' = [merged EXCEPT ![c] = current.secret]
      /\ sent[c] # Redacted => merged' = [merged EXCEPT ![c] = sent[c]]
  OBVIOUS
<1>3. TypeOK'
  <2>1. (merged \in [Clients -> Stored])'
    BY <1>1, <1>2 DEF TypeOK
  <2>2. (pc \in [Clients -> {"idle", "load", "write", "commit"}])'
    BY DEF TypeOK
  <2> QED
    BY <2>1, <2>2 DEF TypeOK
<1>4. (LockInv /\ SeenInv)'
  BY DEF TypeOK, LockInv, SeenInv
<1>5. MergeInv'
  BY <1>2 DEF TypeOK, MergeInv
<1> QED
  BY <1>3, <1>4, <1>5 DEF TablesAgree, OldInv

\* PutUpdate preserves the invariant.
LEMMA PutUpdateKeeps ==
  ASSUME IInv, NEW c \in Clients, PutUpdate(c)
  PROVE  IInv'
<1> USE StoreAssumption DEF IInv, PutUpdate, tables
<1>1. TypeOK'
  BY DEF TypeOK
<1>2. LockInv'
  BY DEF TypeOK, LockInv
<1>3. (SeenInv /\ MergeInv)'
  BY DEF TypeOK, SeenInv, MergeInv
<1> QED
  BY <1>1, <1>2, <1>3 DEF TablesAgree, OldInv

\* PutRefused preserves the invariant.
LEMMA PutRefusedKeeps ==
  ASSUME IInv, NEW c \in Clients, PutRefused(c)
  PROVE  IInv'
<1> USE DEF IInv, PutRefused, Finish, tables
<1>1. TypeOK'
  BY DEF TypeOK, Stored
<1>2. (LockInv /\ SeenInv /\ MergeInv)'
  BY DEF TypeOK, LockInv, SeenInv, MergeInv
<1> QED
  BY <1>1, <1>2 DEF TablesAgree, OldInv

\* PutRollback preserves the invariant.
LEMMA PutRollbackKeeps ==
  ASSUME IInv, NEW c \in Clients, PutRollback(c)
  PROVE  IInv'
<1> USE StoreAssumption DEF IInv, PutRollback, Finish, tables
<1>1. TypeOK'
  BY DEF TypeOK, Stored
<1>2. (LockInv /\ SeenInv /\ MergeInv)'
  BY DEF TypeOK, LockInv, SeenInv, MergeInv
<1> QED
  BY <1>1, <1>2 DEF TablesAgree, OldInv

\* What the transaction of a PUT appends: the successor of the row, with the
\* secret of the row if it was to be kept.
LEMMA CommitAppends ==
  ASSUME IInv, NEW c \in Clients, PutCommit(c)
  PROVE  \E e \in Revisions :
           /\ revisions' = Append(revisions, e)
           /\ current' = [version |-> e.version, secret |-> e.secret]
           /\ audited' = audited \cup {e.version}
           /\ current # None /\ current.version \in Nat
           /\ e.base = current.version /\ e.version = current.version + 1
           /\ e.kept => e.secret = current.secret
           /\ seen[c] = current.version
           /\ seen' = [seen EXCEPT ![c] = e.version] \/ seen' = seen
<1> USE StoreAssumption DEF IInv
<1>1. /\ current # None /\ current \in Row /\ seen[c] = current.version
      /\ seen[c] \in Versions /\ seen[c] + 1 \in Versions
    BY DEF PutCommit, LockInv, SeenInv, TypeOK, Row, Versions
<1>2. merged[c] \in Stored /\ (sent[c] = Redacted => merged[c] = current.secret)
    BY <1>1 DEF PutCommit, MergeInv, TypeOK
<1> DEFINE e == Revision(seen[c] + 1, seen[c], sent[c] = Redacted, merged[c])
<1>3. /\ e \in Revisions /\ e.version = seen[c] + 1 /\ e.base = seen[c]
      /\ e.kept = (sent[c] = Redacted) /\ e.secret = merged[c]
    BY <1>1, <1>2 DEF Revision, Revisions
<1>4. /\ revisions' = Append(revisions, e)
      /\ current' = [version |-> seen[c] + 1, secret |-> merged[c]]
      /\ audited' = audited \cup {seen[c] + 1}
      /\ seen' = [seen EXCEPT ![c] = seen[c] + 1] \/ seen' = seen
    BY DEF PutCommit
<1>5. current.version \in Nat
    BY <1>1 DEF Row, Versions
<1> HIDE DEF e
<1> QED
    BY <1>1, <1>2, <1>3, <1>4, <1>5

\* PutCommit preserves the invariant.
LEMMA PutCommitKeeps ==
  ASSUME IInv, NEW c \in Clients, PutCommit(c)
  PROVE  IInv'
<1> USE StoreAssumption DEF IInv
<1>1. PICK e \in Revisions :
           /\ revisions' = Append(revisions, e)
           /\ current' = [version |-> e.version, secret |-> e.secret]
           /\ audited' = audited \cup {e.version}
           /\ current # None /\ current.version \in Nat
           /\ e.base = current.version /\ e.version = current.version + 1
           /\ e.kept => e.secret = current.secret
           /\ seen[c] = current.version
           /\ seen' = [seen EXCEPT ![c] = e.version] \/ seen' = seen
  BY CommitAppends
<1>2. /\ locker' = None /\ pc' = [pc EXCEPT ![c] = "idle"]
      /\ sent' = [sent EXCEPT ![c] = None]
      /\ merged' = [merged EXCEPT ![c] = None]
      /\ boot' = boot /\ pc[c] = "commit"
  BY DEF PutCommit, Finish
<1>3. /\ e.version \in Versions /\ e.secret \in Stored
      /\ revisions \in Seq(Revisions)
  BY DEF Revisions, TypeOK
<1>4. /\ revisions' \in Seq(Revisions) /\ revisions' # <<>>
      /\ revisions'[Len(revisions')] = e
      /\ \A i \in DOMAIN revisions' :
           \/ revisions'[i] = e
           \/ i \in DOMAIN revisions /\ revisions'[i] = revisions[i]
      /\ {revisions'[i].version : i \in DOMAIN revisions'} =
           {revisions[i].version : i \in DOMAIN revisions} \cup {e.version}
  BY <1>1, <1>3, AppendRevision
<1>5. current' \in Row /\ current' # None /\ current'.version = e.version
  <2>1. current' \in Row /\ current'.version = e.version
    BY <1>1, <1>3 DEF Row
  <2>2. None \notin Row
    BY StoreAssumption DEF Row, Versions, Stored
  <2> QED
    BY <2>1, <2>2
<1>6. TypeOK'
  <2>1. (current \in [version : Versions, secret : Stored] \cup {None})'
    BY <1>5 DEF Row
  <2>2. (audited \subseteq Versions)'
    BY <1>1, <1>3 DEF TypeOK
  <2>3. (seen \in [Clients -> Versions \cup {None}])'
    BY <1>1, <1>3 DEF TypeOK
  <2>4. (pc \in [Clients -> {"idle", "load", "write", "commit"}])'
    BY <1>2 DEF TypeOK
  <2>5. (sent \in [Clients -> Stored \cup {Redacted}]
           /\ merged \in [Clients -> Stored])'
    BY <1>2 DEF TypeOK, Stored
  <2> QED
    BY <1>2, <1>4, <2>1, <2>2, <2>3, <2>4, <2>5 DEF TypeOK, Revisions
<1>7. TablesAgree'
  BY <1>1, <1>4, <1>5 DEF TablesAgree
<1>8. LockInv'
  BY <1>2 DEF LockInv, TypeOK
<1>9. SeenInv'
  <2> SUFFICES ASSUME NEW x \in Clients
               PROVE  /\ seen'[x] # None =>
                           current' # None /\ seen'[x] <= current'.version
                      /\ pc'[x] # "idle" => seen'[x] # None
    BY DEF SeenInv
  <2>1. seen'[x] = e.version \/ seen'[x] = seen[x]
    BY <1>1 DEF TypeOK
  <2>2. seen'[x] = None => seen[x] = None \/ x = c
    BY <1>1, <1>3 DEF TypeOK, Versions
  <2>3. seen[x] # None => seen[x] \in Nat /\ seen[x] <= current.version
    BY DEF TypeOK, SeenInv, Versions
  <2>4. e.version \in Nat
    BY <1>1
  <2>5. seen'[x] # None => seen'[x] <= current'.version
    BY <1>1, <1>5, <2>1, <2>3, <2>4
  <2>6. pc'[x] # "idle" => x # c /\ pc[x] # "idle"
    BY <1>2 DEF TypeOK
  <2> QED
    BY <1>5, <2>2, <2>5, <2>6 DEF SeenInv
<1>10. MergeInv'
  <2> SUFFICES ASSUME NEW x \in Clients, pc'[x] \in {"write", "commit"}
               PROVE  seen'[x] # current'.version
    BY DEF MergeInv
  <2>1. x # c /\ pc[x] # "idle"
    BY <1>2 DEF TypeOK
  <2>2. seen'[x] = seen[x]
    BY <1>1, <2>1 DEF TypeOK
  <2>3. seen[x] \in Nat /\ seen[x] <= current.version
    BY <2>1 DEF SeenInv, TypeOK, Versions
  <2> QED
    BY <1>1, <1>5, <2>2, <2>3
<1>11. OldInv'
  <2> SUFFICES ASSUME NEW i \in DOMAIN revisions'
               PROVE  revisions'[i].version <= e.version
    BY <1>5 DEF OldInv
  <2>1. CASE revisions'[i] = e
    BY <1>1, <2>1
  <2>2. CASE i \in DOMAIN revisions /\ revisions'[i] = revisions[i]
    <3>1. revisions[i] \in Revisions
      BY <1>3, <2>2
    <3> QED
      BY <1>1, <2>2, <3>1 DEF OldInv, Revisions, Versions
  <2> QED
    BY <1>4, <2>1, <2>2
<1> QED
  BY <1>6, <1>7, <1>8, <1>9, <1>10, <1>11

\* Every step, a stuttering one included, preserves the invariant.
LEMMA NextIInv == IInv /\ [Next]_vars => IInv'
<1> SUFFICES ASSUME IInv, [Next]_vars PROVE IInv'
  OBVIOUS
<1>1. ASSUME NEW d \in Daemons, DaemonLoad(d) \/ DaemonCreate(d) PROVE IInv'
  BY <1>1, DaemonLoadKeeps, DaemonCreateKeeps
<1>2. ASSUME NEW c \in Clients,
             \/ GetConfig(c) \/ PutConfig(c) \/ PutLoad(c) \/ PutUpdate(c)
             \/ PutRefused(c) \/ PutCommit(c) \/ PutRollback(c)
      PROVE  IInv'
  BY <1>2, GetConfigKeeps, PutConfigKeeps, PutLoadKeeps, PutUpdateKeeps,
     PutRefusedKeeps, PutCommitKeeps, PutRollbackKeeps
<1>3. CASE UNCHANGED vars
  BY <1>3 DEF vars, IInv, TypeOK, TablesAgree, LockInv, SeenInv, MergeInv,
              OldInv
<1> QED
  BY <1>1, <1>2, <1>3 DEF Next

\* The inductive invariant holds in every behaviour of the store.
THEOREM Invariance == Spec => []IInv
  BY InitIInv, NextIInv, PTL DEF Spec

\* TypeOK holds for every set of clients; no version exceeds the limit.
THEOREM TypeCorrect == Spec => []TypeOK
<1>1. IInv => TypeOK
  BY DEF IInv
<1> QED
  BY <1>1, Invariance, PTL

\* Row, revisions and audit events always agree.
THEOREM TablesAlwaysAgree == Spec => []TablesAgree
<1>1. IInv => TablesAgree
  BY DEF IInv
<1> QED
  BY <1>1, Invariance, PTL

-----------------------------------------------------------------------------
\* The constants of ConfigRegister are those of ConfigStore.
LEMMA RegisterEntries == Register!Entries = Revisions
BY DEF Register!Entries, Revisions, Versions, Stored

\* A step that writes the tables appends an entry that ConfigRegister allows.
LEMMA StepIsRegisterStep ==
  IInv /\ [Next]_vars => [Register!Next]_revisions
<1> SUFFICES ASSUME IInv, Next, revisions' # revisions
             PROVE  Register!Next
  BY DEF vars
<1> USE StoreAssumption DEF IInv
<1>1. ASSUME NEW d \in Daemons, DaemonCreate(d) PROVE Register!Next
  <2>1. PICK s \in Stored : CreateRow(s)
    BY <1>1 DEF DaemonCreate, tables
  <2> DEFINE v == IF FileVersion = 0 THEN 1 ELSE FileVersion
             e == Revision(v, None, FALSE, s)
  <2>2. revisions = <<>> /\ revisions' = Append(revisions, e)
    BY <2>1 DEF CreateRow, TablesAgree
  <2>3. v \in Versions
    BY DEF Versions
  <2>4. e \in Revisions /\ e.base = None /\ ~e.kept
    BY <2>3 DEF Revisions, Revision
  <2> HIDE DEF e
  <2> QED
    BY <2>2, <2>4, RegisterEntries DEF Register!Next, Register!Create
<1>2. ASSUME NEW c \in Clients, PutCommit(c) PROVE Register!Next
  <2>1. PICK e \in Revisions :
           /\ revisions' = Append(revisions, e)
           /\ current # None
           /\ e.base = current.version /\ e.version = current.version + 1
           /\ e.kept => e.secret = current.secret
    BY <1>2, CommitAppends
  <2>2. /\ revisions # <<>>
        /\ current.version = revisions[Len(revisions)].version
        /\ current.secret = revisions[Len(revisions)].secret
    BY <2>1 DEF TablesAgree
  <2> QED
    BY <2>1, <2>2, RegisterEntries DEF Register!Next, Register!Update
<1> QED
  BY <1>1, <1>2
  DEF Next, DaemonLoad, GetConfig, PutConfig, PutLoad, PutUpdate, PutRefused,
      PutRollback, tables

\* The stored config implements ConfigRegister: no edit is lost, and a kept
\* secret is always the one of the version that was edited.
THEOREM StoreIsRegister == Spec => IsRegister
<1>1. Init => Register!Init
  BY DEF Init, Register!Init
<1>2. Spec => [][Register!Next]_revisions
  BY StepIsRegisterStep, Invariance, PTL DEF Spec
<1> QED
  BY <1>1, <1>2, PTL DEF Spec, IsRegister, Register!Spec
==============================================================================
