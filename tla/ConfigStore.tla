----------------------------- MODULE ConfigStore -----------------------------
(***************************************************************************)
(* The stored config of one project: daemons that create it from their     *)
(* bootstrap file (load_config() of main.rs), management clients that read *)
(* it and write new versions (handler.rs), and the transactions of         *)
(* PostgresStorage, which write the row, its revision and its audit event. *)
(*                                                                         *)
(* A config is reduced to its version and to one secret (a broker password *)
(* or a webhook header).  Secrets are redacted in what a client reads; a   *)
(* client that sends the redacted text back keeps the stored secret.       *)
(***************************************************************************)
EXTENDS Naturals, Sequences, FiniteSets

CONSTANTS
  Daemons,      \* daemons that start on this database
  Clients,      \* management clients
  Secrets,      \* secret values
  Redacted,     \* REDACTED_SECRET
  None,         \* no secret, no row, no version known
  FileVersion,  \* version in the bootstrap file
  MaxVersion    \* bound: i64::MAX, the highest version a BIGINT column holds

ASSUME StoreAssumption ==
  /\ None \notin Secrets \cup Clients \cup Nat
  /\ Redacted \notin Secrets \cup {None}
  /\ MaxVersion \in Nat \ {0}
  /\ FileVersion \in 0..MaxVersion
  /\ None \notin [version : 1..MaxVersion, secret : Secrets \cup {None}]

VARIABLES
  current,    \* the row of project_configs: its version, secret; or None
  revisions,  \* the rows of project_config_revisions, oldest first
  audited,    \* versions with an event project_config.create or .update
  locker,     \* the client whose transaction holds the lock on the row
  boot,       \* where load_config() of each daemon stands
  pc,         \* where the PUT of each client stands
  seen,       \* the version each client has read or written last
  sent,       \* the secret in the body of its PUT
  merged      \* next_config of its PUT: the secret after the merge

vars == <<current, revisions, audited, locker, boot, pc, seen, sent, merged>>
tables == <<current, revisions, audited>>

Versions == 1..MaxVersion
Stored == Secrets \cup {None}

\* A revision with two notes on its origin: the version its author has edited
\* and whether the author sent the secret redacted.
Revision(v, b, k, s) == [version |-> v, base |-> b, kept |-> k, secret |-> s]

Init ==
  /\ current = None
  /\ revisions = <<>>
  /\ audited = {}
  /\ locker = None
  /\ boot = [d \in Daemons |-> "load"]
  /\ pc = [c \in Clients |-> "idle"]
  /\ seen = [c \in Clients |-> None]
  /\ sent = [c \in Clients |-> None]
  /\ merged = [c \in Clients |-> None]

-----------------------------------------------------------------------------
(* load_config()                                                           *)

\* load_project_config() finds the config, finds none, or fails.
DaemonLoad(d) ==
  /\ boot[d] = "load"
  /\ \E next \in {IF current = None THEN "create" ELSE "started", "failed"} :
       boot' = [boot EXCEPT ![d] = next]
  /\ UNCHANGED <<tables, locker, pc, seen, sent, merged>>

\* The transaction of create_project_config(): INSERT ... ON CONFLICT DO
\* NOTHING, revision, audit event.  Version 0 of the file becomes 1.
CreateRow(s) ==
  LET v == IF FileVersion = 0 THEN 1 ELSE FileVersion
  IN  /\ current = None
      /\ current' = [version |-> v, secret |-> s]
      /\ revisions' = Append(revisions, Revision(v, None, FALSE, s))
      /\ audited' = audited \cup {v}

\* An error may hide a commit that was made.
DaemonCreate(d) ==
  /\ boot[d] = "create"
  /\ \/ /\ \E s \in Stored : CreateRow(s)
        /\ \E next \in {"started", "failed"} : boot' = [boot EXCEPT ![d] = next]
     \/ boot' = [boot EXCEPT ![d] = "failed"] /\ UNCHANGED tables
  /\ UNCHANGED <<locker, pc, seen, sent, merged>>

-----------------------------------------------------------------------------
(* GET and PUT of the config.                                              *)

GetConfig(c) ==
  /\ pc[c] = "idle"
  /\ current # None
  /\ seen' = [seen EXCEPT ![c] = current.version]
  /\ UNCHANGED <<tables, locker, boot, pc, sent, merged>>

\* The client edits the version it has seen last, sends that version as
\* expected_version, and keeps, replaces, adds or removes the secret.
PutConfig(c) ==
  /\ pc[c] = "idle"
  /\ seen[c] # None
  /\ \E s \in Stored \cup {Redacted} : sent' = [sent EXCEPT ![c] = s]
  /\ pc' = [pc EXCEPT ![c] = "load"]
  /\ UNCHANGED <<tables, locker, boot, seen, merged>>

\* Mutant: the secret is merged from a config that was cached.
PutLoadCached(c) ==
  /\ pc[c] = "load"
  /\ IF sent[c] = Redacted
     THEN \E i \in DOMAIN revisions :
            merged' = [merged EXCEPT ![c] = revisions[i].secret]
     ELSE merged' = [merged EXCEPT ![c] = sent[c]]
  /\ pc' = [pc EXCEPT ![c] = "write"]
  /\ UNCHANGED <<tables, locker, boot, seen, sent>>

\* put_project_config_inner(): the existing config is loaded and its secret
\* merged into the new one; there may be none to keep.
PutLoad(c) ==
  /\ pc[c] = "load"
  /\ IF sent[c] = Redacted
     THEN /\ current.secret # None
          /\ merged' = [merged EXCEPT ![c] = current.secret]
     ELSE merged' = [merged EXCEPT ![c] = sent[c]]
  /\ pc' = [pc EXCEPT ![c] = "write"]
  /\ UNCHANGED <<tables, locker, boot, seen, sent>>

\* The handler of the PUT returns, or is dropped.
Finish(c) ==
  /\ pc' = [pc EXCEPT ![c] = "idle"]
  /\ sent' = [sent EXCEPT ![c] = None]
  /\ merged' = [merged EXCEPT ![c] = None]

\* Mutant: version_to_i64() does not refuse a version that is too high.
PutUpdateOverflow(c) ==
  /\ pc[c] = "write"
  /\ locker = None
  /\ current.version = seen[c]
  /\ locker' = c
  /\ pc' = [pc EXCEPT ![c] = "commit"]
  /\ UNCHANGED <<tables, boot, seen, sent, merged>>

\* The UPDATE of update_project_config() waits for the lock on the row and
\* matches it if it still has the expected version.
PutUpdate(c) ==
  /\ pc[c] = "write"
  /\ locker = None
  /\ seen[c] + 1 <= MaxVersion
  /\ current.version = seen[c]
  /\ locker' = c
  /\ pc' = [pc EXCEPT ![c] = "commit"]
  /\ UNCHANGED <<tables, boot, seen, sent, merged>>

\* The PUT ends before its transaction has locked the row: an error, an
\* invalid config, no secret to keep, VersionOverflow, VersionConflict, or
\* the client goes away.
PutRefused(c) ==
  /\ pc[c] \in {"load", "write"}
  /\ Finish(c)
  /\ UNCHANGED <<tables, locker, boot, seen>>

\* Revision and audit event are inserted and the transaction commits; the
\* answer may not reach the client.
PutCommit(c) ==
  /\ pc[c] = "commit"
  /\ LET v == seen[c] + 1
     IN  /\ \A i \in DOMAIN revisions : revisions[i].version # v
         /\ current' = [version |-> v, secret |-> merged[c]]
         /\ revisions' = Append(revisions,
              Revision(v, seen[c], sent[c] = Redacted, merged[c]))
         /\ audited' = audited \cup {v}
         /\ seen' = [seen EXCEPT ![c] = v] \/ UNCHANGED seen
  /\ locker' = None
  /\ Finish(c)
  /\ UNCHANGED boot

\* Mutant: the audit event is not part of the transaction.
PutRollbackPartly(c) ==
  /\ pc[c] = "commit"
  /\ locker' = None
  /\ Finish(c)
  /\ audited' = audited \cup {seen[c] + 1}
  /\ UNCHANGED <<current, revisions, boot, seen>>

\* One of the inserts or the commit fails, or the handler is dropped with its
\* transaction: nothing is written and the lock is released.
PutRollback(c) ==
  /\ pc[c] = "commit"
  /\ locker' = None
  /\ Finish(c)
  /\ UNCHANGED <<tables, boot, seen>>

Next ==
  \/ \E d \in Daemons : DaemonLoad(d) \/ DaemonCreate(d)
  \/ \E c \in Clients :
       \/ GetConfig(c) \/ PutConfig(c) \/ PutLoad(c) \/ PutUpdate(c)
       \/ PutRefused(c) \/ PutCommit(c) \/ PutRollback(c)

Spec == Init /\ [][Next]_vars

-----------------------------------------------------------------------------
TypeOK ==
  /\ current \in [version : Versions, secret : Stored] \cup {None}
  /\ revisions \in Seq([version : Versions, base : Versions \cup {None},
                        kept : BOOLEAN, secret : Stored])
  /\ audited \subseteq Versions
  /\ locker \in Clients \cup {None}
  /\ boot \in [Daemons -> {"load", "create", "started", "failed"}]
  /\ pc \in [Clients -> {"idle", "load", "write", "commit"}]
  /\ seen \in [Clients -> Versions \cup {None}]
  /\ sent \in [Clients -> Stored \cup {Redacted}]
  /\ merged \in [Clients -> Stored]

\* The three tables agree whatever fails: the row is the newest revision, and
\* exactly the versions with a revision have an audit event.
TablesAgree ==
  /\ current = None <=> revisions = <<>>
  /\ current # None =>
       LET last == revisions[Len(revisions)]
       IN  current = [version |-> last.version, secret |-> last.secret]
  /\ audited = {revisions[i].version : i \in DOMAIN revisions}

Register == INSTANCE ConfigRegister WITH log <- revisions

\* The revisions are the log of a ConfigRegister: clients that work on the
\* same version at the same time cannot overwrite each other's edits, and a
\* PUT that keeps a secret never brings back one that somebody has replaced,
\* although the secret is read outside the transaction that stores it.
IsRegister == Register!Spec
==============================================================================
