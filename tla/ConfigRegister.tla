--------------------------- MODULE ConfigRegister ---------------------------
(***************************************************************************)
(* What the stored project config promises its clients: a log of versions  *)
(* in which every entry was made from the one before it.  A client that    *)
(* leaves a secret redacted keeps the secret of the version it has edited. *)
(***************************************************************************)
EXTENDS Naturals, Sequences

CONSTANTS
  Secrets,     \* secret values of a config
  None,        \* no secret; no version to start from
  MaxVersion   \* highest version a BIGINT column holds

VARIABLE log

\* version: of the entry; base: the version its author has edited; kept:
\* whether the author left the secret redacted; secret: the one stored.
Entries == [version : 1..MaxVersion, base : (1..MaxVersion) \cup {None},
            kept : BOOLEAN, secret : Secrets \cup {None}]

Init == log = <<>>

\* The first entry comes from a file.
Create(e) == log = <<>> /\ e.base = None /\ ~e.kept

Update(e) ==
  /\ log # <<>>
  /\ LET last == log[Len(log)]
     IN  /\ e.base = last.version
         /\ e.version = last.version + 1
         /\ e.kept => e.secret = last.secret

Next == \E e \in Entries : (Create(e) \/ Update(e)) /\ log' = Append(log, e)

Spec == Init /\ [][Next]_log
=============================================================================
