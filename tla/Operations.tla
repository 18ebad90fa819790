----------------------------- MODULE Operations -----------------------------
(***************************************************************************)
(* The operational tables (sink_delivery_outcomes, failure_events,         *)
(* audit_events): the transactions that fill them, users who resolve       *)
(* failures, retention, and a reader who pages back through a table.       *)
(*                                                                         *)
(* occurred_at is the column default now(): the time at which the          *)
(* transaction began, so rows may become visible out of order and may have *)
(* equal times.  PostgreSQL runs READ COMMITTED: a statement sees what was *)
(* committed before it, an UPDATE waits for the transaction that has       *)
(* changed the row and looks at it again.                                  *)
(***************************************************************************)
EXTENDS Naturals, FiniteSets, FiniteSetsExt

CONSTANTS
  Users,            \* users who may resolve one failure each
  Limits,           \* values of the query parameter limit
  MaxLimit,         \* MAX_LIST_LIMIT, MAX_OPERATIONAL_LIST_LIMIT
  AuditDays,        \* RetentionConfig, in units of the clock
  OutcomeDays,
  FailureDays,
  MaxWrites,        \* bound: rows recorded and requests to resolve
  MaxTime,          \* bound: the clock
  NoTime            \* NULL

ASSUME OperationsAssumption ==
  /\ Limits \subseteq Nat /\ MaxLimit \in Nat \ {0}
  /\ MaxWrites \in Nat /\ MaxTime \in Nat /\ NoTime \notin Nat
  \* validate_retention()
  /\ {AuditDays, OutcomeDays, FailureDays} \subseteq Nat \ {0}

VARIABLES
  clock,
  stored,     \* the committed rows of each table: id, at, resolved
  writes,     \* transactions that insert: table -> the row, or nothing
  nextId,     \* generated_id()
  request,    \* the request of each user: step, failure, began
  audits,     \* history: failure and user of every audit entry made
  reader      \* the pages read so far

opVars == <<clock, stored, writes, nextId, request, audits, reader>>

Tables == {"outcomes", "failures", "audit"}
Begun == nextId - 1 + Cardinality({u \in Users : request[u].step # "idle"})
Row(id, at) == [id |-> id, at |-> at, resolved |-> FALSE]

-----------------------------------------------------------------------------
(* Recording *)

Tick ==
  /\ clock < MaxTime
  /\ clock' = clock + 1
  /\ UNCHANGED <<stored, writes, nextId, request, audits, reader>>

\* record_sink_delivery_outcome(), with a failure when the delivery failed,
\* and record_failure_event() begin a transaction.
BeginRecord ==
  /\ Begun < MaxWrites
  /\ \E into \in {{"outcomes"}, {"outcomes", "failures"}, {"failures"}} :
       writes' = writes \cup {[into |-> into, row |-> Row(nextId, clock)]}
  /\ nextId' = nextId + 1
  /\ UNCHANGED <<clock, stored, request, audits, reader>>

CommitRecord ==
  \E w \in writes :
    /\ stored' = [t \in Tables |->
                    IF t \in w.into THEN stored[t] \cup {w.row} ELSE stored[t]]
    /\ writes' = writes \ {w}
    /\ UNCHANGED <<clock, nextId, request, audits, reader>>

\* An error, an aborted worker or a crash: the transaction is rolled back.
RollbackRecord ==
  \E w \in writes :
    /\ writes' = writes \ {w}
    /\ UNCHANGED <<clock, stored, nextId, request, audits, reader>>

-----------------------------------------------------------------------------
(* resolve_failure() *)

Goto(u, step) == request' = [request EXCEPT ![u].step = step]

\* A user names a failure that was listed once.
BeginResolve(u) ==
  /\ request[u].step = "idle" /\ Begun < MaxWrites
  /\ \E f \in stored["failures"] :
       request' = [request EXCEPT ![u] =
                     [step |-> "update", failure |-> f.id, began |-> clock]]
  /\ UNCHANGED <<clock, stored, writes, nextId, audits, reader>>

\* The row is held by a transaction that has changed and not yet committed it.
Locked(id) ==
  \E u \in Users : request[u].step \in {"audit", "commit"} /\ request[u].failure = id

\* Mutant: the UPDATE lacks its condition on resolved_at.
ResolvableAny(f) == TRUE

\* The condition of the UPDATE.
Resolvable(f) == ~f.resolved

UpdateFailure(u) ==
  /\ request[u].step = "update" /\ ~Locked(request[u].failure)
  /\ Goto(u, IF \E f \in stored["failures"] : f.id = request[u].failure /\ Resolvable(f)
           THEN "audit" ELSE "lookup")
  /\ UNCHANGED <<clock, stored, writes, nextId, audits, reader>>

\* insert_audit_event_tx(): a reason or a target that is too long is refused.
InsertAudit(u) ==
  /\ request[u].step = "audit"
  /\ Goto(u, "commit") \/ Goto(u, "error")
  /\ UNCHANGED <<clock, stored, writes, nextId, audits, reader>>

\* tx.commit(): the answer may be lost although the commit took effect, and so
\* may the handler that waits for it; the user is then told of an error, or of
\* nothing.
CommitResolve(u) ==
  LET id == request[u].failure
  IN  /\ request[u].step = "commit"
      /\ Goto(u, "ok") \/ Goto(u, "error")
      /\ stored' = [stored EXCEPT
           !["failures"] = {IF f.id = id THEN [f EXCEPT !.resolved = TRUE] ELSE f : f \in @},
           !["audit"] = @ \cup {Row(u, request[u].began)}]
      /\ audits' = audits \cup {<<id, u>>}
      /\ UNCHANGED <<clock, writes, nextId, reader>>

\* No row was updated: a SELECT tells why.
LookUp(u) ==
  /\ request[u].step = "lookup"
  /\ Goto(u, IF \E f \in stored["failures"] : f.id = request[u].failure
           THEN "already_resolved" ELSE "not_found")
  /\ UNCHANGED <<clock, stored, writes, nextId, audits, reader>>

\* The client goes away or the database fails, and the transaction is rolled
\* back; this, too, may be the outcome of a commit that fails.
RollbackResolve(u) ==
  /\ request[u].step \in {"update", "audit", "commit", "lookup"}
  /\ Goto(u, "error")
  /\ UNCHANGED <<clock, stored, writes, nextId, audits, reader>>

-----------------------------------------------------------------------------
(* delete_expired_operational_rows() *)

Days(t) == CASE t = "audit" -> AuditDays
             [] t = "outcomes" -> OutcomeDays
             [] t = "failures" -> FailureDays

\* A failure that a transaction has resolved and not committed counts as open.
Expired(t, row) == row.at + Days(t) < clock /\ (t = "failures" => row.resolved)

DeleteExpired ==
  /\ \E t \in Tables : \E row \in stored[t] : Expired(t, row)
  /\ stored' = [t \in Tables |-> {row \in stored[t] : ~Expired(t, row)}]
  /\ UNCHANGED <<clock, writes, nextId, request, audits, reader>>

-----------------------------------------------------------------------------
(* list_audit_events(), list_failures(), list_delivery_outcomes() *)

\* list_query() and sanitized()
Clamp(limit) == Min({Max({limit, 1}), MaxLimit})

\* Mutant: rows of the cursor's time belong to the next page too.
SelectedInclusive(t, before, unresolvedOnly) ==
  {row \in stored[t] : /\ before # NoTime => row.at <= before
                       /\ unresolvedOnly => ~row.resolved}

\* WHERE
Selected(t, before, unresolvedOnly) ==
  {row \in stored[t] : /\ before # NoTime => row.at < before
                       /\ unresolvedOnly => ~row.resolved}

\* ORDER BY occurred_at DESC LIMIT: rows with the same time come in any order.
Pages(rows, limit) ==
  {page \in SUBSET rows :
     /\ Cardinality(page) = Min({limit, Cardinality(rows)})
     /\ \A r \in page, s \in rows \ page : r.at >= s.at}

\* A first page; unresolved_only is a parameter of list_failures() only.
OpenList ==
  /\ reader.table = "none"
  /\ \E t \in Tables, limit \in Limits, unresolved \in BOOLEAN :
       /\ unresolved => t = "failures"
       /\ reader' = [reader EXCEPT !.table = t, !.limit = Clamp(limit),
                       !.unresolved = unresolved, !.more = TRUE,
                       !.present = {row.id : row \in stored[t]}]
  /\ UNCHANGED <<clock, stored, writes, nextId, request, audits>>

\* One page; next_before is the time of its last row, and the dashboard asks
\* for another one when the page was full.
ReadPage ==
  /\ reader.more
  /\ \E page \in Pages(Selected(reader.table, reader.before, reader.unresolved),
                       reader.limit) :
       reader' = [reader EXCEPT
         !.twice = @ \cup {r.id : r \in {q \in page : q.id \in reader.shown}},
         !.shown = @ \cup {r.id : r \in page},
         !.before = IF page = {} THEN @ ELSE Min({r.at : r \in page}),
         !.cuts = IF page = {} THEN @ ELSE @ \cup {Min({r.at : r \in page})},
         !.more = (Cardinality(page) = reader.limit)]
  /\ UNCHANGED <<clock, stored, writes, nextId, request, audits>>

-----------------------------------------------------------------------------
OperationsInit ==
  /\ clock = 0
  /\ stored = [t \in Tables |-> {}]
  /\ writes = {} /\ nextId = 1
  /\ request = [u \in Users |-> [step |-> "idle", failure |-> 0, began |-> 0]]
  /\ audits = {}
  /\ reader = [table |-> "none", limit |-> 1, unresolved |-> FALSE,
               before |-> NoTime, more |-> FALSE, present |-> {},
               shown |-> {}, twice |-> {}, cuts |-> {}]

OperationsNext ==
  \/ Tick \/ BeginRecord \/ CommitRecord \/ RollbackRecord
  \/ \E u \in Users :
       \/ BeginResolve(u) \/ UpdateFailure(u) \/ InsertAudit(u)
       \/ CommitResolve(u) \/ LookUp(u) \/ RollbackResolve(u)
  \/ DeleteExpired
  \/ OpenList \/ ReadPage

OperationsSpec == OperationsInit /\ [][OperationsNext]_opVars

-----------------------------------------------------------------------------
(* Properties *)

\* Resolving tells the truth whoever races whom: at most one user has resolved
\* a failure, and the audit names this one and the failure asked for.  Who is
\* told "ok" has done it; who is told "already resolved" or "not found" has not,
\* and the failure was resolved by another, for "not found" removed by retention
\* since; who is told of an error may have done it, when the answer to the commit
\* was lost.  An open failure is never removed (postgres.rs, resolve_failure and
\* delete_expired_operational_rows).
FailuresTruthful ==
  /\ \A p, q \in audits : p[1] = q[1] => p = q
  /\ \A p \in audits : /\ p[1] = request[p[2]].failure
                       /\ request[p[2]].step \in {"ok", "error"}
  /\ \A u \in Users :
       /\ request[u].step = "ok" => \E p \in audits : p[2] = u
       /\ request[u].step \in {"ok", "already_resolved", "not_found"} =>
            \E p \in audits : p[1] = request[u].failure
       /\ request[u].step = "update" =>
            \/ \E f \in stored["failures"] : f.id = request[u].failure
            \/ \E p \in audits : p[1] = request[u].failure
  /\ \A f \in stored["failures"] :
       f.resolved <=> \E p \in audits : p[1] = f.id

\* Paging back shows no row twice, and of the rows that were there when the
\* first page was asked for and still answer the query it passes over those
\* only that have the very time of the last row of a page (postgres.rs, the
\* three lists; handler.rs, next_before).
PagesComplete ==
  LET passed(row) == /\ row.id \in reader.present
                     /\ IF reader.more
                        THEN reader.before # NoTime /\ row.at >= reader.before
                        ELSE reader.table # "none"
  IN  /\ reader.twice = {}
      /\ reader.table # "none" =>
           \A row \in Selected(reader.table, NoTime, reader.unresolved) :
             passed(row) => row.id \in reader.shown \/ row.at \in reader.cuts
=============================================================================
