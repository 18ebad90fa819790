------------------------------ MODULE Delivery ------------------------------
(***************************************************************************)
(* Forwarding events to webhooks, inside one project runtime:              *)
(*                                                                         *)
(*   try_forward -> forward queue -> forward worker -> delivery tasks      *)
(*     -> outcome channel -> outcome consumer -> persistence queue         *)
(*     -> persistence writers -> table sink_delivery_outcomes              *)
(*                                                                         *)
(* with the counters that ForwarderStats, RuntimeStats and                 *)
(* PersistenceWriterStats publish, and the shutdown of the runtime, each   *)
(* stage of which may run into its timeout.                                *)
(***************************************************************************)
EXTENDS Naturals, Sequences, FiniteSets

CONSTANTS
  Requests,         \* forward requests: an event and the sink it goes to
  Writers,          \* persistence_worker tasks
  QueueCapacity,    \* ForwardLimits.queue_capacity
  MaxInFlight,      \* ForwardLimits.max_in_flight
  OutcomeCapacity,  \* ForwardLimits.result_queue_capacity
  PersistCapacity,  \* PersistenceWriterSettings.queue_capacity
  Storages,         \* whether the daemon runs with storage, {TRUE}, or without
  None

ASSUME DeliveryAssumption ==
  /\ IsFiniteSet(Requests)
  /\ None \notin Requests
  \* PersistenceWriterSettings::validate(): worker_count is not zero.
  /\ IsFiniteSet(Writers) /\ Writers # {}
  /\ {"idle", "exited"} \cap Requests = {}
  /\ QueueCapacity \in Nat \ {0} /\ MaxInFlight \in Nat \ {0}
  /\ Storages \subseteq BOOLEAN
  /\ OutcomeCapacity \in Nat \ {0} /\ PersistCapacity \in Nat \ {0}

VARIABLES
  storage,       \* whether the daemon runs with storage; never changes
  stage,         \* where each request is, or how it ended
  calls,         \* how often the sink has received it
  result,        \* status of its outcome, None before it has one
  row,           \* status in its row, None without a row
  uncounted,     \* in the queue's hands, record_acceptance() to come
  queue, queueOpen,
  fwd,           \* where HttpForwardWorker::run stands
  held,          \* the request it has received and not spawned
  tasks,         \* requests with a delivery task
  sent,          \* those whose task has sent the request
  permits,       \* permits of the semaphore that are left
  outcomes, outcomesOpen,
  cons,          \* where consume_forward_outcomes() stands
  pending,       \* queue of the persistence writer
  writer,        \* what each persistence worker is writing, or its state
  stats,         \* ForwarderStats: accepted, backpressure, statuses, dropped
  consumed,      \* RuntimeStats.forward_outcome_total
  pstats,        \* PersistenceWriterStats
  driver,        \* where ProjectRuntime::shutdown stands
  error          \* first_error.is_some()

vars == <<storage, stage, calls, result, row, uncounted, queue, queueOpen,
          fwd, held, tasks, sent, permits, outcomes, outcomesOpen, cons,
          pending, writer, stats, consumed, pstats, driver, error>>

fwdVars == <<queue, queueOpen, fwd, held, uncounted>>
taskVars == <<calls, result, tasks, sent, permits>>
outcomeVars == <<outcomes, outcomesOpen, cons, consumed>>
writerVars == <<row, pending, writer, pstats>>
driverVars == <<driver, error>>

\* Delivered, HttpRejected and ResponseTooLarge are one status here: the sink
\* has got the request and answered it.
Statuses == {"answered", "timedOut", "failed"}
\* Without a trace in the counters: dropped with the queue, with the worker,
\* with an aborted task or consumer.
Lost == {"lost", "vanished", "discarded", "cutOff"}

Signalled == driver # "up"

Count(counters, name) == [counters EXCEPT ![name] = @ + 1]

Move(r, s) == stage' = [stage EXCEPT ![r] = s]

\* What is in a channel or with a task when it is dropped.
Drop(set, s) ==
  stage' = [r \in Requests |-> IF r \in set THEN s ELSE stage[r]]

Items(s) == {s[i] : i \in DOMAIN s}
Holding == {held} \ {None}

-----------------------------------------------------------------------------
Init ==
  /\ storage \in Storages
  /\ stage = [r \in Requests |-> "new"]
  /\ calls = [r \in Requests |-> 0]
  /\ result = [r \in Requests |-> None]
  /\ row = [r \in Requests |-> None]
  /\ uncounted = {}
  /\ queue = <<>> /\ queueOpen = TRUE
  /\ fwd = "select" /\ held = None /\ tasks = {} /\ sent = {}
  /\ permits = MaxInFlight
  /\ outcomes = <<>> /\ outcomesOpen = TRUE /\ cons = "select"
  /\ pending = <<>>
  /\ writer = [w \in Writers |-> IF storage THEN "idle" ELSE "exited"]
  /\ stats = [c \in Statuses \cup {"accepted", "backpressure", "dropped"} |-> 0]
  /\ consumed = 0
  /\ pstats = [c \in {"enqueued", "full", "ok", "failed", "timeout"} |-> 0]
  /\ driver = "up" /\ error = FALSE

\* A rule fires in a router task: try_forward().  The sink is not known, the
\* payload is too large, the queue is closed or (the one case that is counted)
\* full: DispatchError.
TryForward(r) ==
  /\ stage[r] = "new"
  /\ driver \notin {"stopWriter", "down"}
  /\ \/ /\ queueOpen /\ Len(queue) < QueueCapacity
        /\ queue' = Append(queue, r)
        /\ uncounted' = uncounted \cup {r}
        /\ Move(r, "queue")
        /\ UNCHANGED stats
     \/ Move(r, "refused") /\ UNCHANGED <<queue, uncounted, stats>>
     \/ /\ queueOpen /\ Len(queue) >= QueueCapacity
        /\ Move(r, "refused")
        /\ stats' = Count(stats, "backpressure")
        /\ UNCHANGED <<queue, uncounted>>
  /\ UNCHANGED <<storage, queueOpen, fwd, held, taskVars, outcomeVars,
                 writerVars, driverVars>>

\* The counter is increased after the request was sent.
RecordAcceptance(r) ==
  /\ r \in uncounted
  /\ uncounted' = uncounted \ {r}
  /\ stats' = Count(stats, "accepted")
  /\ UNCHANGED <<storage, stage, queue, queueOpen, fwd, held, taskVars,
                 outcomeVars, writerVars, driverVars>>

-----------------------------------------------------------------------------
(* HttpForwardWorker::run() and drain_remaining()                          *)

\* Mutant: the request stays in the queue.
FwdReceivePeek ==
  /\ \/ fwd = "select" /\ ~Signalled /\ fwd' = "permit"
     \/ fwd = "drain" /\ fwd' = "drainPermit"
  /\ queue # <<>>
  /\ held' = Head(queue) /\ queue' = queue
  /\ Move(Head(queue), "held")
  /\ UNCHANGED <<storage, uncounted, queueOpen, taskVars, outcomeVars,
                 writerVars, stats, driverVars>>

\* recv() of the select loop, where the shutdown flag goes first, and of the
\* loop that drains the closed queue.
FwdReceive ==
  /\ \/ fwd = "select" /\ ~Signalled /\ fwd' = "permit"
     \/ fwd = "drain" /\ fwd' = "drainPermit"
  /\ queue # <<>>
  /\ held' = Head(queue) /\ queue' = Tail(queue)
  /\ Move(Head(queue), "held")
  /\ UNCHANGED <<storage, uncounted, queueOpen, taskVars, outcomeVars,
                 writerVars, stats, driverVars>>

\* acquire_owned() looks at nothing but the semaphore.
FwdSpawn ==
  /\ \/ fwd = "permit" /\ fwd' = "select"
     \/ fwd = "drainPermit" /\ fwd' = "drain"
  /\ permits > 0
  /\ permits' = permits - 1
  /\ tasks' = tasks \cup {held}
  /\ held' = None
  /\ Move(held, "task")
  /\ UNCHANGED <<storage, uncounted, queue, queueOpen, calls, result, sent,
                 outcomeVars, writerVars, stats, driverVars>>

FwdSeesShutdown ==
  /\ fwd = "select" /\ Signalled
  /\ fwd' = "drain" /\ queueOpen' = FALSE
  /\ UNCHANGED <<storage, stage, uncounted, queue, held, taskVars,
                 outcomeVars, writerVars, stats, driverVars>>

\* The drain ends when every task has been joined ...
FwdExits ==
  /\ fwd = "drain" /\ queue = <<>> /\ tasks = {}
  /\ fwd' = "exited"
  /\ UNCHANGED <<storage, stage, uncounted, queue, queueOpen, held, taskVars,
                 outcomeVars, writerVars, stats, driverVars>>

\* ... or at graceful_shutdown_timeout: abort_all(), and what was not spawned
\* goes with the worker.
DrainTimeout ==
  /\ fwd \in {"drain", "drainPermit"}
  /\ fwd' = "abort"
  /\ Drop(Items(queue) \cup Holding, "lost")
  /\ queue' = <<>> /\ held' = None
  /\ UNCHANGED <<storage, uncounted, queueOpen, taskVars, outcomeVars,
                 writerVars, stats, driverVars>>

AbortDone ==
  /\ fwd = "abort" /\ tasks = {}
  /\ fwd' = "exited"
  /\ UNCHANGED <<storage, stage, uncounted, queue, queueOpen, held, taskVars,
                 outcomeVars, writerVars, stats, driverVars>>

-----------------------------------------------------------------------------
(* spawn_delivery(): the task of request r.                                *)

\* The request reaches the sink.
TaskSend(r) ==
  /\ r \in tasks \ sent
  /\ sent' = sent \cup {r}
  /\ calls' = [calls EXCEPT ![r] = @ + 1]
  /\ UNCHANGED <<storage, stage, fwdVars, result, tasks, permits, outcomeVars,
                 writerVars, stats, driverVars>>

\* Mutant: a dropped outcome is not counted.
ReportOutcomeSilent(r, status) ==
  /\ result' = [result EXCEPT ![r] = status]
  /\ stats' = Count(stats, status)
  /\ IF outcomesOpen /\ Len(outcomes) < OutcomeCapacity
     THEN outcomes' = Append(outcomes, r) /\ Move(r, "outcome")
     ELSE Move(r, "unreported") /\ UNCHANGED outcomes

\* record_outcome() and then the try_send() of the outcome: nobody else sees
\* the request in between.
ReportOutcome(r, status) ==
  /\ result' = [result EXCEPT ![r] = status]
  /\ IF outcomesOpen /\ Len(outcomes) < OutcomeCapacity
     THEN /\ outcomes' = Append(outcomes, r)
          /\ Move(r, "outcome")
          /\ stats' = Count(stats, status)
     ELSE /\ Move(r, "unreported")
          /\ stats' = Count(Count(stats, status), "dropped")
          /\ UNCHANGED outcomes

\* Mutant: the permit is not given back.
ReleaseTaskLeaks(r) ==
  tasks' = tasks \ {r} /\ sent' = sent \ {r} /\ UNCHANGED permits

\* The task is gone and with it the permit it owned.
ReleaseTask(r) ==
  tasks' = tasks \ {r} /\ sent' = sent \ {r} /\ permits' = permits + 1

\* execute_request() returns; there is no await from here to the end of the
\* task.  Only a request that was received is answered; it may fail or time
\* out before and after that.
TaskEnd(r) ==
  /\ r \in tasks
  /\ \E status \in Statuses :
       (status = "answered" => r \in sent) /\ ReportOutcome(r, status)
  /\ ReleaseTask(r)
  /\ UNCHANGED <<storage, fwdVars, calls, outcomesOpen, cons, consumed,
                 writerVars, driverVars>>

\* An aborted task is cut off at its await: record_join_result() counts it as
\* failed, unless the worker that would join it was itself aborted.
TaskAborted(r) ==
  /\ r \in tasks
  /\ \/ fwd = "abort" /\ stats' = Count(stats, "failed") /\ Move(r, "aborted")
     \/ fwd = "exited" /\ Move(r, "vanished") /\ UNCHANGED stats
  /\ ReleaseTask(r)
  /\ UNCHANGED <<storage, fwdVars, calls, result, outcomeVars, writerVars,
                 driverVars>>

-----------------------------------------------------------------------------
(* consume_forward_outcomes()                                              *)

\* Mutant: an outcome that finds the queue full is counted as enqueued.
SaveOutcomeCountsAll(r) ==
  IF storage /\ Len(pending) < PersistCapacity
  THEN /\ pending' = Append(pending, r)
       /\ Move(r, "pending")
       /\ cons' = "count"
       /\ UNCHANGED pstats
  ELSE /\ pstats' = IF storage THEN Count(pstats, "enqueued") ELSE pstats
       /\ Move(r, "unsaved")
       /\ UNCHANGED <<pending, cons>>

\* The try_send() of try_record_forward_outcome(), if there is storage.  The
\* queue is not closed as long as the consumer has its handle.
SaveOutcome(r) ==
  IF storage /\ Len(pending) < PersistCapacity
  THEN /\ pending' = Append(pending, r)
       /\ Move(r, "pending")
       /\ cons' = "count"
       /\ UNCHANGED pstats
  ELSE /\ pstats' = IF storage THEN Count(pstats, "full") ELSE pstats
       /\ Move(r, "unsaved")
       /\ UNCHANGED <<pending, cons>>

\* record_forward_outcome()
ConsReceive ==
  /\ cons = "select"
  /\ Signalled => ~outcomesOpen
  /\ outcomes # <<>>
  /\ outcomes' = Tail(outcomes)
  /\ consumed' = consumed + 1
  /\ SaveOutcome(Head(outcomes))
  /\ UNCHANGED <<storage, fwdVars, taskVars, outcomesOpen, row, writer, stats,
                 driverVars>>

\* record_enqueued() comes after the outcome was sent.
ConsCount ==
  /\ cons = "count"
  /\ cons' = "select"
  /\ pstats' = Count(pstats, "enqueued")
  /\ UNCHANGED <<storage, stage, fwdVars, taskVars, outcomes, outcomesOpen,
                 consumed, row, pending, writer, stats, driverVars>>

ConsSeesShutdown ==
  /\ cons = "select" /\ Signalled /\ outcomesOpen
  /\ outcomesOpen' = FALSE
  /\ UNCHANGED <<storage, stage, fwdVars, taskVars, outcomes, cons, consumed,
                 writerVars, stats, driverVars>>

ConsExits ==
  /\ cons = "select" /\ ~outcomesOpen /\ outcomes = <<>>
  /\ cons' = "exited"
  /\ UNCHANGED <<storage, stage, fwdVars, taskVars, outcomes, outcomesOpen,
                 consumed, writerVars, stats, driverVars>>

-----------------------------------------------------------------------------
(* persistence_worker(); the workers share one receiver.                   *)

WriterReceive(w) ==
  /\ writer[w] = "idle" /\ pending # <<>>
  /\ writer' = [writer EXCEPT ![w] = Head(pending)]
  /\ pending' = Tail(pending)
  /\ Move(Head(pending), "writing")
  /\ UNCHANGED <<storage, fwdVars, taskVars, outcomeVars, row, pstats, stats,
                 driverVars>>

\* Mutant: the row of a write that fails holds the status of a success.
WriteOutcomeWrong(r, c) ==
  \E s \in IF c = "ok" THEN {result[r]} ELSE {row[r], "answered"} :
    row' = [row EXCEPT ![r] = s]

\* record_sink_delivery_outcome() succeeds, fails, or is dropped after
\* write_timeout; but for a success, the row may or may not be there.
WriteOutcome(r, c) ==
  \E s \in IF c = "ok" THEN {result[r]} ELSE {row[r], result[r]} :
    row' = [row EXCEPT ![r] = s]

WriterEnds(w) ==
  /\ writer[w] \in Requests
  /\ \E c \in {"ok", "failed", "timeout"} :
       pstats' = Count(pstats, c) /\ WriteOutcome(writer[w], c)
  /\ Move(writer[w], "done")
  /\ writer' = [writer EXCEPT ![w] = "idle"]
  /\ UNCHANGED <<storage, fwdVars, taskVars, outcomeVars, pending, stats,
                 driverVars>>

\* recv() returns None once every handle is dropped: the consumer's and the
\* runtime's.
WriterExits(w) ==
  /\ writer[w] = "idle" /\ pending = <<>>
  /\ cons = "exited" /\ driver \in {"stopWriter", "down"}
  /\ writer' = [writer EXCEPT ![w] = "exited"]
  /\ UNCHANGED <<storage, stage, fwdVars, taskVars, outcomeVars, row, pending,
                 pstats, stats, driverVars>>

-----------------------------------------------------------------------------
(* ProjectRuntime::shutdown(): join_workers(), then the persistence writer. *)

ShutdownBegins ==
  /\ driver = "up"
  /\ driver' = "joinForwarder"
  /\ UNCHANGED <<storage, stage, fwdVars, taskVars, outcomeVars, writerVars,
                 stats, error>>

JoinForwarder ==
  /\ driver = "joinForwarder" /\ fwd = "exited"
  /\ driver' = "joinConsumer"
  /\ UNCHANGED <<storage, stage, fwdVars, taskVars, outcomeVars, writerVars,
                 stats, error>>

\* worker_join_timeout: the worker is aborted, its queue and its JoinSet are
\* dropped, and so the tasks are aborted too, but nobody waits for them.
AbortForwarder ==
  /\ driver = "joinForwarder" /\ fwd # "exited"
  /\ fwd' = "exited"
  /\ Drop(Items(queue) \cup Holding, "lost")
  /\ queue' = <<>> /\ queueOpen' = FALSE /\ held' = None
  /\ driver' = "joinConsumer" /\ error' = TRUE
  /\ UNCHANGED <<storage, uncounted, taskVars, outcomeVars, writerVars, stats>>

JoinConsumer ==
  /\ driver = "joinConsumer" /\ cons = "exited"
  /\ driver' = "stopWriter"
  /\ UNCHANGED <<storage, stage, fwdVars, taskVars, outcomeVars, writerVars,
                 stats, error>>

AbortConsumer ==
  /\ driver = "joinConsumer" /\ cons = "select"
  /\ cons' = "exited"
  /\ Drop(Items(outcomes), "discarded")
  /\ outcomes' = <<>> /\ outcomesOpen' = FALSE
  /\ driver' = "stopWriter" /\ error' = TRUE
  /\ UNCHANGED <<storage, fwdVars, taskVars, consumed, writerVars, stats>>

JoinWriters ==
  /\ driver = "stopWriter"
  /\ \A w \in Writers : writer[w] = "exited"
  /\ driver' = "down"
  /\ UNCHANGED <<storage, stage, fwdVars, taskVars, outcomeVars, writerVars,
                 stats, error>>

\* Worker w is aborted; the queue is dropped with the last worker.
AbortWriter(w) ==
  /\ writer' = [writer EXCEPT ![w] = "exited"]
  /\ IF writer[w] = "idle"
     THEN UNCHANGED row
     ELSE WriteOutcome(writer[w], "timeout")
  /\ IF \A v \in Writers \ {w} : writer[v] = "exited"
     THEN Drop({writer[w]} \cup Items(pending), "cutOff") /\ pending' = <<>>
     ELSE Drop({writer[w]}, "cutOff") /\ UNCHANGED pending

\* Mutant: the timeout is not reported.
WriterTimeoutSilent(w) ==
  /\ driver = "stopWriter" /\ writer[w] # "exited"
  /\ driver' = "down"
  /\ AbortWriter(w)
  /\ UNCHANGED <<storage, fwdVars, taskVars, outcomeVars, pstats, stats, error>>

\* shutdown_drain_timeout: the worker that is awaited is aborted and the
\* others are left alone; they go on until the queue is empty.
WriterTimeout(w) ==
  /\ driver = "stopWriter" /\ writer[w] # "exited"
  /\ driver' = "down" /\ error' = TRUE
  /\ AbortWriter(w)
  /\ UNCHANGED <<storage, fwdVars, taskVars, outcomeVars, pstats, stats>>

Forwarder ==
  \/ FwdReceive \/ FwdSpawn \/ FwdSeesShutdown \/ FwdExits \/ AbortDone
Consumer == ConsReceive \/ ConsCount \/ ConsSeesShutdown \/ ConsExits
Writer(w) == WriterReceive(w) \/ WriterEnds(w) \/ WriterExits(w)
Driver ==
  \/ ShutdownBegins \/ JoinForwarder \/ AbortForwarder \/ JoinConsumer
  \/ AbortConsumer \/ JoinWriters

Next ==
  \/ \E r \in Requests :
       \/ TryForward(r) \/ RecordAcceptance(r)
       \/ TaskSend(r) \/ TaskEnd(r) \/ TaskAborted(r)
  \/ Forwarder \/ DrainTimeout \/ Consumer
  \/ \E w \in Writers : Writer(w) \/ WriterTimeout(w)
  \/ Driver

Spec == Init /\ [][Next]_vars

\* Tasks that can run do run; every delivery ends, since execute_request()
\* has a timeout, and so does every write.
Fairness ==
  /\ WF_vars(Forwarder) /\ WF_vars(Consumer)
  /\ \A r \in Requests : WF_vars(TaskEnd(r) \/ TaskAborted(r))
  /\ \A w \in Writers : WF_vars(Writer(w))

FairSpec == Spec /\ Fairness

-----------------------------------------------------------------------------
TypeOK ==
  /\ storage \in BOOLEAN
  /\ stage \in [Requests ->
       {"new", "refused", "queue", "held", "task", "outcome", "pending",
        "writing", "done", "unreported", "unsaved", "aborted"} \cup Lost]
  /\ calls \in [Requests -> Nat]
  /\ result \in [Requests -> Statuses \cup {None}]
  /\ row \in [Requests -> Statuses \cup {None}]
  /\ uncounted \subseteq Requests
  /\ queue \in Seq(Requests) /\ queueOpen \in BOOLEAN
  /\ fwd \in {"select", "permit", "drain", "drainPermit", "abort", "exited"}
  /\ held \in Requests \cup {None}
  /\ tasks \subseteq Requests /\ sent \subseteq tasks
  /\ permits \in 0..MaxInFlight
  /\ outcomes \in Seq(Requests) /\ outcomesOpen \in BOOLEAN
  /\ cons \in {"select", "count", "exited"}
  /\ pending \in Seq(Requests)
  /\ writer \in [Writers -> Requests \cup {"idle", "exited"}]
  /\ stats \in [Statuses \cup {"accepted", "backpressure", "dropped"} -> Nat]
  /\ consumed \in Nat
  /\ pstats \in [{"enqueued", "full", "ok", "failed", "timeout"} -> Nat]
  /\ driver \in {"up", "joinForwarder", "joinConsumer", "stopWriter", "down"}
  /\ error \in BOOLEAN

\* The statuses ForwarderStats has counted, and the requests that are in none
\* of its counters.
Settled == stats["answered"] + stats["timedOut"] + stats["failed"]
Gone(s) == Cardinality({r \in Requests : stage[r] \in s})

\* The counters of the forwarder add up at every moment: each request that was
\* accepted waits, is in flight or has been counted once under one status, and
\* each status was handed on, consumed or counted as a dropped outcome.  What
\* is missing was cut off by a timeout of the shutdown.
ForwarderAccounts ==
  /\ stats["accepted"] + Cardinality(uncounted) =
       Len(queue) + Cardinality(Holding) + Cardinality(tasks) + Settled
         + Gone({"lost", "vanished"})
  /\ Settled = Len(outcomes) + consumed + stats["dropped"]
                 + Gone({"aborted", "discarded"})
  /\ Gone(Lost) > 0 => Signalled

\* Outcomes in the hands of the persistence writer so far.
Enqueued == pstats["enqueued"] + (IF cons = "count" THEN 1 ELSE 0)

\* So do the counters of the persistence writer, although several workers
\* share its queue and may be left behind by its shutdown.
PersistenceAccounts ==
  /\ storage => consumed = Enqueued + pstats["full"]
  /\ Enqueued =
       Len(pending) + Cardinality({w \in Writers : writer[w] \in Requests})
         + pstats["ok"] + pstats["failed"] + pstats["timeout"]
         + Gone({"cutOff"})

\* A sink is called for a request only while a delivery task has it and before
\* it has an outcome, in the counters or in a row: not for a request that was
\* refused, reported or cut off, whatever the drain and the aborts leave behind;
\* not once the forwarder has ended, unless shutdown() reports an error; and by
\* no more than max_in_flight tasks at a time.  How often one task may try is
\* left open.
NoLateCall ==
  [][\A r \in Requests : calls'[r] # calls[r] =>
       /\ stage[r] = "task" /\ result[r] = None /\ row[r] = None
       /\ fwd = "exited" => error
       /\ Cardinality({q \in Requests : stage[q] = "task"}) <= MaxInFlight]_vars

\* A row says what happened: its status is the one the delivery ended with,
\* and an answer of the sink is recorded only if there was one.
RowsTruthful ==
  \A r \in Requests : row[r] # None =>
    /\ row[r] = result[r]
    /\ row[r] = "answered" => calls[r] > 0

\* When shutdown() returns without an error nothing of the runtime is left
\* running and nothing is left in a channel.
StoppedIsQuiet ==
  driver = "down" /\ ~error =>
    /\ queue = <<>> /\ held = None /\ tasks = {}
    /\ outcomes = <<>> /\ pending = <<>>
    /\ \A w \in Writers : writer[w] = "exited"

\* Every accepted request leaves the pipeline, whether the runtime goes on or
\* is shut down: no permit is lost and no channel is left without a reader.
RequestsSettle ==
  \A r \in Requests :
    stage[r] = "queue" ~>
      stage[r] \in {"done", "unreported", "unsaved", "aborted"} \cup Lost

\* src/README.md line 40 on forwarding services: they have "execution timeouts,
\* and automatic retry policies with backoff".  A delivery that timed out or
\* failed at its first attempt is attempted again while the runtime is up.
FailedIsRetried ==
  \A r \in Requests :
    (result[r] \in {"timedOut", "failed"} /\ calls[r] <= 1) ~>
      (calls[r] > 1 \/ r \in tasks \/ Signalled)
=============================================================================
