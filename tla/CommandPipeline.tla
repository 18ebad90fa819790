--------------------------- MODULE CommandPipeline ---------------------------
(***************************************************************************)
(* The way of a command through one project runtime, from the client or    *)
(* the rule that asks for it to the MQTT client and back to its row in the *)
(* command_executions table:                                               *)
(*                                                                         *)
(*   execute_command / rule dispatch -> command queue -> command processor *)
(*     -> bus command queue -> MQTT command worker -> MQTT client          *)
(*     -> outcome channel -> outcome consumer -> row                       *)
(*                                                                         *)
(* together with the shutdown of the runtime, which stops these tasks one  *)
(* after the other, a client that goes away, storage calls that fail, and  *)
(* a crash of the daemon.                                                  *)
(***************************************************************************)
EXTENDS Naturals, Sequences, FiniteSets

CONSTANTS
  ApiCommands,   \* commands asked for through the management API
  RuleCommands,  \* commands asked for by rules
  QueueCapacity,    \* command_queue_capacity
  BusCapacity,      \* BusConfig.command_capacity
  OutcomeCapacity,  \* command_publish_outcome_capacity
  StorageFaults,    \* whether storage calls may fail
  Stops,            \* whether the runtime is shut down or the daemon crashes
  None

ASSUME PipelineAssumption ==
  /\ ApiCommands \cap RuleCommands = {}
  /\ None \notin ApiCommands \cup RuleCommands
  /\ None \notin (ApiCommands \cup RuleCommands) \X {"published", "failed"}
  /\ QueueCapacity \in Nat \ {0}
  /\ BusCapacity \in Nat \ {0}
  /\ OutcomeCapacity \in Nat \ {0}
  /\ StorageFaults \in BOOLEAN
  /\ Stops \in BOOLEAN

VARIABLES
  storage,    \* whether the daemon runs with storage; never changes
  row,        \* status of each command's row; "none" before it is inserted
  stage,      \* who owns each command, or how it was disposed of
  answer,     \* what the caller was told
  queue,      \* command queue of the runtime
  queueOpen,  \* its receiver accepts commands
  proc,       \* where the command processor stands
  procCmd,    \* the command it works on
  bus,        \* command queue of the internal bus
  work,       \* where the MQTT command worker stands
  workCmd,    \* the command it publishes
  wire,       \* commands the MQTT client has accepted, in order
  outcomes,   \* outcome channel: <<command, status>>
  outcomesOpen,
  cons,       \* where the outcome consumer stands
  consCmd,    \* the outcome it records
  driver,     \* where ProjectRuntime::shutdown stands
  accepted,   \* history: commands accepted by the command queue, in order
  updateFailed \* commands counted by command_status_update_failed_total

vars == <<storage, row, stage, answer, queue, queueOpen, proc, procCmd, bus,
          work, workCmd, wire, outcomes, outcomesOpen, cons, consCmd, driver,
          accepted, updateFailed>>

apiVars == <<answer, accepted>>
procVars == <<proc, procCmd>>
workVars == <<work, workCmd, wire>>
consVars == <<cons, consCmd>>
outcomeVars == <<outcomes, outcomesOpen>>

Commands == ApiCommands \cup RuleCommands

Statuses == {"none", "queued", "published", "failed"}
Terminal == {"published", "failed"}

\* The owner of the command while it is alive ...
Owners == {"recording", "recorded", "rejected", "queue", "processor", "bus",
           "worker", "outcome", "consumer"}
\* ... and how it ended: dispatch or recording refused it, the caller went
\* away, the last task that had it finished its work, it was thrown away with
\* its queue or its task, its outcome did not fit the outcome channel.
Ends == {"refused", "abandoned", "finished", "discarded", "unreported"}

Items(s) == {s[i] : i \in DOMAIN s}

\* The runtime's shutdown flag and the engine's.
Signalled == driver # "up"
EngineStopping == driver \in {"stopEngine", "down"}

\* Rows that do not exist are not touched by UPDATE.
Updated(c, status) == IF row[c] = "none" THEN "none" ELSE status

\* The values the row of c may have once the write its owner is waiting for
\* has been cut off: the write was made or it was not.
CutOff(c) ==
  {row[c]} \cup
  CASE stage[c] = "recording" -> {"queued"}
    [] stage[c] = "rejected" -> {Updated(c, "failed")}
    [] stage[c] = "processor" /\ proc = "record" /\ storage -> {"queued"}
    [] stage[c] = "processor" /\ proc = "fail" /\ storage ->
         {Updated(c, "failed")}
    [] stage[c] = "consumer" -> {Updated(c, consCmd[2])}
    [] OTHER -> {}

-----------------------------------------------------------------------------
Init ==
  /\ storage \in BOOLEAN
  /\ row = [c \in Commands |-> "none"]
  /\ stage = [c \in Commands |-> "new"]
  /\ answer = [c \in Commands |-> "none"]
  /\ queue = <<>> /\ queueOpen = TRUE
  /\ proc = "select" /\ procCmd = None
  /\ bus = <<>>
  /\ work = "select" /\ workCmd = None
  /\ wire = <<>>
  /\ outcomes = <<>> /\ outcomesOpen = TRUE
  /\ cons = "select" /\ consCmd = None
  /\ driver = "up"
  /\ accepted = <<>>
  /\ updateFailed = {}

\* A storage write of the row of c, to `status`: it succeeds, or it reports an
\* error and may have been made nevertheless.
WriteOk(c, status) == row' = [row EXCEPT ![c] = status]
WriteError(c, status) ==
  /\ StorageFaults
  /\ \E s \in {row[c], status} : row' = [row EXCEPT ![c] = s]

Move(c, s) == stage' = [stage EXCEPT ![c] = s]

-----------------------------------------------------------------------------
(* execute_command(), one call per API command.                            *)

\* The runtime is in the slot, the template is known and the preview renders;
\* the handle of the command queue outlives the runtime.
ExecuteCommand(c) ==
  /\ storage
  /\ ~Signalled
  /\ stage[c] = "new"
  /\ Move(c, "recording")
  /\ UNCHANGED <<storage, row, apiVars, queue, queueOpen, procVars, bus,
                 workVars, outcomeVars, consVars, driver, updateFailed>>

\* record_command_execution()
RecordExecution(c) ==
  /\ stage[c] = "recording"
  /\ \/ WriteOk(c, "queued") /\ Move(c, "recorded") /\ UNCHANGED answer
     \/ /\ WriteError(c, "queued")
        /\ Move(c, "refused")
        /\ answer' = [answer EXCEPT ![c] = "error"]
  /\ UNCHANGED <<storage, queue, queueOpen, procVars, bus, workVars,
                 outcomeVars, consVars, driver, accepted, updateFailed>>

QueueAccepts == queueOpen /\ Len(queue) < QueueCapacity

\* Mutant: a queue that takes the newest command first.
TryEnqueueFront(c) ==
  /\ QueueAccepts
  /\ queue' = <<c>> \o queue
  /\ accepted' = Append(accepted, c)
  /\ answer' = [answer EXCEPT ![c] = "queued"]
  /\ Move(c, "queue")

\* RuntimeCommandQueueHandle::try_enqueue() takes the command.
TryEnqueue(c) ==
  /\ QueueAccepts
  /\ queue' = Append(queue, c)
  /\ accepted' = Append(accepted, c)
  /\ answer' = [answer EXCEPT ![c] = "queued"]
  /\ Move(c, "queue")

EnqueueRequest(c) ==
  /\ stage[c] = "recorded"
  /\ \/ TryEnqueue(c)
     \/ ~QueueAccepts /\ Move(c, "rejected") /\ UNCHANGED <<queue, apiVars>>
  /\ UNCHANGED <<storage, row, queueOpen, procVars, bus, workVars,
                 outcomeVars, consVars, driver, updateFailed>>

\* mark_command_execution_failed() after the queue refused the command; an
\* error of it is only logged.
MarkRejected(c) ==
  /\ stage[c] = "rejected"
  /\ WriteOk(c, Updated(c, "failed")) \/ WriteError(c, Updated(c, "failed"))
  /\ Move(c, "finished")
  /\ answer' = [answer EXCEPT ![c] = "error"]
  /\ UNCHANGED <<storage, queue, queueOpen, procVars, bus, workVars,
                 outcomeVars, consVars, driver, accepted, updateFailed>>

\* The client goes away and the handler future is dropped at an await.
Disconnect(c) ==
  /\ stage[c] \in {"recording", "rejected"}
  /\ \E s \in CutOff(c) : row' = [row EXCEPT ![c] = s]
  /\ Move(c, "abandoned")
  /\ UNCHANGED <<storage, apiVars, queue, queueOpen, procVars, bus, workVars,
                 outcomeVars, consVars, driver, updateFailed>>

-----------------------------------------------------------------------------
\* A rule fires in the MQTT router task: the dispatcher tries to enqueue the
\* command, and reports a dispatch failure when the queue does not take it.
DispatchRule(c) ==
  /\ stage[c] = "new"
  /\ driver # "down"
  /\ \/ TryEnqueue(c)
     \/ /\ ~QueueAccepts
        /\ Move(c, "refused")
        /\ answer' = [answer EXCEPT ![c] = "error"]
        /\ UNCHANGED <<queue, accepted>>
  /\ UNCHANGED <<storage, row, queueOpen, procVars, bus, workVars,
                 outcomeVars, consVars, driver, updateFailed>>

-----------------------------------------------------------------------------
(* run_command_processor(): one command at a time.                         *)

\* recv() of the select loop, where the shutdown flag goes first, and of the
\* loop that drains the queue once it is closed.
ProcReceive ==
  /\ proc = "select"
  /\ queue # <<>>
  /\ Signalled => ~queueOpen
  /\ queue' = Tail(queue)
  /\ procCmd' = Head(queue)
  /\ proc' = "render"
  /\ Move(Head(queue), "processor")
  /\ UNCHANGED <<storage, row, apiVars, queueOpen, bus, workVars,
                 outcomeVars, consVars, driver, updateFailed>>

ProcSeesShutdown ==
  /\ proc = "select"
  /\ Signalled
  /\ queueOpen
  /\ queueOpen' = FALSE
  /\ UNCHANGED <<storage, row, stage, apiVars, queue, procVars, bus, workVars,
                 outcomeVars, consVars, driver, updateFailed>>

\* Mutant: the processor ends without closing its queue.
ProcExitsOpen ==
  /\ proc = "select"
  /\ Signalled
  /\ queue = <<>>
  /\ proc' = "exited"
  /\ UNCHANGED <<storage, row, stage, apiVars, queue, queueOpen, procCmd, bus,
                 workVars, outcomeVars, consVars, driver, updateFailed>>

ProcExits ==
  /\ proc = "select"
  /\ ~queueOpen
  /\ queue = <<>>
  /\ proc' = "exited"
  /\ UNCHANGED <<storage, row, stage, apiVars, queue, queueOpen, procCmd, bus,
                 workVars, outcomeVars, consVars, driver, updateFailed>>

\* Template, rendering and broker.  The preview of an API command has passed
\* the same tests with the same template and parameters.
ProcRender ==
  /\ proc = "render"
  /\ \/ procCmd \in ApiCommands /\ proc' = "enqueue"
     \/ procCmd \in RuleCommands /\ proc' \in {"record", "fail"}
  /\ UNCHANGED <<storage, row, stage, apiVars, queue, queueOpen, procCmd, bus,
                 workVars, outcomeVars, consVars, driver, updateFailed>>

\* Mutant: without storage the command goes on without its row.
ProcRecordUnaudited ==
  /\ proc = "record"
  /\ proc' = "enqueue"
  /\ IF storage THEN WriteOk(procCmd, "queued") ELSE UNCHANGED row
  /\ UNCHANGED updateFailed
  /\ UNCHANGED <<storage, stage, apiVars, queue, queueOpen, procCmd, bus,
                 workVars, outcomeVars, consVars, driver>>

\* record_rule_command_execution(): AuditUnavailable without storage.
ProcRecord ==
  /\ proc = "record"
  /\ \/ ~storage /\ proc' = "fail" /\ UNCHANGED <<row, updateFailed>>
     \/ storage /\ WriteOk(procCmd, "queued") /\ proc' = "enqueue"
        /\ UNCHANGED updateFailed
     \/ /\ storage
        /\ WriteError(procCmd, "queued")
        /\ proc' = "fail"
        /\ updateFailed' = updateFailed \cup {procCmd}
  /\ UNCHANGED <<storage, stage, apiVars, queue, queueOpen, procCmd, bus,
                 workVars, outcomeVars, consVars, driver>>

\* Mutant: a full bus drops the command without a trace.
ProcEnqueueDrop ==
  /\ proc = "enqueue"
  /\ IF Len(bus) < BusCapacity /\ work # "exited"
     THEN /\ bus' = Append(bus, procCmd)
          /\ Move(procCmd, "bus")
          /\ proc' = "select" /\ procCmd' = None
     ELSE /\ Move(procCmd, "discarded")
          /\ proc' = "select" /\ procCmd' = None
          /\ UNCHANGED bus
  /\ UNCHANGED <<storage, row, apiVars, queue, queueOpen, workVars,
                 outcomeVars, consVars, driver, updateFailed>>

\* try_enqueue_rendered() into the bus: taken, or full (or closed).
ProcEnqueue ==
  /\ proc = "enqueue"
  /\ IF Len(bus) < BusCapacity /\ work # "exited"
     THEN /\ bus' = Append(bus, procCmd)
          /\ Move(procCmd, "bus")
          /\ proc' = "select" /\ procCmd' = None
     ELSE proc' = "fail" /\ UNCHANGED <<bus, stage, procCmd>>
  /\ UNCHANGED <<storage, row, apiVars, queue, queueOpen, workVars,
                 outcomeVars, consVars, driver, updateFailed>>

\* mark_command_failed_after_processor_error()
ProcFail ==
  /\ proc = "fail"
  /\ \/ ~storage /\ UNCHANGED <<row, updateFailed>>
     \/ storage /\ WriteOk(procCmd, Updated(procCmd, "failed"))
        /\ UNCHANGED updateFailed
     \/ /\ storage
        /\ WriteError(procCmd, Updated(procCmd, "failed"))
        /\ updateFailed' = updateFailed \cup {procCmd}
  /\ Move(procCmd, "finished")
  /\ proc' = "select" /\ procCmd' = None
  /\ UNCHANGED <<storage, apiVars, queue, queueOpen, bus, workVars,
                 outcomeVars, consVars, driver>>

-----------------------------------------------------------------------------
(* run_command_worker() of the MQTT engine.                                *)

\* Mutant: the command stays in the bus while it is published.
WorkReceivePeek ==
  /\ work = "select"
  /\ ~EngineStopping
  /\ bus # <<>>
  /\ bus' = bus
  /\ workCmd' = Head(bus)
  /\ work' = "publish"
  /\ Move(Head(bus), "worker")
  /\ UNCHANGED <<storage, row, apiVars, queue, queueOpen, procVars, wire,
                 outcomeVars, consVars, driver, updateFailed>>

WorkReceive ==
  /\ work = "select"
  /\ ~EngineStopping
  /\ bus # <<>>
  /\ bus' = Tail(bus)
  /\ workCmd' = Head(bus)
  /\ work' = "publish"
  /\ Move(Head(bus), "worker")
  /\ UNCHANGED <<storage, row, apiVars, queue, queueOpen, procVars, wire,
                 outcomeVars, consVars, driver, updateFailed>>

\* Mutant: an outcome that is sent before publish() has returned.
ReportOptimistic(c, status) ==
  IF outcomesOpen /\ Len(outcomes) < OutcomeCapacity
  THEN outcomes' = Append(outcomes, <<c, "published">>) /\ Move(c, "outcome")
  ELSE Move(c, "unreported") /\ UNCHANGED outcomes

\* report_command_publish_outcome(): a try_send that finds the channel full or
\* closed drops the outcome.
Report(c, status) ==
  IF outcomesOpen /\ Len(outcomes) < OutcomeCapacity
  THEN outcomes' = Append(outcomes, <<c, status>>) /\ Move(c, "outcome")
  ELSE Move(c, "unreported") /\ UNCHANGED outcomes

\* Mutant: a failed publish is reported and then retried.
WorkPublishRetry ==
  /\ work = "publish"
  /\ \E status \in Terminal :
       /\ wire' = IF status = "published" THEN Append(wire, workCmd) ELSE wire
       /\ Report(workCmd, status)
  /\ IF wire' = wire THEN UNCHANGED <<work, workCmd>>
                     ELSE work' = "select" /\ workCmd' = None
  /\ UNCHANGED <<storage, row, apiVars, queue, queueOpen, procVars, bus,
                 outcomesOpen, consVars, driver, updateFailed>>

\* publish_command(): the MQTT client takes the message or refuses it.
WorkPublish ==
  /\ work = "publish"
  /\ \E status \in Terminal :
       /\ wire' = IF status = "published" THEN Append(wire, workCmd) ELSE wire
       /\ Report(workCmd, status)
  /\ work' = "select" /\ workCmd' = None
  /\ UNCHANGED <<storage, row, apiVars, queue, queueOpen, procVars, bus,
                 outcomesOpen, consVars, driver, updateFailed>>

\* The worker stops without draining its queue.
WorkExits ==
  /\ work = "select"
  /\ EngineStopping
  /\ work' = "exited"
  /\ bus' = <<>>
  /\ stage' = [c \in Commands |->
                 IF c \in Items(bus) THEN "discarded" ELSE stage[c]]
  /\ UNCHANGED <<storage, row, apiVars, queue, queueOpen, procVars, workCmd,
                 wire, outcomeVars, consVars, driver, updateFailed>>

-----------------------------------------------------------------------------
(* consume_command_publish_outcomes()                                      *)

ConsReceive ==
  /\ cons = "select"
  /\ outcomes # <<>>
  /\ Signalled => ~outcomesOpen
  /\ outcomes' = Tail(outcomes)
  /\ consCmd' = Head(outcomes)
  /\ cons' = "update"
  /\ Move(Head(outcomes)[1], "consumer")
  /\ UNCHANGED <<storage, row, apiVars, queue, queueOpen, procVars, bus,
                 workVars, outcomesOpen, driver, updateFailed>>

ConsSeesShutdown ==
  /\ cons = "select"
  /\ Signalled
  /\ outcomesOpen
  /\ outcomesOpen' = FALSE
  /\ UNCHANGED <<storage, row, stage, apiVars, queue, queueOpen, procVars,
                 bus, workVars, outcomes, consVars, driver, updateFailed>>

ConsExits ==
  /\ cons = "select"
  /\ ~outcomesOpen
  /\ outcomes = <<>>
  /\ cons' = "exited"
  /\ UNCHANGED <<storage, row, stage, apiVars, queue, queueOpen, procVars,
                 bus, workVars, outcomeVars, consCmd, driver, updateFailed>>

\* Mutant: an update that fails ends the consumer, which leaves its channel
\* open.
ConsUpdateEnds ==
  /\ cons = "update"
  /\ LET c == consCmd[1]
         status == Updated(c, consCmd[2])
     IN  /\ \/ WriteOk(c, status) /\ cons' = "select" /\ UNCHANGED updateFailed
            \/ /\ WriteError(c, status)
               /\ cons' = "exited"
               /\ updateFailed' = updateFailed \cup {c}
         /\ Move(c, "finished")
  /\ consCmd' = None
  /\ UNCHANGED <<storage, apiVars, queue, queueOpen, procVars, bus, workVars,
                 outcomeVars, driver>>

\* record_command_publish_outcome(); commands get this far only with storage.
ConsUpdate ==
  /\ cons = "update"
  /\ LET c == consCmd[1]
         status == Updated(c, consCmd[2])
     IN  /\ \/ WriteOk(c, status) /\ UNCHANGED updateFailed
            \/ /\ WriteError(c, status)
               /\ updateFailed' = updateFailed \cup {c}
         /\ Move(c, "finished")
  /\ cons' = "select" /\ consCmd' = None
  /\ UNCHANGED <<storage, apiVars, queue, queueOpen, procVars, bus, workVars,
                 outcomeVars, driver>>

-----------------------------------------------------------------------------
(* ProjectRuntime::shutdown(): signal the workers, join them in turn, then *)
(* stop the MQTT engine.  A worker that is not done in time is aborted at  *)
(* the await it is in; its channel and the command it has go with it.      *)

ShutdownBegins ==
  /\ Stops
  /\ driver = "up"
  /\ driver' = "joinProcessor"
  /\ UNCHANGED <<storage, row, stage, apiVars, queue, queueOpen, procVars,
                 bus, workVars, outcomeVars, consVars, updateFailed>>

JoinProcessor ==
  /\ driver = "joinProcessor"
  /\ proc = "exited"
  /\ driver' = "joinConsumer"
  /\ UNCHANGED <<storage, row, stage, apiVars, queue, queueOpen, procVars,
                 bus, workVars, outcomeVars, consVars, updateFailed>>

AbortProcessor ==
  /\ driver = "joinProcessor"
  /\ proc = "select" \/ (storage /\ proc \in {"record", "fail"})
  /\ IF procCmd = None
     THEN UNCHANGED row
     ELSE \E s \in CutOff(procCmd) : row' = [row EXCEPT ![procCmd] = s]
  /\ stage' = [c \in Commands |->
                 IF c = procCmd \/ c \in Items(queue) THEN "discarded"
                                                     ELSE stage[c]]
  /\ queue' = <<>> /\ queueOpen' = FALSE
  /\ proc' = "exited" /\ procCmd' = None
  /\ driver' = "joinConsumer"
  /\ UNCHANGED <<storage, apiVars, bus, workVars, outcomeVars, consVars,
                 updateFailed>>

JoinConsumer ==
  /\ driver = "joinConsumer"
  /\ cons = "exited"
  /\ driver' = "stopEngine"
  /\ UNCHANGED <<storage, row, stage, apiVars, queue, queueOpen, procVars,
                 bus, workVars, outcomeVars, consVars, updateFailed>>

AbortConsumer ==
  /\ driver = "joinConsumer"
  /\ cons \in {"select", "update"}
  /\ IF cons = "select"
     THEN UNCHANGED row
     ELSE \E s \in CutOff(consCmd[1]) : row' = [row EXCEPT ![consCmd[1]] = s]
  /\ stage' = [c \in Commands |->
                 IF stage[c] \in {"outcome", "consumer"} THEN "discarded"
                                                         ELSE stage[c]]
  /\ outcomes' = <<>> /\ outcomesOpen' = FALSE
  /\ cons' = "exited" /\ consCmd' = None
  /\ driver' = "stopEngine"
  /\ UNCHANGED <<storage, apiVars, queue, queueOpen, procVars, bus, workVars,
                 updateFailed>>

JoinEngine ==
  /\ driver = "stopEngine"
  /\ work = "exited"
  /\ driver' = "down"
  /\ UNCHANGED <<storage, row, stage, apiVars, queue, queueOpen, procVars,
                 bus, workVars, outcomeVars, consVars, updateFailed>>

\* The daemon dies: what is in memory is gone, the rows stay as they are or
\* as the writes under way leave them.  Nothing reads them on restart.
Crash ==
  /\ Stops
  /\ driver' = "crashed"
  /\ row' \in {f \in [Commands -> Statuses] :
                 \A c \in Commands : f[c] \in CutOff(c)}
  /\ stage' = [c \in Commands |->
                 IF stage[c] \in Owners THEN "discarded" ELSE stage[c]]
  /\ queue' = <<>> /\ queueOpen' = FALSE /\ bus' = <<>>
  /\ outcomes' = <<>> /\ outcomesOpen' = FALSE
  /\ proc' = "exited" /\ procCmd' = None
  /\ work' = "exited" /\ workCmd' = None
  /\ cons' = "exited" /\ consCmd' = None
  /\ UNCHANGED <<storage, apiVars, wire, updateFailed>>

Caller(c) ==
  \/ ExecuteCommand(c) \/ RecordExecution(c) \/ EnqueueRequest(c)
  \/ MarkRejected(c)
Processor ==
  \/ ProcReceive \/ ProcSeesShutdown \/ ProcExits \/ ProcRender
  \/ ProcRecord \/ ProcEnqueue \/ ProcFail
Worker == WorkReceive \/ WorkPublish \/ WorkExits
Consumer == ConsReceive \/ ConsSeesShutdown \/ ConsExits \/ ConsUpdate
Driver ==
  \/ ShutdownBegins \/ JoinProcessor \/ AbortProcessor \/ JoinConsumer
  \/ AbortConsumer \/ JoinEngine

Next ==
  /\ driver # "crashed"
  /\ \/ \E c \in ApiCommands : Caller(c) \/ Disconnect(c)
     \/ \E c \in RuleCommands : DispatchRule(c)
     \/ Processor \/ Worker \/ Consumer
     \/ Driver \/ Crash

Spec == Init /\ [][Next]_vars

\* Tasks that can run do run, and storage calls and the publish call of the
\* MQTT client return (the client has room while the broker is connected).
Fairness == WF_vars(Processor) /\ WF_vars(Worker) /\ WF_vars(Consumer)

FairSpec == Spec /\ Fairness

-----------------------------------------------------------------------------
Outcome == Commands \X Terminal

TypeOK ==
  /\ storage \in BOOLEAN
  /\ row \in [Commands -> Statuses]
  /\ stage \in [Commands -> {"new"} \cup Owners \cup Ends]
  /\ answer \in [Commands -> {"none", "queued", "error"}]
  /\ queue \in Seq(Commands) /\ bus \in Seq(Commands)
  /\ wire \in Seq(Commands) /\ accepted \in Seq(Commands)
  /\ outcomes \in Seq(Outcome)
  /\ queueOpen \in BOOLEAN /\ outcomesOpen \in BOOLEAN
  /\ proc \in {"select", "render", "record", "enqueue", "fail", "exited"}
  /\ procCmd \in Commands \cup {None}
  /\ work \in {"select", "publish", "exited"}
  /\ workCmd \in Commands \cup {None}
  /\ cons \in {"select", "update", "exited"}
  /\ consCmd \in Outcome \cup {None}
  /\ driver \in {"up", "joinProcessor", "joinConsumer", "stopEngine", "down",
                "crashed"}
  /\ updateFailed \subseteq Commands

\* No command reaches the MQTT client before its row is in the table, also
\* when the daemon runs without storage or dies at any point: there is no
\* publish without an audit trail.
WriteAheadAudit == \A c \in Items(wire) : row[c] # "none"

\* The row of a command tells the truth whenever it claims a result: the
\* command is "published" only if the MQTT client accepted it and "failed"
\* only if the client never did, whoever wrote the row.
StatusTruthful ==
  \A c \in Commands :
    /\ row[c] = "published" => c \in Items(wire)
    /\ row[c] = "failed" => c \notin Items(wire)

\* A command is handed to the MQTT client at most once.
PublishedOnce == \A i, j \in DOMAIN wire : wire[i] = wire[j] => i = j

\* Commands reach the MQTT client in the order in which the command queue
\* accepted them, across the processor, the bus and the worker.
OrderPreserved ==
  \A i, j \in DOMAIN wire : i < j =>
    \E m, n \in DOMAIN accepted :
      m < n /\ accepted[m] = wire[i] /\ accepted[n] = wire[j]

\* Where a command still is: with a task, or in a channel one will read.
InHands(c) ==
  \/ c \in Items(queue) \/ c = procCmd \/ c \in Items(bus) \/ c = workCmd
  \/ \E o \in Items(outcomes) : o[1] = c
  \/ consCmd # None /\ consCmd[1] = c

\* While the runtime is up, a command that was accepted ("queued") is in the
\* hands of some task, or its row has its result, or the loss was counted or
\* logged; a rule's command that failed before its row was inserted has none.
NoSilentLoss ==
  driver = "up" =>
    \A c \in Commands : answer[c] = "queued" =>
      \/ InHands(c)
      \/ row[c] \in Terminal
      \/ stage[c] = "unreported" \/ c \in updateFailed
      \/ c \in RuleCommands /\ row[c] = "none" /\ c \notin Items(wire)

\* A task that has ended leaves nothing in its channel and nobody can add to
\* it: a command accepted while the shutdown begins is still processed, since
\* the processor closes its queue before it drains it.
NoOrphans ==
  /\ proc = "exited" => queue = <<>>
  /\ work = "exited" => bus = <<>>
  /\ cons = "exited" => outcomes = <<>>

\* A result in the row is final: the UPDATE statements do not test the old
\* status, so it is the pipeline that must never write two different results.
ResultFinal ==
  [][\A c \in Commands : row[c] \in Terminal => row'[c] = row[c]]_vars

\* Every command the API has accepted is settled in the end, whatever fails and
\* also when the runtime stops at any point: its row has its result, or the
\* update of the row failed and was counted, or its outcome found the outcome
\* channel full or closed, or it was thrown away by a shutdown or a crash.  None
\* of them is left "queued" by a runtime that keeps running.
AcceptedSettles ==
  \A c \in ApiCommands :
    answer[c] = "queued" ~>
      \/ row[c] \in Terminal
      \/ stage[c] = "unreported" \/ c \in updateFailed
      \/ Signalled /\ stage[c] = "discarded"

\* engine.rs on try_enqueue_tracked_command(): it enqueues "a command whose
\* MQTT publish outcome must be reported to runtime status tracking".
OutcomeReported == \A c \in Commands : stage[c] # "unreported"
=============================================================================
