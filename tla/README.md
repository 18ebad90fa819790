# Formal models of Pipe Bolt

TLA+ modules, TLC runs and TLAPS proofs for the parts of Pipe Bolt in which
several tasks, clients and failures meet. Paths below are relative to the
repository; `runtime.rs` etc. are files of `crates/pipe-bolt-daemon/src`
unless another crate is named. `PROJECT.json` maps every definition to the
lines it models and lists hazards, runs, mutants, findings and theorems.

    tlc -config Supervisor.cfg MCSupervisor     # one run
    tlapm SupervisorProofs.tla                  # the proofs of one module

## 1. Inventory of the system

One daemon process runs one *project*: MQTT brokers, routes, rules, sinks and
command templates described by a versioned project config.

| Component | State | Operations | Talks to |
|---|---|---|---|
| Supervisor (`runtime_control.rs`, `main.rs`) | `RuntimeState` (phase, stopping, slot, last error), lifecycle lock | reload, shutdown, readiness, status, execute_command | storage, runtime, HTTP handlers |
| Project runtime (`runtime.rs`) | workers, channels, counters | start, shutdown with join timeouts | everything below |
| Command pipeline (`runtime.rs`, core `mqtt/engine.rs`) | command queue, bus command queue, outcome channel, rows of `command_executions` | execute, process, publish, record outcome | API, rules, MQTT client, storage |
| HTTP forwarder (core `forwarder.rs`), persistence writer (`persistence_writer.rs`) | forward queue, semaphore, delivery tasks, outcome channel, writer queue, counters | try_forward, deliver, drain, record, write | rules, webhooks, storage |
| MQTT engine and bus (core `mqtt/`, `bus.rs`) | connection, request channel, backoff, ingress queue, telemetry broadcast | poll, subscribe, reconnect, ingress, route | broker, router, command worker |
| Router, normalizer, rules, dispatcher, command rendering (core) | none between messages | match, decode, evaluate, dispatch intents, render | forwarder, realtime, command queue |
| Storage (`pipe-bolt-storage`) | `project_configs`, revisions, audit events, executions, outcomes, failures, retention | versioned config writes, appends, queries, resolve_failure | API, daemon |
| API (`pipe-bolt-api`) | none between requests | config GET/PUT, reload, commands, operational queries, SSE, WebSocket | supervisor, storage, realtime broadcast |
| Web dashboard (`apps/web`) | config and rule drafts, realtime session, caches | edit, save, stream, execute | API |

What is hard in it, and what makes each part correct:

* **Supervisor.** A reload is a dozen awaits, each of which may fail or be the
  last one, because the server drops the handler future when the client goes
  away. Runtimes must not overlap, readiness must be true, no older config may
  come back, a shutdown must win.
* **Command pipeline.** A command crosses four tasks and three bounded
  channels; its row in the database is written by three of them with
  unconditional UPDATEs. No publish without a row, a row never lies, nothing is
  published twice or out of order, losses leave a trace.
* **Config store.** Optimistic concurrency, secrets merged outside of the
  transaction, bootstrap from a file by several daemons.
* **Delivery.** Counters of three tasks, timeouts of the shutdown that race with
  each other, workers that are left behind. The books must balance, no webhook
  is called for a request that is already settled, rows are true, a clean stop is
  quiet.
* **MQTT engine.** The task that drains the request channel also waits for room
  in it; the ingress queue drops. Drops may not reorder, no filter may be
  forgotten over reconnects, a shutdown must end.
* **Message pipeline.** Two matchers, two validators and the compilers of
  `start()` have to agree; the intents of an event are executed one by one
  against queues that others fill. Every intent has exactly one outcome, with
  the metadata set before it; every reference resolves.
* **Realtime.** Receivers lag, send queues overflow, filters change on another
  thread, a reload takes the channel away. A client must be able to account for
  what it gets.
* **Operational tables.** Users resolve the same failure, retention deletes,
  readers page by timestamps that are not unique.
* **Drafts and stream sessions** of the dashboard: late answers. See the hazards.

## 2. Modules

| Module | Role |
|---|---|
| `Supervisor` | `DaemonRuntimeController`: `reload()` split at its awaits, `shutdown()`, the lifecycle lock, disconnects |
| `SupervisorProofs` | inductive invariant and theorems |
| `CommandPipeline` | commands from API or rule to the MQTT client and back to their rows; shutdown, aborts, crash |
| `CommandPipelineProofs` | inductive invariant and theorems |
| `ConfigRegister` | abstract: a log in which each entry was made from the one before it |
| `ConfigStore` | bootstrap, GET, PUT and the transactions; implements `ConfigRegister` |
| `ConfigStoreProofs` | inductive invariant and the refinement |
| `Delivery` | forwarder, delivery tasks, outcome consumer, persistence writer, their counters and shutdown |
| `DeliveryProofs` | inductive invariant and theorems |
| `MqttEngine` | event loop, request channel, resubscription, backoff, ingress queue, router and command worker, engine shutdown |
| `MqttEngineProofs` | inductive invariant and theorems |
| `Topics`, `Templates`, `Rules`, `Normalizer`, `ProjectConfig` | operators: topic filters and matching, command rendering, rule validation and evaluation, decoding and field extraction, validation and compilation of a config |
| `Pipeline` | a runtime of one config: validate, start, messages through route, normalizer, rules and dispatcher into the queues, with the counters |
| `PipelineProofs` | inductive invariant and theorems, with lemmas about flattening, counting and overlays |
| `Realtime` | one client of the stream, API or bridge, SSE or WebSocket |
| `RealtimeProofs` | inductive invariant and theorems |
| `Operations` | outcomes, failures and audit rows, `resolve_failure`, retention, paging |
| `OperationsProofs` | inductive invariant and theorems |
| `Storage` | `ConfigStore` and `Operations` as parts of `PostgresStorage` |
| `MCSupervisor`, `MCCommandPipeline`, `MCDelivery`, `MCMqttEngine`, `MCStorage` | symmetry and small definitions for TLC |
| `MCPipeline`, `MCRealtime` | configs, rules, messages, filters and events for TLC |

Definitions marked "Mutant" are plausible bugs of the definition that follows
them. They are part of no specification; `PROJECT.json` names, for every
property, the mutant that violates it.

### Supervisor

One action per stretch of code between two awaits. `phase`, `stopping`, `slot`
and `reloadError` are `RuntimeState`; `holder` is the owner of
`lifecycle_lock`; `pc`, `candidate`, `oldSlot`, `activeAfter` are the locals of
each handler; `live` are the runtimes of which some task may still run. It
shrinks only when a `ProjectRuntime::shutdown` returns without an error, so a
shutdown that fails counts as a runtime that is still there. A runtime is named
after the request that started it; a rollback starts a new runtime with the old
version. `Disconnect` drops a handler at any await. `start()` awaits only while
it stops the engines it has already spawned after one of them failed; a handler
that is dropped there leaves them detached. tokio's mutex hands itself over to
its waiter, so `Unlock` gives the lock to a queued shutdown (external).

### CommandPipeline

`stage[c]` says who has command `c` or how it ended, `row[c]` is its row,
`wire` the commands the MQTT client has accepted. A storage call may fail, and
a call that fails, is aborted or crashes may have been executed all the same
(`WriteError`, `CutOff`). Shutdown follows `join_workers`: processor, outcome
consumer, then the engine; a worker that misses the join timeout is aborted at
the await it is in. `Crash` may happen in every state. There is one broker, so
the order of commands is per broker.

### ConfigStore

A config is its version and one secret. A client PUTs with the version it has
read or written last as `expected_version` (as the dashboard does, `config`
store of `apps/web`), with the secret redacted, replaced, added or removed.
`PutLoad` is the read and merge outside of the transaction; `PutUpdate` takes the
row lock and tests the version; `PutCommit` inserts revision and audit event.
A client that sends an `expected_version` it has never seen is not modelled:
then a redacted secret could be merged from another version than the one it
names.

### Delivery

Requests go through queue, worker, semaphore and tasks to the outcome channel,
the consumer, the writer's queue and the table. Counters are separate steps
where another task can act in between (`record_acceptance`,
`record_enqueued`), and part of the step where it cannot. Timeouts are actions
that may always happen while their owner waits: `DrainTimeout` (the worker's own
drain), `AbortForwarder` and `AbortConsumer` (`worker_join_timeout`),
`WriterTimeout` (`shutdown_drain_timeout`; other writers stay behind). Delivered,
HttpRejected and ResponseTooLarge are one status. There is no retry in the code, so
`calls` never exceeds one; no property rests on that, and `FailedIsRetried` states
what the repository's README promises instead.

### MqttEngine

Three tasks: `run_mqtt_worker`, which owns the event loop, `run_router_worker`
and `run_command_worker`. `requests` is the bounded channel of the MQTT client,
`pending` what the event loop keeps over an error. The event loop of the library
is external and modelled from its use; acknowledgements are left out. `arrived`,
`lost`, `routed` and `telemetry` are histories.

### Pipeline and its operators

A topic is the sequence of its levels, a JSON value a small tree, a text of a
template a sequence of tokens, braces among them, so that matching, extraction and
rendering are computed and not assumed. Beside its texts a template carries the
pieces they are read as (`topicPieces`, `payloadPieces`), which only the property
uses. A behaviour picks one config, validates
and starts it as the daemon does, and then handles messages: `Receive` is the
handler up to the intents, each intent is a step, since queues drain and viewers
come and go in between. `Denotes` (what the MQTT wildcards mean) and the
properties' own reading of templates (`Substitute`, `Literals`, `Meaning`: piece
by piece, where the code scans for braces) are the reference definitions. In MQTT a
wildcard at the beginning of a filter does not stand for a level that begins with a
`$`; neither matcher of the code knows of this. `Denotes` has the rule, `LevelsFit`
is the comparison without it, `Overreaches` the difference, and `FirstRouteWins`
names it as the one exception. The external broker delivers by `Denotes`. A topic
name has at most `MAX_TOPIC_BYTES`: `MaxTopic`, counted in tokens. The two
readings of a template differ for some texts, and `RenderingSubstitutes` names all of them: the
payload text `{a}-{b}` is taken for one placeholder called `a}-{b`, and a value
with a `}` in it is reported as a placeholder that was never opened.
`EventMismatch` of the dispatcher never occurs, because a rule's intents carry
the id of the event they were made from. The headers and the timeout of a sink
are a flag and a number. What the code filters out of a vector (enabled items,
the routes of a broker, the rules that match) is the set of its places, so that
order is kept without a copy; a message comes in over one of the enabled brokers.

### Realtime

`asked` are the filters of the client, the last one is the value of the watch
channel and `seen` whether the telemetry task knows of it. The task is split
where the socket loop, on another thread, can act: `RecvEvent` or
`FilterChanged`, `Judge` (the `borrow()`), `Send`, `SendClose`. A frame carries
the place of its event or filter; `written` and `lost` are histories and are
dropped with the client. The API subscribes before the upgrade, the bridge in
the task; the API validates what a client subscribes to, the bridge does not; the
bridge alone takes commands, and its channel never closes because each client
holds a handle of the bus. Keep-alives, ping and pong frames change nothing and
are left out. `POST /realtime/commands` of the bridge is `ClientCommand` without
a socket.

### Operations and Storage

`occurred_at` is `now()`, the time at which a transaction began, hence the steps
`Begin...` and `Commit...`. A page is any set of rows that `ORDER BY occurred_at
DESC LIMIT` may return; the reader goes on as the dashboard does, while pages are
full. Retention is one step: it sees a failure that is being resolved as open.
`CommitResolve` commits and answers, or commits and the answer is lost: then the
user is told of an error although the failure is resolved and audited.
`delete_expired_operational_rows` has no caller in the daemon; it is modelled as
an operation anybody may call. In `Storage`, `area` picks which of the two parts a
behaviour exercises: no statement touches tables of both except for the audit
table, to which both only append.

## 3. Runs

| Run | Bounds | Shows |
|---|---|---|
| `supervisor` | 3 requests, versions up to 2 | `AtMostOneRuntime`, `RunningHasRuntime`, `AuditNamesActiveVersion`, `NoDowngrade`, `ReloadingHasWorker`, `StoppedForGood`; under fairness `ShutdownNotStarved`, `ReloadAnswered` |
| `supervisor_swap` | same | *violated*: `AtomicSwap` |
| `command_pipeline` | 2 API commands, 1 rule command, queue 2, bus 1, outcome channel 1; faults, shutdown, crash | `WriteAheadAudit`, `StatusTruthful`, `PublishedOnce`, `OrderPreserved`, `NoSilentLoss`, `NoOrphans`, `ResultFinal`; under fairness `AcceptedSettles` |
| `command_outcome` | shutdown, no faults, outcome channel with room | *violated*: `OutcomeReported` |
| `storage` | config: 2 daemons, 2 clients, 2 secrets, versions up to 3; operations: 2 users, 3 rows or resolutions, pages of 1 and 2, time 0 to 2 | `TypeOK` (versions within `i64`), `TablesAgree`, `IsRegister` (refinement), `FailuresTruthful`, `PagesComplete` |
| `delivery` | 2 requests, 1 in flight, 2 writers, queues of 1, with and without storage | `ForwarderAccounts`, `NoLateCall`, `PersistenceAccounts`, `RowsTruthful`, `StoppedIsQuiet`; under fairness `RequestsSettle` |
| `delivery_retry` | 1 request, 1 writer, queues of 1 | *violated*: `FailedIsRetried` |
| `mqtt_engine` | 2 filters, 2 messages and an invalid one, 2 commands, request channel 2, queues of 1, delays 2 to 5, 3 errors in a row, 2 connections | `IngressAccounted`, `NoFilterForgotten`, `BackoffDoubles`; under fairness `ShutdownCompletes` |
| `mqtt_stuck` | request channel filled by commands | *violated*: `SubscriptionsRegistered` |
| `pipeline` | the configs and messages of `MCPipeline`, 2 messages per behaviour, queues of 1 | `FirstRouteWins`, `DispatchAccounts`, `ReferencesResolve`, `RenderingSubstitutes`, `StartRefusals` |
| `realtime` | 4 events or client messages, 3 filters, broadcast and send queue of 1, both implementations and transports | `StreamAccounts`, `FilterHonoured`; under fairness `StreamsEnd` |
| `realtime_slow` | 2 events or messages | *violated*: `SlowClientClosed` |

**Why the bounds are enough.** Capacities of 1 or 2 with one command or request
more than fits make every queue full, and empty, in some state. Three reloads are
one that leaves a state behind, one that finds it and one that races with the
shutdown. Three rows fill a page of 2 and leave one over, with equal and
different times. Four events or messages lag a broadcast channel of 1 and fill a
send queue of 1 before and after a change of filter; `MCPipeline` has for each
refusal of the validators, the compilers and the dispatcher a config or a
message that meets it, with topics that are too long and topics of the broker
(`$SYS`) among them. Version 0 against 1 at start is the bootstrap case of
`create_project_config`; `MaxVersion` of `ConfigStore` plays the part of
`i64::MAX`, so the overflow is reached. The theorems below lift the safety
properties from these bounds. `CHECK_DEADLOCK FALSE` everywhere:
a daemon that is down, and a run out of requests, may stop.

**Fairness.** Tasks that can run are scheduled, and awaits return. `Supervisor`
assumes nothing of `ReloadCloseOld` and `ShutdownEnd`, since
`MqttEngine::shutdown` joins its tasks without a timeout; its liveness
properties are conditional on `RuntimesStop`. `Delivery` assumes that deliveries
and writes end, which `execute_request` and `write_timeout` enforce.
`CommandPipeline` assumes that storage and `publish()` return; `publish()` waits
for room in the client's request channel, which there is while the broker is
connected. Nothing else is assumed of it: `AcceptedSettles` is checked with failing
storage, aborts, a shutdown and a crash, and names the four ends an accepted command
may have (a final row; an outcome that nobody took; an UPDATE that failed; a command
that a stopping runtime has discarded). `MqttEngine` assumes that its three tasks are scheduled, and nothing
of the broker. `Realtime` assumes that the telemetry task of a WebSocket is
scheduled (it only tries to send), that writing a frame ends or times out and that a
client answers a close; nothing obliges a client to send or to go away. An SSE stream
has no task and no timeout: it is polled only while the HTTP connection takes data,
so no fairness is assumed of it, and `StreamsEnd` has the reading client as a premise
(`SseReads`). An SSE client that stops reading keeps its stream.

**What the violations show.**

* `supervisor_swap`: README lines 25 and 38 speak of an atomic swap. The code
  takes the slot, stops the old runtime, then starts the new one; between them
  (and for good when both starts fail or the client disconnects) nothing runs.
* `command_outcome`: a tracked command's outcome "must be reported" (`engine.rs`
  line 55), but it is sent with `try_send`, and at shutdown the consumer closes
  the channel before the engine has stopped publishing.
* `delivery_retry`: README line 40 promises "automatic retry policies with
  backoff". A delivery whose one attempt fails or times out is counted and recorded,
  and its task (core `forwarder.rs` line 424) ends.
* `mqtt_stuck`: on ConnAck the only task that empties the request channel waits
  for room in it; `core/src/config.rs` line 15 says that subscriptions are
  registered after each successful connection.
* `realtime_slow`: "Full queues are treated as slow clients and closed"
  (`core/src/web/realtime/websocket.rs` line 259), but the close message is tried
  on the queue that is full, and the socket loop keeps a sender of its own: the
  socket stays open, with heartbeats and without events.

Also visible in the models, without a document that says otherwise: the phase
stays `Reloading` after a reload that finds no runtime or is cut off, and every
later reload is refused (`ReloadingHasWorker` names these two causes); a reload
whose audit insert fails answers an error although the new runtime is active;
rows stay `queued` for ever after a crash; a drain timeout of the forwarder loses
accepted requests while `shutdown()` reports success; a message that the broker sends
for the filter `$SYS/#` goes to an earlier route `#`, which MQTT excludes (core
`pipeline/router.rs` line 114, `router/matcher.rs` line 258); a WebSocket stays open, without events,
when a reload replaces its runtime (`StreamsEnd` speaks of the stream, not of the
socket); rows that share the time of a page's last row are on no page.

## 4. Proofs

The theorems hold for all sets of requests, commands, clients, configs and
messages and for all capacities and limits. They use the ASSUMEs of the modules
and nothing else: constants that must differ do, capacities are positive (tokio's
channels and the validators of the settings refuse zero), `Delivery` has finitely
many requests and at least one writer (`PersistenceWriterSettings::validate`), and
rules, routes, templates, actions and the levels of filters and topics are
sequences, a filter has a level and the index of a wildcard is a natural number
(`ConfigsAssumption` and `MessagesAssumption` of `Pipeline`: they are vectors, results
of `split` and a `usize`). `TemplatesAssumption` says that the pieces a template
carries are pieces of its texts; `PiecesExist` shows that every text has some, so
it excludes no template. TLC evaluates every ASSUME on the runs' instances.

* **SupervisorProofs** (`RuntimesNeverOverlap`, `ReadinessIsTruthful`,
  `VersionsNeverGoBack`, `AuditIsTruthful`, `ReloadingIsExplained`,
  `StoppingIsFinal`). The invariant adds to the properties: a handler works on
  its reload exactly while it owns the lock (`LockInv`), what its owner can rely
  on at each await, such as `live = {}` before a start (`StepInv`), the order of
  stored, candidate and active versions (`VersionInv`), and that nobody is past
  `ensure_not_stopping` once the flag is set (`StopInv`).
* **CommandPipelineProofs** (`NoPublishWithoutAudit`, `RowsTellTheTruth`,
  `AtMostOnePublish`, `NothingLeftBehind`, `LossIsNeverSilent`,
  `ResultsAreFinal`, `OrderIsKept`). The invariant ties `stage` to the place a
  command is in (every command is in one place, once), says what the row may be at
  each stage and that only commands past the worker are on the wire. Order needs
  all places at once: `OrderInv` lines up wire, worker, bus, processor and queue in
  the order in which the queue accepted the commands.
* **ConfigStoreProofs** (`TablesAlwaysAgree`, `StoreIsRegister`). The invariant
  says that the owner of the row lock still has the current version, that a
  merged secret whose version is still current is the current secret, and that
  versions in the log never exceed the current one.
* **DeliveryProofs** (`ForwarderAccountsHold`, `PersistenceAccountsHold`,
  `NoLateCallHolds`, `RowsTruthfulHolds`, `StoppedIsQuietHolds`). A request is
  in exactly one place (`PlaceInv`), calls, result and row follow from that place
  (`ResultInv`), the tasks stop in the order of the shutdown (`TaskInv`), permits
  and delivery tasks make up `MaxInFlight` (`Permits`). The accounts are equations
  between counters and numbers of requests per stage; each is kept because a step
  moves one request from one stage to another. A call is made by one step only
  (`CallsChange`), which needs a task that has the request and a permit.
* **MqttEngineProofs** (`FiltersRemembered`, `MessagesAccounted`, `DelaysDouble`). While connected
  the filters before `nextSub` are subscribed or on their way (`SubInv`); what
  arrived and was not dropped is routed, in the ingress queue or in hand, in this
  order (`IngressInv`); telemetry is at most one message behind (`TelemetryInv`). The powers of
  `BackoffDoubles` are a recursive function, `Doubled`; `DoubledIs` shows that it is
  what its equation says.
* **PipelineProofs** (`StartRefusalsHold`, `ReferencesResolveHold`,
  `DispatchAccountsHold`, `FirstRouteWinsHolds`, `RenderingSubstitutesHolds`,
  `PiecesExist`). `GateInv` says what each phase implies of the config,
  `ShapeInv` that all intents are actions of enabled rules (so the references
  that validation has followed are the ones dispatch follows), `ProgressInv` that
  overlay and drop flag are what the log says. Every step of the dispatcher is
  shown to be an instance of one relation (`Follows`: an entry is appended, the
  counters follow it), and `FollowsKeeps` shows once that this keeps the accounts.
  `FlattenSeq` and the walk of the matcher are recursive functions. That they exist
  and what they give is shown by the least counterexample (`LeastExists`):
  `FlattenType` for the intents, and for the matcher `MatchFits`, which goes
  from the last level of a filter to the first (`Answer`) and says that
  `MatchFilter` accepts exactly the topics that `LevelsFit` means and returns, in
  order, the levels its wildcards stand for; `RightRouteForm` takes these apart into
  what a filter denotes and where it overreaches. The renderer is a recursive function of the place
  it stands at (`ScanFrom`). `ScanReads` goes through the pieces from the last to the
  first: standing at the beginning of a piece, the scanner reads what that piece is
  worth and stands at the beginning of the next one (`PieceStep`, with a case for a
  text, a placeholder and an unclosed brace), so `render_text_template` returns the
  pieces' values or fails because one has none (`RenderTextReads`). `LevelsKept`
  counts separators (`HitsFlatten`): the topic has the template's levels exactly
  when no value brings a separator. `NotExact` says when a payload text is not
  mistaken for one placeholder, and `DraftSubstituted` and `DraftRefused` put topic,
  payload and size together for the two results of `render_draft`.
* **RealtimeProofs** (`StreamAccountsHold`, `FilterHonouredHolds`). Written and
  queued frames are read as one sequence, `Sent`: its frames are in order
  (`FramesInv`), no event follows a filter that it and all later ones refuse
  (`HonourInv`), and every event up to the cursor is told of, filtered, in hand or
  lost with the stream (`AccountInv`).
* **OperationsProofs** (`FailuresTruthfulHolds`, `PagesCompleteHolds`). `Fresh` is
  the set of ids a table may still receive; it only shrinks, so a row that was
  read does not come back under its id. `LockInv` is the row lock of
  `resolve_failure`, `ReaderInv` and `PagesInv` what the pages read so far cover.

`Invariance` (`Invariant` in `DeliveryProofs`) is `Spec => []IInv` in each module,
shown with one lemma per action; the parts of each `IInv` were checked by TLC
first. `VersionsNeverGoBack`, `StoppingIsFinal`, `ResultsAreFinal`, `NoLateCallHolds` and
`StoreIsRegister` are about steps, the others about
states.

Only model-checked: liveness (`ShutdownNotStarved`, `ReloadAnswered`,
`AcceptedSettles`, `RequestsSettle`, `ShutdownCompletes`, `StreamsEnd`), which is out
of the prover's reach. Every safety property of a passing run is a theorem.

## 5. Not modelled

* Authentication and authorization: a predicate on one request.
* The codec of stored configs and the encryption of secrets: conversions without
  state. Validation is in `ProjectConfig`, `Rules` and `Topics`.
* The dashboard's stream sessions and drafts: callbacks of one browser page,
  guarded by a generation counter; what they send is in `ConfigStore` and
  `Operations`. Views, styles and generated code.
* Compositions: `Supervisor` keeps its own `StoreConfig`, and the command
  pipeline is modelled within one runtime.
