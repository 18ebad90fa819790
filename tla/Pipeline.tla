------------------------------ MODULE Pipeline ------------------------------
(***************************************************************************)
(* The life of a configuration (validated, compiled, running) and of the   *)
(* messages its runtime receives: routed, normalized, evaluated against    *)
(* the rules, and dispatched one intent after the other to the live        *)
(* stream, the forwarder and the command queue, while the workers behind   *)
(* those queues take from them.                                            *)
(***************************************************************************)
EXTENDS ProjectConfig, FiniteSets

CONSTANTS
  Configs,              \* configurations somebody may submit
  Messages,             \* messages a broker may hold
  MaxMessages,          \* bound: messages of one behaviour
  MaxIntents,           \* DispatchLimits.max_intents_per_event
  MaxMetadataEntries,   \* DispatchLimits.max_metadata_entries_per_event
  MaxBody,              \* ForwardLimits.max_request_body_bytes
  ForwardCapacity,      \* ForwardLimits.queue_capacity
  CommandCapacity       \* capacity of the command queue

ASSUME PipelineAssumption ==
  /\ {MaxMessages, MaxIntents, MaxMetadataEntries, MaxBody} \subseteq Nat
  /\ {ForwardCapacity, CommandCapacity} \subseteq Nat \ {0}

\* The rules, routes and templates of a configuration and the actions of a rule
\* are vectors; split() makes at least one level of a filter, and the index of a
\* wildcard is a usize.
ASSUME ConfigsAssumption ==
  \A c \in Configs :
    /\ c.rules \in Seq(ToSet(c.rules)) /\ c.templates \in Seq(ToSet(c.templates))
    /\ \A i \in DOMAIN c.rules : c.rules[i].actions \in Seq(ToSet(c.rules[i].actions))
    /\ c.routes \in Seq(ToSet(c.routes))
    /\ \A i \in DOMAIN c.routes :
         /\ c.routes[i].filter \in Seq(ToSet(c.routes[i].filter)) \ {<<>>}
         /\ c.routes[i].device[1] = "wildcard" => c.routes[i].device[2] \in Nat

\* The topic and the texts of the payload of a template, and the pieces they are
\* read as; a parameter that is a string is a text.
ASSUME TemplatesAssumption ==
  \A c \in Configs :
    /\ \A i \in DOMAIN c.templates :
         LET t == c.templates[i]
         IN  /\ PiecesOk(t.topicPieces) /\ t.topic = Spell(t.topicPieces)
             /\ t.payload \in Seq(ToSet(t.payload))
             /\ \A j \in DOMAIN t.payload :
                  t.payload[j][1] = "string" =>
                    /\ PiecesOk(t.payloadPieces[j])
                    /\ t.payload[j] = <<"string", Spell(t.payloadPieces[j])>>
    /\ \A i \in DOMAIN c.rules : \A a \in ToSet(c.rules[i].actions) :
         a[1] = "command" =>
           \A k \in DOMAIN a[3] : a[3][k][1] = "string" => a[3][k][2] \in Seq(ToSet(a[3][k][2]))

ASSUME MessagesAssumption == \A m \in Messages : m.topic \in Seq(ToSet(m.topic))

VARIABLES
  config,     \* the configuration
  phase,      \* "draft", "refused", "valid", "failed" or "running"
  errors,     \* why it could not be started
  received,   \* messages received
  last,       \* ghost: the last message, its route and what became of it
  work,       \* the dispatch under way: event, intents, next, overlay, dropped
  log,        \* outcome of the dispatch under way, one entry per intent
  history,    \* ghost: the logs of the earlier dispatches, one after the other
  lost,       \* ghost: intents that TooManyIntents has cost
  stats,      \* RuntimeStats
  forwards,   \* requests in the forwarder's queue
  commands,   \* requests in the command queue
  closed,     \* the queues whose receiver is closed
  viewers,    \* somebody is subscribed to the live stream
  processed   \* ghost: the last command taken, and its result

vars == <<config, phase, errors, received, last, work, log, history, lost,
          stats, forwards, commands, closed, viewers, processed>>
dispatching == <<work, log>>
outside == <<config, phase, errors, received, last, history, lost, viewers,
             processed, closed>>

Nothing == [route |-> "none", ok |-> FALSE]
NoWork == [busy |-> FALSE, event |-> Absent, intents |-> <<>>, next |-> 1,
           overlay |-> <<>>, dropped |-> FALSE]
NoStats == [normalized |-> 0, matched |-> 0, intents |-> 0, failed |-> 0,
            published |-> 0, noReceiver |-> 0,
            queued |-> 0, full |-> 0, unavailable |-> 0, renderFailed |-> 0]

Init ==
  /\ config \in Configs
  /\ phase = "draft" /\ errors = {}
  /\ received = 0 /\ last = Nothing
  /\ work = NoWork /\ log = <<>> /\ history = <<>> /\ lost = 0
  /\ stats = NoStats
  /\ forwards = <<>> /\ commands = <<>> /\ closed = {}
  /\ viewers = FALSE
  /\ processed = Nothing

\* RuntimeController and the API validate before they store or stop anything.
Validate ==
  /\ phase = "draft"
  /\ phase' = IF ValidateConfig(config) THEN "valid" ELSE "refused"
  /\ UNCHANGED <<config, errors, received, last, dispatching, history, lost, stats,
                 forwards, commands, closed, viewers, processed>>

\* ProjectRuntime::start(): compiles sinks, rules and routes.
Start ==
  /\ phase = "valid"
  /\ errors' = StartErrors(config)
  /\ phase' = IF errors' = {} THEN "running" ELSE "failed"
  /\ UNCHANGED <<config, received, last, dispatching, history, lost, stats, forwards,
                 commands, closed, viewers, processed>>

\* MqttRouter::dispatch() over build_pipeline_router(): a filter is registered
\* once, and all handlers are the same.
HandlerFound(broker, topic) ==
  \E f \in DOMAIN Subscriptions(config, broker) : EngineMatches(f, topic)

\* ConfigRouteMatcher::match_message() takes the first of these.
MatchingRoutes(broker, topic) ==
  {i \in BrokerRoutes(config, broker) : MatchFilter(config.routes[i].filter, topic).ok}

\* normalize_routed_message()
NormalizeRouted(broker, message) ==
  LET routes == MatchingRoutes(broker, message.topic)
  IN  IF routes = {} \/ ~HandlerFound(broker, message.topic) THEN Nothing
      ELSE LET route == config.routes[Min(routes)]
               mappings == Find(config.mappings, route.mapping)
               result == Normalize(route, MatchFilter(route.filter, message.topic),
                                   mappings, message)
           IN  [route |-> route.id, ok |-> result.ok, event |-> result.event]

\* The broker delivers what matches a subscription.
Delivered(broker, message) ==
  \E f \in DOMAIN Subscriptions(config, broker) : Denotes(f, message.topic)

\* handle_pipeline_message() up to the first intent: an error of the
\* normalizer, of the rules or of the limit of intents ends it there.
Receive(broker, message) ==
  LET routed == NormalizeRouted(broker, message)
      evaluation == Evaluate(config.rules, routed.event)
      count == Len(evaluation.intents)
  IN  /\ phase = "running" /\ ~work.busy /\ received < MaxMessages
      /\ Delivered(broker, message)
      /\ received' = received + 1
      /\ last' = [route |-> routed.route, ok |-> routed.ok, message |-> message,
                  device |-> IF routed.ok THEN routed.event.device ELSE Absent]
      /\ history' = history \o log
      /\ log' = <<>>
      /\ IF ~routed.ok
         THEN UNCHANGED <<work, lost, stats>>
         ELSE IF ~evaluation.ok
         THEN /\ stats' = [stats EXCEPT !.normalized = @ + 1]
              /\ UNCHANGED <<work, lost>>
         ELSE /\ stats' = [stats EXCEPT !.normalized = @ + 1,
                                        !.matched = @ + evaluation.matched,
                                        !.intents = @ + count]
              /\ IF count > MaxIntents
                 THEN lost' = lost + count /\ UNCHANGED work
                 ELSE /\ work' = [NoWork EXCEPT !.busy = TRUE, !.event = routed.event,
                                                !.intents = evaluation.intents]
                      /\ UNCHANGED lost
      /\ UNCHANGED <<config, phase, errors, forwards, commands, closed, viewers, processed>>

-----------------------------------------------------------------------------
(* ActionDispatcher::dispatch(), one intent per step.                      *)

Intent == work.intents[work.next]
AtIntent(kind) ==
  work.busy /\ work.next <= Len(work.intents) /\ ~work.dropped /\ Intent[1] = kind

\* The outcome of one intent; the metadata is what enriched_event() had then.
Entry(verdict) == [action |-> Intent, verdict |-> verdict, metadata |-> work.overlay]
Record(verdict) ==
  /\ log' = Append(log, Entry(verdict))
  /\ work' = [work EXCEPT !.next = @ + 1]

\* SkippedAction::AfterDrop
SkipAfterDrop ==
  /\ work.busy /\ work.dropped /\ work.next <= Len(work.intents)
  /\ Record("skipped")
  /\ UNCHANGED <<outside, stats, forwards, commands>>

\* RuntimeRealtimeSink::try_publish() never fails.
StreamToUi ==
  /\ AtIntent("stream")
  /\ Record("executed")
  /\ stats' = IF viewers THEN [stats EXCEPT !.published = @ + 1]
              ELSE [stats EXCEPT !.noReceiver = @ + 1]
  /\ UNCHANGED <<outside, forwards, commands>>

\* encode_payload(): the event with its metadata.
BodySize == work.event.size + Cardinality(DOMAIN work.overlay)

\* BoundedHttpForwarder::try_forward()
ForwardVerdict(sink) ==
  CASE Target(config.sinks, sink) # "target" -> Target(config.sinks, sink)
    [] Target(config.sinks, sink) = "target" ->
         IF BodySize > MaxBody THEN "ForwardPayloadTooLarge"
         ELSE IF "forward" \in closed THEN "ForwarderUnavailable"
         ELSE IF Len(forwards) = ForwardCapacity THEN "ForwarderBackpressure"
         ELSE "executed"

ForwardToSink ==
  /\ AtIntent("forward")
  /\ Record(ForwardVerdict(Intent[2]))
  /\ forwards' = IF ForwardVerdict(Intent[2]) = "executed"
                 THEN Append(forwards, [sink |-> Intent[2], metadata |-> work.overlay])
                 ELSE forwards
  /\ UNCHANGED <<outside, stats, commands>>

\* RuntimeCommandQueueHandle::try_enqueue()
CommandVerdict ==
  IF "command" \in closed THEN "CommandQueueUnavailable"
  ELSE IF Len(commands) = CommandCapacity THEN "CommandQueueBackpressure"
  ELSE "executed"

ExecuteCommand ==
  /\ AtIntent("command")
  /\ Record(CommandVerdict)
  /\ commands' = IF CommandVerdict = "executed"
                 THEN Append(commands, [template |-> Intent[2], params |-> Intent[3]])
                 ELSE commands
  /\ stats' = CASE CommandVerdict = "executed" -> [stats EXCEPT !.queued = @ + 1]
                [] CommandVerdict = "CommandQueueBackpressure" -> [stats EXCEPT !.full = @ + 1]
                [] CommandVerdict = "CommandQueueUnavailable" ->
                     [stats EXCEPT !.unavailable = @ + 1]
  /\ UNCHANGED <<outside, forwards>>

\* Mutant: a key that is there already counts as a new entry.
MetadataVerdictFull(key) ==
  IF ~MetadataOk(key) THEN "InvalidMetadataKey"
  ELSE IF Cardinality(DOMAIN work.overlay) >= MaxMetadataEntries
  THEN "TooManyMetadataEntries" ELSE "executed"

\* EventDispatchContext::insert_metadata(): the checks.
MetadataVerdict(key) ==
  IF ~MetadataOk(key) THEN "InvalidMetadataKey"
  ELSE IF key \notin DOMAIN work.overlay
            /\ Cardinality(DOMAIN work.overlay) >= MaxMetadataEntries
  THEN "TooManyMetadataEntries" ELSE "executed"

AddMetadata ==
  LET key == Intent[2]
      value == Intent[3]
      verdict == MetadataVerdict(key)
  IN  /\ AtIntent("metadata")
      /\ log' = Append(log, Entry(verdict))
      /\ work' = [work EXCEPT
           !.next = @ + 1,
           !.overlay = IF verdict = "executed"
                       THEN [k \in DOMAIN @ \cup {key} |-> IF k = key THEN value ELSE @[k]]
                       ELSE @]
      /\ UNCHANGED <<outside, stats, forwards, commands>>

DropEvent ==
  /\ AtIntent("drop")
  /\ log' = Append(log, Entry("executed"))
  /\ work' = [work EXCEPT !.next = @ + 1, !.dropped = TRUE]
  /\ UNCHANGED <<outside, stats, forwards, commands>>

Failures(entries) ==
  Cardinality({i \in DOMAIN entries : entries[i].verdict \notin {"executed", "skipped"}})

\* The end of handle_pipeline_message(): record_dispatch_failures().
FinishDispatch ==
  /\ work.busy /\ work.next > Len(work.intents)
  /\ work' = NoWork
  /\ stats' = [stats EXCEPT !.failed = @ + Failures(log)]
  /\ UNCHANGED <<outside, log, forwards, commands>>

-----------------------------------------------------------------------------
(* The other ends of the queues.  What becomes of a forward is the subject *)
(* of Delivery, and what becomes of a rendered command of CommandPipeline. *)

TakeForward ==
  /\ forwards # <<>>
  /\ forwards' = Tail(forwards)
  /\ UNCHANGED <<outside, dispatching, stats, commands>>

\* process_command_request(), up to the hand-over to the broker's queue.
CommandResult(request) ==
  LET found == Find(config.templates, request.template)
      draft == RenderDraft(found[1], request.params)
  IN  CASE found = <<>> -> [Nothing EXCEPT !.route = "CommandTemplateNotFound"]
        [] found # <<>> ->
             IF ~found[1].enabled THEN [Nothing EXCEPT !.route = "CommandTemplateDisabled"]
             ELSE IF ~draft.ok
             THEN [route |-> "Render", ok |-> FALSE, template |-> found[1], params |-> request.params]
             ELSE IF found[1].broker \notin EnabledIds(config.brokers)
             THEN [Nothing EXCEPT !.route = "BrokerUnavailable"]
             ELSE [route |-> "published", ok |-> TRUE, template |-> found[1],
                   params |-> request.params, draft |-> draft]

ProcessCommand ==
  /\ commands # <<>>
  /\ commands' = Tail(commands)
  /\ processed' = CommandResult(Head(commands))
  /\ stats' = IF processed'.route = "Render" THEN [stats EXCEPT !.renderFailed = @ + 1]
              ELSE stats
  /\ UNCHANGED <<config, phase, errors, received, last, dispatching, history, lost,
                 forwards, closed, viewers>>

\* At shutdown a worker closes the receiving end of its queue.
CloseQueue(queue) ==
  /\ phase = "running" /\ queue \notin closed
  /\ closed' = closed \cup {queue}
  /\ UNCHANGED <<config, phase, errors, received, last, dispatching, history, lost, stats,
                 forwards, commands, viewers, processed>>

\* A client of the live stream comes, or the last one goes.
ToggleViewers ==
  /\ phase = "running"
  /\ viewers' = ~viewers
  /\ UNCHANGED <<config, phase, errors, received, last, dispatching, history, lost, stats,
                 forwards, commands, closed, processed>>

Dispatch ==
  \/ SkipAfterDrop \/ StreamToUi \/ ForwardToSink \/ ExecuteCommand
  \/ AddMetadata \/ DropEvent \/ FinishDispatch

Next ==
  \/ Validate \/ Start
  \/ \E i \in Enabled(config.brokers), m \in Messages : Receive(config.brokers[i], m)
  \/ Dispatch
  \/ TakeForward \/ ProcessCommand
  \/ \E q \in {"forward", "command"} : CloseQueue(q)
  \/ ToggleViewers

Spec == Init /\ [][Next]_vars

-----------------------------------------------------------------------------
\* A message is one that the filter of an enabled route denotes, and it goes to
\* the first enabled route that denotes its topic, although two matchers decide
\* (the MQTT router's and the pipeline's), filters are registered once for all
\* their routes and wildcards are followed level by level.  The one exception:
\* a topic that begins with a '$' goes to an earlier route whose filter begins
\* with a wildcard, which MQTT excludes and neither matcher knows of.  A device
\* id taken from the k-th wildcard is the level which that "+" stands for.
FirstRouteWins ==
  last # Nothing =>
    LET topic == last.message.topic
        live == {i \in DOMAIN config.routes : config.routes[i].enabled}
        meant == {i \in live : Denotes(config.routes[i].filter, topic)}
        over == {i \in live : Overreaches(config.routes[i].filter, topic)}
        route == config.routes[Min(meant \cup over)]
    IN  /\ meant # {} /\ last.route = route.id
        /\ last.ok /\ route.device[1] = "wildcard" =>
             LET levels == Caught(route.filter, topic, route.device[2])
             IN  IF levels = {} THEN last.device = Absent
                 ELSE \E l \in levels : last.device = <<"string", <<l>>>>

\* The metadata that a sequence of earlier entries has set.
OverlayOf(entries) ==
  LET set == {i \in DOMAIN entries :
                entries[i].action[1] = "metadata" /\ entries[i].verdict = "executed"}
      keys == {entries[i].action[2] : i \in set}
      latest(k) == Max({i \in set : entries[i].action[2] = k})
  IN  [k \in keys |-> entries[latest(k)].action[3]]

Count(entries, kind, verdict) ==
  Cardinality({i \in DOMAIN entries :
                 entries[i].action[1] = kind /\ entries[i].verdict = verdict})

\* However the workers and viewers interleave with a dispatch, every intent is
\* accounted for once: nothing is executed after a drop, each later action sees
\* exactly the metadata that was accepted before it, an update of a key never
\* runs into the limit of entries, and the statistics agree with the outcomes,
\* apart from the intents TooManyIntents throws away after they were counted.
DispatchAccounts ==
  LET all == history \o log
  IN  /\ \A i \in DOMAIN log :
           /\ log[i].metadata = OverlayOf(SubSeq(log, 1, i - 1))
           /\ log[i].verdict = "TooManyMetadataEntries" =>
                /\ Cardinality(DOMAIN log[i].metadata) = MaxMetadataEntries
                /\ log[i].action[2] \notin DOMAIN log[i].metadata
           /\ log[i].verdict = "skipped" <=>
                \E j \in 1..(i - 1) : log[j].action[1] = "drop"
      /\ work.busy => Len(log) = work.next - 1
      /\ stats.intents = Len(all) + lost
           + (IF work.busy THEN Len(work.intents) - Len(log) ELSE 0)
      /\ stats.failed = Failures(IF work.busy THEN history ELSE all)
      /\ stats.published + stats.noReceiver = Count(all, "stream", "executed")
      /\ stats.queued = Count(all, "command", "executed")
      /\ stats.full + stats.unavailable =
           Count(all, "command", "CommandQueueBackpressure")
             + Count(all, "command", "CommandQueueUnavailable")

\* What a configuration that passed both gates refers to is there when a
\* message needs it: a forward never fails for its sink, a command never for
\* its template or broker.  The references are checked once, far from where
\* they are followed and with other lookups.
ReferencesResolve ==
  /\ \A i \in DOMAIN log :
       log[i].verdict \notin {"SinkNotFound", "SinkDisabled", "UnsupportedSinkKind",
                              "InvalidMetadataKey"}
  /\ processed.route \notin {"CommandTemplateNotFound", "CommandTemplateDisabled",
                             "BrokerUnavailable"}

Slashes(text) == Cardinality({i \in DOMAIN text : text[i] = "/"})

\* A published command is its template with every placeholder replaced by its
\* parameter, and no parameter adds a level to the topic; a command that is
\* refused has a placeholder without a scalar, a topic that MQTT or the
\* template's levels forbid or that is too long, a payload over the limit, or
\* one of the texts which the renderer does not read piece by piece.
RenderingSubstitutes ==
  /\ processed.route = "published" =>
       LET t == processed.template
           p == processed.params
           out == processed.draft
       IN  /\ out.topic = Substitute(t.topicPieces, p)
           /\ Slashes(out.topic) = Slashes(Literals(t.topicPieces))
           /\ \A i \in DOMAIN t.payload :
                (t.payload[i][1] = "string" => PieceByPiece(t.payloadPieces[i], p)) =>
                  out.payload[i] = Meaning(t.payload[i], t.payloadPieces[i], p)
  /\ processed.route = "Render" =>
       LET t == processed.template
           p == processed.params
           pieces == t.topicPieces
           topic == Substitute(pieces, p)
           payload == [i \in DOMAIN t.payload |->
                         Meaning(t.payload[i], t.payloadPieces[i], p)]
       IN  \/ ~Meaningful(pieces, p)
           \/ \E i \in DOMAIN pieces :
                pieces[i][1] = "param" /\ ScalarText(p[pieces[i][2]]) = <<>>
           \/ Slashes(topic) # Slashes(Literals(pieces))
           \/ BlankText(topic) \/ Len(topic) > MaxTopic
           \/ \E x \in {"+", "#", "ctl", CloseBrace} : Has(topic, x)
           \/ \E i \in DOMAIN t.payload :
                t.payload[i][1] = "string" /\ ~PieceByPiece(t.payloadPieces[i], p)
           \/ SizeOf(payload) > MaxPayload

\* A configuration that validate_config() has accepted, for which a reload has
\* stopped the old runtime, can still fail to start, but only for what the
\* compilers alone check: limits and reserved names of the rule engine and the
\* URL, headers and timeout of a sink.
StartRefusals ==
  errors \subseteq {"UnsupportedTrigger", "TooManyActions", "InvalidMetadataKey",
                    "ConditionTooDeep", "ConditionTooLarge",
                    "SinkUrl", "SinkHeaders", "SinkTimeout"}
=============================================================================
