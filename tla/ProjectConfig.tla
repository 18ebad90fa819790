--------------------------- MODULE ProjectConfig ----------------------------
(***************************************************************************)
(* The two gates a project configuration passes: validate_config(), which  *)
(* runs before anything is stopped or stored, and the compilation at the   *)
(* start of a runtime.                                                     *)
(***************************************************************************)
EXTENDS Normalizer

CONSTANTS
  RequireHttps,    \* EgressPolicy.require_https
  MinTimeout       \* MIN_TIMEOUT of a webhook

Ids(items) == {items[i].id : i \in DOMAIN items}
Unique(items) == \A i, j \in DOMAIN items : items[i].id = items[j].id => i = j
EnabledIds(items) == {items[i].id : i \in Enabled(items)}

\* find(|x| x.id == id): the first one, or the empty sequence.
Find(items, id) ==
  LET at == {i \in DOMAIN items : items[i].id = id}
  IN  IF at = {} THEN <<>> ELSE <<items[Min(at)]>>

\* BrokerConnectionConfig::validate() and ReconnectPolicy::validate()
BrokerOk(broker) ==
  /\ broker.named
  /\ broker.port # 0 /\ broker.keepAlive >= 5
  /\ broker.minDelay > 0 /\ broker.minDelay <= broker.maxDelay

\* ProjectConfig::validate()
DomainOk(config) ==
  /\ \A i \in DOMAIN config.brokers : BrokerOk(config.brokers[i])
  /\ \A i \in DOMAIN config.routes : RouteOk(config.routes[i])
  /\ \A i \in DOMAIN config.rules : DomainRuleOk(config.rules[i])
  /\ \A i \in DOMAIN config.templates :
       config.templates[i].named /\ TopicTextOk(config.templates[i].topic)

\* Mutant: sinks are forgotten.
UniqueIdsNotSinks(config) ==
  /\ Unique(config.brokers) /\ Unique(config.routes)
  /\ Unique(config.mappings) /\ Unique(config.rules)
  /\ Unique(config.templates)

\* validate_unique_ids()
UniqueIds(config) ==
  /\ Unique(config.brokers) /\ Unique(config.routes)
  /\ Unique(config.mappings) /\ Unique(config.rules)
  /\ Unique(config.templates) /\ Unique(config.sinks)

\* validate_single_enabled_broker()
SingleEnabledBroker(config) == \E i \in DOMAIN config.brokers : Enabled(config.brokers) = {i}

\* validate_routes()
RoutesOk(config) ==
  /\ Enabled(config.routes) # {}
  /\ \A i \in Enabled(config.routes) :
       LET route == config.routes[i]
       IN  /\ route.broker \in EnabledIds(config.brokers)
           /\ route.mapping # "none" => route.mapping \in Ids(config.mappings)
           /\ route.backpressure = "reject"

\* validate_command_templates()
TemplatesOk(config) ==
  \A i \in Enabled(config.templates) :
    config.templates[i].broker \in EnabledIds(config.brokers)

\* The actions of one kind in enabled rules.
RuleActions(config, kind) ==
  UNION {{a \in ToSet(config.rules[i].actions) : a[1] = kind} :
           i \in Enabled(config.rules)}

\* Mutant: a disabled sink will do.
RuleSinksKnown(config) ==
  \A a \in RuleActions(config, "forward") : a[2] \in Ids(config.sinks)

\* validate_rule_sink_references()
RuleSinksOk(config) ==
  \A a \in RuleActions(config, "forward") :
    LET found == Find(config.sinks, a[2])
    IN  found # <<>> /\ found[1].enabled /\ found[1].kind = "webhook"

\* validate_rule_command_references()
RuleCommandsOk(config) ==
  \A a \in RuleActions(config, "command") :
    LET found == Find(config.templates, a[2])
    IN  found # <<>> /\ found[1].enabled

\* validate_runtime_config()
ValidateConfig(config) ==
  /\ DomainOk(config)
  /\ config.enabled
  /\ UniqueIds(config)
  /\ SingleEnabledBroker(config)
  /\ RoutesOk(config)
  /\ TemplatesOk(config)
  /\ RuleSinksOk(config)
  /\ RuleCommandsOk(config)

-----------------------------------------------------------------------------
\* parse_url() and validate_egress_host(): "denied" stands for every host the
\* egress policy refuses.
UrlOk(url) == url = "https" \/ (url = "http" /\ ~RequireHttps)

\* SinkRegistry::compile(): disabled sinks and databases are entered as they
\* are, webhooks are compiled (URL, headers, timeout).
RegistryErrors(sinks) ==
  {e \in {"DuplicateSink", "SinkUrl", "SinkHeaders", "SinkTimeout"} :
     LET live == {s \in ToSet(sinks) : s.enabled /\ s.kind = "webhook"} IN
     CASE e = "DuplicateSink" -> ~Unique(sinks)
       [] e = "SinkUrl" -> \E s \in live : ~UrlOk(s.url)
       [] e = "SinkHeaders" -> \E s \in live : ~s.headersOk
       [] e = "SinkTimeout" -> \E s \in live : s.timeout < MinTimeout}

\* SinkRegistry::target()
Target(sinks, id) ==
  LET found == Find(sinks, id)
  IN  CASE found = <<>> -> "SinkNotFound"
        [] found # <<>> -> IF ~found[1].enabled THEN "SinkDisabled"
                           ELSE IF found[1].kind # "webhook" THEN "UnsupportedSinkKind"
                           ELSE "target"

\* enabled_routes_for_broker(): their places.
BrokerRoutes(config, broker) ==
  {i \in Enabled(config.routes) : config.routes[i].broker = broker.id}

\* merged_subscriptions(): one per filter, with the highest QoS asked for.
Subscriptions(config, broker) ==
  LET at == BrokerRoutes(config, broker)
      routes == config.routes
  IN  [f \in {routes[i].filter : i \in at} |->
         Max({routes[i].qos : i \in {j \in at : routes[j].filter = f}})]

\* MqttClientConfig::validate(), from build_mqtt_client_config() and from the
\* engine.
ClientConfigOk(broker, filters) ==
  /\ broker.named /\ broker.port # 0 /\ broker.keepAlive >= 5
  /\ broker.minDelay > 0 /\ broker.minDelay <= broker.maxDelay
  /\ \A f \in filters : EngineFilterOk(f)

\* ConfigRouteMatcher::new()
MatcherOk(config, at) ==
  \A i \in at :
    /\ RouteOk(config.routes[i])
    /\ \A j \in at : config.routes[i].id = config.routes[j].id => i = j

\* build_pending_broker_runtimes(), one broker of its loop, with the filters of
\* the MQTT router.
BrokerErrors(config, broker) ==
  {e \in {"NoEnabledRoutes", "ClientConfig", "RouteMatcher"} :
     CASE e = "NoEnabledRoutes" -> BrokerRoutes(config, broker) = {}
       [] e = "ClientConfig" ->
            ~ClientConfigOk(broker, DOMAIN Subscriptions(config, broker))
       [] e = "RouteMatcher" -> ~MatcherOk(config, BrokerRoutes(config, broker))}

\* What makes ProjectRuntime::start() fail after its own validation.
StartErrors(config) ==
  RegistryErrors(config.sinks)
    \cup (UNION {RuleErrors(config.rules[i]) : i \in Enabled(config.rules)})
    \cup (UNION {BrokerErrors(config, config.brokers[i]) : i \in Enabled(config.brokers)})
=============================================================================
