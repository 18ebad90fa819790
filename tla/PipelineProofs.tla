--------------------------- MODULE PipelineProofs ---------------------------
(***************************************************************************)
(* For every set of configurations and messages: what a configuration that *)
(* passed validation can still fail for, that the references of a running  *)
(* one resolve, that a dispatch accounts for its intents, that a message   *)
(* takes the first route whose filter denotes its topic, and that a        *)
(* command is its template with the placeholders replaced.                 *)
(***************************************************************************)
EXTENDS Pipeline, FiniteSetTheorems, SequenceTheorems, WellFoundedInduction, TLAPS

-----------------------------------------------------------------------------
(* Numbers and sequences.                                                  *)

\* A set of numbers that is not empty has a smallest one.
LEMMA LeastExists ==
  ASSUME NEW S \in SUBSET Nat, S # {}
  PROVE  \E m \in S : \A x \in S : m <= x
<1> DEFINE R == OpToRel(<, Nat)
<1>1. IsWellFoundedOn(R, Nat)
  BY NatLessThanWellFounded
<1>2. \A x, y \in Nat : x < y => <<x, y>> \in R
  BY DEF OpToRel
<1> HIDE DEF R
<1>3. PICK m \in S : \A y \in S : ~(<<y, m>> \in R)
  BY <1>1, WFMin
<1>4. ASSUME NEW y \in S PROVE m <= y
  <2>1. m \in Nat /\ y \in Nat /\ ~(<<y, m>> \in R)
    BY <1>3
  <2>2. ~(y < m)
    BY <1>2, <2>1
  <2> QED
    BY <2>1, <2>2
<1> QED
  BY <1>4

\* Min gives it.
LEMMA MinIsLeast ==
  ASSUME NEW S \in SUBSET Nat, S # {}
  PROVE  Min(S) \in S /\ \A x \in S : Min(S) <= x
BY LeastExists DEF Min

\* Max gives the greatest number of a bounded set.
LEMMA MaxIsGreatest ==
  ASSUME NEW n \in Nat, NEW S \in SUBSET (1..n), S # {}
  PROVE  Max(S) \in S /\ \A x \in S : Max(S) >= x
<1> DEFINE D == {n - x : x \in S}
<1>0. \A x \in S : x \in Int /\ 1 <= x /\ x <= n /\ n - x \in Nat
  <2>1. SUFFICES ASSUME NEW x \in S PROVE x \in 1..n
    OBVIOUS
  <2> QED
    OBVIOUS
<1>1. D \in SUBSET Nat /\ D # {}
  BY <1>0
<1>2. PICK d \in D : \A y \in D : d <= y
  <2> HIDE DEF D
  <2> QED
    BY <1>1, LeastExists
<1>3. PICK m \in S : d = n - m
  OBVIOUS
<1>4. \A x \in S : m >= x
  <2>1. SUFFICES ASSUME NEW x \in S PROVE m >= x
    OBVIOUS
  <2>2. d <= n - x
    BY <1>2
  <2>3. x \in Int /\ m \in Int
    BY <1>0
  <2> QED
    BY <1>3, <2>2, <2>3
<1> QED
  BY <1>4 DEF Max

\* FlattenSeq is defined by a recursive function; there is one.
LEMMA FlattenExists ==
  ASSUME NEW s, NEW k \in Nat
  PROVE  \E f : f = [i \in 1..k |-> IF i = 1 THEN s[i] ELSE f[i - 1] \o s[i]]
<1> DEFINE Good(n) == \E f : f = [i \in 1..n |-> IF i = 1 THEN s[i] ELSE f[i - 1] \o s[i]]
           Bad == {n \in Nat : ~Good(n)}
<1>1. SUFFICES ASSUME Bad # {} PROVE FALSE
  OBVIOUS
<1>2. PICK m \in Bad : \A x \in Bad : m <= x
  <2> HIDE DEF Bad
  <2>1. Bad \subseteq Nat
    BY DEF Bad
  <2> QED
    BY <1>1, <2>1, LeastExists
<1>3. m \in Nat /\ ~Good(m)
  OBVIOUS
<1>4. m # 0
  <2>1. Good(0)
    <3>1. LET e == [i \in 1..0 |-> 0]
          IN  e = [i \in 1..0 |-> IF i = 1 THEN s[i] ELSE e[i - 1] \o s[i]]
      OBVIOUS
    <3> QED
      BY <3>1
  <2> QED
    BY <1>3, <2>1
<1>5. m - 1 \in Nat /\ Good(m - 1)
  <2>1. m - 1 \in Nat /\ ~(m <= m - 1)
    BY <1>3, <1>4
  <2> QED
    BY <1>2, <2>1
<1>6. PICK g : g = [i \in 1..m - 1 |-> IF i = 1 THEN s[i] ELSE g[i - 1] \o s[i]]
  BY <1>5
<1> DEFINE h == [i \in 1..m |-> IF i < m THEN g[i]
                                ELSE IF i = 1 THEN s[i] ELSE g[i - 1] \o s[i]]
<1>7. ASSUME NEW i \in 1..m
      PROVE  h[i] = IF i = 1 THEN s[i] ELSE h[i - 1] \o s[i]
  <2> HIDE DEF Good, Bad
  <2>1. i \in Int /\ 1 <= i /\ i <= m
    BY <1>3
  <2>2. i # 1 => i - 1 \in 1..m /\ i - 1 < m
    BY <1>3, <2>1
  <2>3. i # 1 => h[i - 1] = g[i - 1]
    BY <2>2
  <2>4. CASE i < m
    <3>1. i \in 1..m - 1
      BY <1>3, <2>1, <2>4
    <3>2. g[i] = IF i = 1 THEN s[i] ELSE g[i - 1] \o s[i]
      BY <1>6, <3>1
    <3> QED
      BY <2>3, <2>4, <3>2
  <2>5. CASE ~(i < m)
    BY <2>3, <2>5
  <2> QED
    BY <2>4, <2>5
<1>8. h = [i \in 1..m |-> IF i = 1 THEN s[i] ELSE h[i - 1] \o s[i]]
  <2> HIDE DEF Good, Bad
  <2>1. h = [i \in 1..m |-> h[i]]
    OBVIOUS
  <2> HIDE DEF h
  <2> QED
    BY <1>7, <2>1
<1> QED
  BY <1>3, <1>8

\* A sequence of sequences over a set becomes a sequence over that set.
LEMMA FlattenType ==
  ASSUME NEW A, NEW s \in Seq(Seq(A))
  PROVE  FlattenSeq(s) \in Seq(A)
<1> DEFINE f == CHOOSE f : f = [i \in 1..Len(s) |->
                                  IF i = 1 THEN s[i] ELSE f[i - 1] \o s[i]]
<1>1. Len(s) \in Nat /\ \A i \in 1..Len(s) : s[i] \in Seq(A)
  OBVIOUS
<1>2. f = [i \in 1..Len(s) |-> IF i = 1 THEN s[i] ELSE f[i - 1] \o s[i]]
  BY <1>1, FlattenExists
<1> HIDE DEF f
<1>3. \A i \in 1..Len(s) : f[i] = IF i = 1 THEN s[i] ELSE f[i - 1] \o s[i]
  BY <1>2
<1> DEFINE Bad == {i \in 1..Len(s) : f[i] \notin Seq(A)}
<1>4. Bad = {}
  <2>1. SUFFICES ASSUME Bad # {} PROVE FALSE
    OBVIOUS
  <2>2. Bad \subseteq Nat
    BY <1>1
  <2>3. PICK m \in Bad : \A x \in Bad : m <= x
    <3> HIDE DEF Bad
    <3> QED
      BY <2>1, <2>2, LeastExists
  <2>4. m \in 1..Len(s) /\ f[m] \notin Seq(A)
    OBVIOUS
  <2>5. m # 1
    BY <1>1, <1>3, <2>4
  <2>6. m - 1 \in 1..Len(s) /\ ~(m <= m - 1)
    BY <1>1, <2>4, <2>5
  <2>7. f[m - 1] \in Seq(A)
    BY <2>3, <2>6
  <2>8. f[m] = f[m - 1] \o s[m]
    BY <1>3, <2>4, <2>5
  <2> QED
    BY <1>1, <2>4, <2>7, <2>8
<1>5. CASE Len(s) = 0
  BY <1>5 DEF FlattenSeq
<1>6. CASE Len(s) # 0
  <2>1. Len(s) \in 1..Len(s)
    BY <1>1, <1>6
  <2>2. f[Len(s)] \in Seq(A)
    BY <1>4, <2>1
  <2>3. FlattenSeq(s) = f[Len(s)]
    BY <1>6 DEF FlattenSeq, f
  <2> QED
    BY <2>2, <2>3
<1> QED
  BY <1>5, <1>6

-----------------------------------------------------------------------------
(* The two gates.                                                          *)

\* What may still be wrong with a configuration that was accepted.
Refusals == {"UnsupportedTrigger", "TooManyActions", "InvalidMetadataKey",
             "ConditionTooDeep", "ConditionTooLarge",
             "SinkUrl", "SinkHeaders", "SinkTimeout"}

\* There is one enabled broker, so it has all the enabled routes.
LEMMA RoutesOfBroker ==
  ASSUME NEW c, ValidateConfig(c), NEW b \in Enabled(c.brokers)
  PROVE  BrokerRoutes(c, c.brokers[b]) = Enabled(c.routes)
<1>1. SingleEnabledBroker(c) /\ RoutesOk(c)
  BY DEF ValidateConfig
<1>2. PICK e : Enabled(c.brokers) = {e}
  BY <1>1 DEF SingleEnabledBroker
<1>3. EnabledIds(c.brokers) = {c.brokers[b].id}
  BY <1>2 DEF EnabledIds
<1>4. \A i \in Enabled(c.routes) : c.routes[i].broker = c.brokers[b].id
  BY <1>1, <1>3 DEF RoutesOk
<1> QED
  BY <1>4 DEF BrokerRoutes

\* Validation has seen what the engine and its client config check again.
LEMMA BrokersStart ==
  ASSUME NEW c, ValidateConfig(c), NEW b \in Enabled(c.brokers)
  PROVE  BrokerErrors(c, c.brokers[b]) = {}
<1>1. DomainOk(c) /\ UniqueIds(c) /\ RoutesOk(c)
  BY DEF ValidateConfig
<1>2. b \in DOMAIN c.brokers /\ BrokerOk(c.brokers[b])
  BY <1>1 DEF DomainOk, Enabled
<1>3. BrokerRoutes(c, c.brokers[b]) = Enabled(c.routes)
  BY RoutesOfBroker
<1>4. \A i \in Enabled(c.routes) : i \in DOMAIN c.routes /\ RouteOk(c.routes[i])
  BY <1>1 DEF DomainOk, Enabled
<1>5. BrokerRoutes(c, c.brokers[b]) # {}
  BY <1>1, <1>3 DEF RoutesOk
<1>6. ClientConfigOk(c.brokers[b], DOMAIN Subscriptions(c, c.brokers[b]))
  <2>1. \A f : DomainFilterOk(f) => EngineFilterOk(f)
    BY DEF DomainFilterOk, EngineFilterOk
  <2>2. DOMAIN Subscriptions(c, c.brokers[b]) = {c.routes[i].filter : i \in Enabled(c.routes)}
    BY <1>3 DEF Subscriptions
  <2>3. \A f \in DOMAIN Subscriptions(c, c.brokers[b]) : EngineFilterOk(f)
    BY <1>4, <2>1, <2>2 DEF RouteOk
  <2> QED
    BY <1>2, <2>3 DEF ClientConfigOk, BrokerOk
<1>7. MatcherOk(c, BrokerRoutes(c, c.brokers[b]))
  BY <1>1, <1>3, <1>4 DEF MatcherOk, UniqueIds, Unique
<1> QED
  BY <1>5, <1>6, <1>7 DEF BrokerErrors

\* What compilation may refuse after validation.
LEMMA ValidStarts ==
  ASSUME NEW c, ValidateConfig(c)
  PROVE  StartErrors(c) \subseteq Refusals
<1>1. RegistryErrors(c.sinks) \subseteq Refusals
  <2>1. Unique(c.sinks)
    BY DEF ValidateConfig, UniqueIds
  <2>2. "DuplicateSink" \notin RegistryErrors(c.sinks)
    BY <2>1 DEF RegistryErrors
  <2>3. RegistryErrors(c.sinks) \subseteq {"DuplicateSink", "SinkUrl", "SinkHeaders", "SinkTimeout"}
    BY DEF RegistryErrors
  <2> QED
    BY <2>2, <2>3 DEF Refusals
<1>2. ASSUME NEW i \in Enabled(c.rules) PROVE RuleErrors(c.rules[i]) \subseteq Refusals
  <2>1. DomainRuleOk(c.rules[i])
    BY DEF ValidateConfig, DomainOk, Enabled
  <2>2. "InvalidRule" \notin RuleErrors(c.rules[i])
    BY <2>1 DEF RuleErrors
  <2>3. RuleErrors(c.rules[i]) \subseteq
          {"UnsupportedTrigger", "TooManyActions", "InvalidMetadataKey",
           "ConditionTooDeep", "ConditionTooLarge", "InvalidRule"}
    BY DEF RuleErrors
  <2> QED
    BY <2>2, <2>3 DEF Refusals
<1>3. \A b \in Enabled(c.brokers) : BrokerErrors(c, c.brokers[b]) = {}
  BY BrokersStart
<1> QED
  BY <1>1, <1>2, <1>3 DEF StartErrors

-----------------------------------------------------------------------------
(* The actions of a configuration, and what they refer to.                 *)

\* The actions of the enabled rules.
Actions(c) == UNION {ToSet(c.rules[i].actions) : i \in Enabled(c.rules)}

\* The intents of an event are such actions.
LEMMA IntentsType ==
  ASSUME NEW c \in Configs, NEW event
  PROVE  Evaluate(c.rules, event).intents \in Seq(Actions(c))
<1> DEFINE verdict(rule) ==
             IF ~TriggerMatches(rule.trigger, event) THEN "false"
             ELSE IF rule.condition = Absent THEN "true"
             ELSE EvaluateCondition(rule.condition, event)
           matched == {i \in Enabled(c.rules) : verdict(c.rules[i]) = "true"}
           parts == [i \in DOMAIN c.rules |->
                       IF i \in matched THEN c.rules[i].actions ELSE <<>>]
<1>1. Evaluate(c.rules, event).intents = FlattenSeq(parts)
  BY DEF Evaluate
<1>2. matched \subseteq Enabled(c.rules)
  OBVIOUS
<1> HIDE DEF matched
<1>3. c.rules \in Seq(ToSet(c.rules))
  BY ConfigsAssumption
<1>4. Len(c.rules) \in Nat /\ DOMAIN c.rules = 1..Len(c.rules)
  BY <1>3
<1>5. ASSUME NEW i \in DOMAIN c.rules PROVE parts[i] \in Seq(Actions(c))
  <2>1. CASE i \in matched
    <3>1. c.rules[i].actions \in Seq(ToSet(c.rules[i].actions))
      BY ConfigsAssumption
    <3>2. ToSet(c.rules[i].actions) \subseteq Actions(c)
      BY <1>2, <2>1 DEF Actions
    <3>3. c.rules[i].actions \in Seq(Actions(c))
      BY <3>1, <3>2
    <3> QED
      BY <2>1, <3>3
  <2>2. CASE i \notin matched
    BY <2>2
  <2> QED
    BY <2>1, <2>2
<1>6. parts \in Seq(Seq(Actions(c)))
  <2>1. parts = [i \in 1..Len(c.rules) |-> parts[i]]
    BY <1>4
  <2> HIDE DEF parts
  <2> QED
    BY <1>4, <1>5, <2>1
<1> QED
  BY <1>1, <1>6, FlattenType

\* They are the ones validation and compilation have looked at.
LEMMA ActionsByKind ==
  ASSUME NEW c, NEW a \in Actions(c)
  PROVE  a \in RuleActions(c, a[1])
BY DEF Actions, RuleActions

\* The sink of a forward can be used.
LEMMA SinksResolve ==
  ASSUME NEW c, ValidateConfig(c), NEW a \in RuleActions(c, "forward")
  PROVE  Target(c.sinks, a[2]) = "target"
BY DEF ValidateConfig, RuleSinksOk, Target

\* The key of a metadata action was checked at the start.
LEMMA KeysOk ==
  ASSUME NEW c, StartErrors(c) = {}, NEW a \in RuleActions(c, "metadata")
  PROVE  MetadataOk(a[2])
<1>1. PICK i \in Enabled(c.rules) : a \in ToSet(c.rules[i].actions) /\ a[1] = "metadata"
  BY DEF RuleActions
<1>2. PICK j \in DOMAIN c.rules[i].actions : a = c.rules[i].actions[j]
  BY <1>1 DEF ToSet
<1>3. "InvalidMetadataKey" \notin RuleErrors(c.rules[i])
  BY <1>1 DEF StartErrors
<1> QED
  BY <1>1, <1>2, <1>3 DEF RuleErrors

\* The template of a command is there and enabled, and so is its broker.
LEMMA CommandsResolve ==
  ASSUME NEW c \in Configs, ValidateConfig(c), NEW a \in RuleActions(c, "command")
  PROVE  LET found == Find(c.templates, a[2])
         IN  found # <<>> /\ found[1].enabled /\ found[1].broker \in EnabledIds(c.brokers)
<1> DEFINE at == {i \in DOMAIN c.templates : c.templates[i].id = a[2]}
<1>1. Find(c.templates, a[2]) # <<>> /\ Find(c.templates, a[2])[1].enabled
  BY DEF ValidateConfig, RuleCommandsOk
<1>2. at # {} /\ Find(c.templates, a[2]) = <<c.templates[Min(at)]>>
  BY <1>1 DEF Find
<1>3. Min(at) \in DOMAIN c.templates
  <2>1. DOMAIN c.templates \subseteq Nat
    BY ConfigsAssumption
  <2> QED
    BY <1>2, <2>1, MinIsLeast
<1>4. Min(at) \in Enabled(c.templates)
  BY <1>1, <1>2, <1>3 DEF Enabled
<1>5. c.templates[Min(at)].broker \in EnabledIds(c.brokers)
  BY <1>4 DEF ValidateConfig, TemplatesOk
<1> QED
  BY <1>1, <1>2, <1>5

-----------------------------------------------------------------------------
(* The inductive invariant.                                                *)

Counters == {"normalized", "matched", "intents", "failed", "published", "noReceiver",
             "queued", "full", "unavailable", "renderFailed"}
WorkFields == {"busy", "event", "intents", "next", "overlay", "dropped"}

Overlays(c) ==
  UNION {[K -> {a[3] : a \in RuleActions(c, "metadata")}] :
           K \in SUBSET {a[2] : a \in RuleActions(c, "metadata")}}
Unresolved == {"SinkNotFound", "SinkDisabled", "UnsupportedSinkKind", "InvalidMetadataKey"}
Refused == {"CommandQueueBackpressure", "CommandQueueUnavailable"}
Verdicts == {"executed", "skipped", "ForwardPayloadTooLarge", "ForwarderUnavailable",
             "ForwarderBackpressure", "TooManyMetadataEntries"} \cup Unresolved \cup Refused
Entries(c) == [action : Actions(c), verdict : Verdicts, metadata : Overlays(c)]
Requests(c) == {[template |-> a[2], params |-> a[3]] : a \in RuleActions(c, "command")}

\* What the phases say of the configuration.
GateInv ==
  /\ config \in Configs
  /\ phase \in {"draft", "refused", "valid", "failed", "running"}
  /\ phase \in {"draft", "refused", "valid"} => errors = {}
  /\ phase \in {"valid", "failed", "running"} => ValidateConfig(config)
  /\ phase = "running" => StartErrors(config) = {}
  /\ StartRefusals

\* The shapes of a dispatch, its log and the command queue; nothing happens
\* before the runtime runs.
ShapeInv ==
  /\ DOMAIN work = WorkFields /\ work.busy \in BOOLEAN /\ work.dropped \in BOOLEAN
  /\ work.intents \in Seq(Actions(config)) /\ work.next \in 1..(Len(work.intents) + 1)
  /\ work.overlay \in Overlays(config) /\ IsFiniteSet(DOMAIN work.overlay)
  /\ log \in Seq(Entries(config)) /\ history \in Seq(Entries(config))
  /\ stats \in [Counters -> Nat] /\ lost \in Nat
  /\ commands \in Seq(Requests(config))
  /\ work.busy \/ commands # <<>> => phase = "running"

\* What the dispatch under way remembers is what its log says.
ProgressInv ==
  work.busy =>
    /\ work.overlay = OverlayOf(log)
    /\ Cardinality(DOMAIN work.overlay) <= MaxMetadataEntries
    /\ work.dropped <=> \E i \in DOMAIN log : log[i].action[1] = "drop"

IInv == GateInv /\ ShapeInv /\ ProgressInv /\ ReferencesResolve /\ DispatchAccounts

\* Only Validate and Start change what the gates have said.
LEMMA GateStep ==
  ASSUME GateInv, [Next]_vars
  PROVE  GateInv' /\ config' = config /\ (phase = "running" => phase' = "running")
<1>1. CASE Validate
  BY <1>1 DEF Validate, GateInv, StartRefusals
<1>2. CASE Start
  <2>1. phase = "valid" /\ errors' = StartErrors(config) /\ config' = config
        /\ phase' = IF errors' = {} THEN "running" ELSE "failed"
    BY <1>2 DEF Start
  <2>2. ValidateConfig(config) /\ config \in Configs
    BY <2>1 DEF GateInv
  <2>3. errors' \subseteq Refusals
    BY <2>1, <2>2, ValidStarts
  <2> QED
    BY <2>1, <2>2, <2>3 DEF GateInv, StartRefusals, Refusals
<1>3. CASE UNCHANGED <<config, phase, errors>>
  BY <1>3 DEF GateInv, StartRefusals
<1>4. [Next]_vars => Validate \/ Start \/ UNCHANGED <<config, phase, errors>>
  BY ZenonT(40) DEF Next, Dispatch, Receive, SkipAfterDrop, StreamToUi, ForwardToSink, ExecuteCommand,
         AddMetadata, DropEvent, FinishDispatch, TakeForward, ProcessCommand, CloseQueue,
         ToggleViewers, outside, vars
<1> QED
  BY <1>1, <1>2, <1>3, <1>4

\* A step of the dispatcher that enters e in the log.
Enters(e) ==
  /\ work.busy /\ work.next <= Len(work.intents)
  /\ log' = Append(log, e)
  /\ e.action = Intent /\ e.metadata = work.overlay
  /\ DOMAIN work' = DOMAIN work
  /\ work'.busy = work.busy /\ work'.intents = work.intents
  /\ work'.next = work.next + 1
  /\ UNCHANGED <<config, phase, history, lost, processed>>

\* The intent is an action of the configuration.
LEMMA IntentType ==
  ASSUME ShapeInv, work.busy, work.next <= Len(work.intents)
  PROVE  Intent \in Actions(config)
BY DEF ShapeInv, Intent

\* The entry of an intent.
LEMMA EntryType ==
  ASSUME ShapeInv, work.busy, work.next <= Len(work.intents), NEW v \in Verdicts
  PROVE  Entry(v) \in Entries(config)
BY IntentType DEF Entry, Entries, ShapeInv

\* An entry keeps the shape, if the overlay and the queue keep theirs.
LEMMA EntersShape ==
  ASSUME ShapeInv, NEW e \in Entries(config), Enters(e),
         (work.overlay \in Overlays(config) /\ IsFiniteSet(DOMAIN work.overlay))',
         (work.dropped \in BOOLEAN)', (stats \in [Counters -> Nat])',
         (commands \in Seq(Requests(config)))'
  PROVE  ShapeInv'
<1>1. log' \in Seq(Entries(config))
  BY DEF ShapeInv, Enters
<1>2. work'.next \in 1..(Len(work'.intents) + 1)
  <2>1. Len(work.intents) \in Nat /\ work.next \in Nat /\ work.next >= 1
    BY DEF ShapeInv
  <2> QED
    BY <2>1 DEF Enters
<1>3. phase' = "running"
  BY DEF ShapeInv, Enters
<1>4. config' = config
  BY DEF Enters
<1> QED
  BY <1>1, <1>2, <1>3, <1>4 DEF ShapeInv, Enters

\* What an entry does to the overlay: an accepted key is set, all else leaves it.
OverlayFollows(e) ==
  /\ e.action[1] = "metadata" /\ e.verdict = "executed" =>
       /\ \/ e.action[2] \in DOMAIN work.overlay
          \/ ~(Cardinality(DOMAIN work.overlay) >= MaxMetadataEntries)
       /\ work'.overlay = [k \in DOMAIN work.overlay \cup {e.action[2]} |->
                             IF k = e.action[2] THEN e.action[3] ELSE work.overlay[k]]
  /\ ~(e.action[1] = "metadata" /\ e.verdict = "executed") => work'.overlay = work.overlay
  /\ e.verdict = "TooManyMetadataEntries" =>
       /\ e.action[2] \notin DOMAIN work.overlay
       /\ Cardinality(DOMAIN work.overlay) >= MaxMetadataEntries

\* What it does to the statistics.
One(e, kind, verdicts) == IF e.action[1] = kind /\ e.verdict \in verdicts THEN 1 ELSE 0
CountersFollow(e) ==
  /\ stats'.intents = stats.intents /\ stats'.failed = stats.failed
  /\ stats'.published + stats'.noReceiver =
       stats.published + stats.noReceiver + One(e, "stream", {"executed"})
  /\ stats'.queued = stats.queued + One(e, "command", {"executed"})
  /\ stats'.full + stats'.unavailable = stats.full + stats.unavailable + One(e, "command", Refused)

\* One intent, dispatched.
Follows(e) ==
  /\ Enters(e) /\ e.verdict \notin Unresolved
  /\ (e.verdict = "skipped") <=> work.dropped
  /\ work'.dropped <=> (work.dropped \/ e.action[1] = "drop")
  /\ OverlayFollows(e) /\ CountersFollow(e)

\* Record() enters the intent and leaves the rest of the work alone.
LEMMA RecordEnters ==
  ASSUME ShapeInv, work.busy, work.next <= Len(work.intents), NEW v \in Verdicts, Record(v),
         UNCHANGED <<config, phase, history, lost, processed>>
  PROVE  /\ Enters(Entry(v)) /\ Entry(v) \in Entries(config)
         /\ Entry(v).verdict = v /\ Entry(v).action = Intent
         /\ work'.overlay = work.overlay /\ work'.dropped = work.dropped
<1>1. /\ Entry(v).verdict = v /\ Entry(v).action = Intent
      /\ Entry(v).metadata = work.overlay
  BY DEF Entry
<1>2. DOMAIN work = WorkFields /\ work' = [work EXCEPT !.next = @ + 1]
      /\ log' = Append(log, Entry(v))
  BY DEF ShapeInv, Record
<1> QED
  BY <1>1, <1>2, EntryType DEF Enters, WorkFields

\* The statistics are numbers.
LEMMA StatsType ==
  ASSUME ShapeInv
  PROVE  /\ stats \in [Counters -> Nat]
         /\ stats.normalized \in Nat /\ stats.matched \in Nat /\ stats.intents \in Nat
         /\ stats.failed \in Nat /\ stats.published \in Nat /\ stats.noReceiver \in Nat
         /\ stats.queued \in Nat /\ stats.full \in Nat /\ stats.unavailable \in Nat
         /\ stats.renderFailed \in Nat
BY DEF ShapeInv, Counters

\* An entry that no counter is kept for.
LEMMA NothingCounted ==
  ASSUME ShapeInv, NEW e, stats' = stats,
         One(e, "stream", {"executed"}) = 0, One(e, "command", {"executed"}) = 0,
         One(e, "command", Refused) = 0
  PROVE  CountersFollow(e)
BY StatsType DEF CountersFollow

\* SkipAfterDrop
LEMMA SkipFollows ==
  ASSUME ShapeInv, SkipAfterDrop
  PROVE  ShapeInv' /\ \E e : Follows(e)
<1> DEFINE e == Entry("skipped")
<1>1. /\ work.busy /\ work.next <= Len(work.intents) /\ work.dropped /\ Record("skipped")
      /\ UNCHANGED <<config, phase, history, lost, processed>>
      /\ UNCHANGED <<stats, commands>>
  BY DEF SkipAfterDrop, outside
<1>2. /\ Enters(e) /\ e \in Entries(config) /\ e.verdict = "skipped"
      /\ work'.overlay = work.overlay /\ work'.dropped = work.dropped
  <2>1. "skipped" \in Verdicts
    BY DEF Verdicts
  <2> QED
    BY <1>1, <2>1, RecordEnters
<1> HIDE DEF e
<1>3. CountersFollow(e)
  BY <1>1, <1>2, NothingCounted DEF One, Refused
<1>4. OverlayFollows(e)
  BY <1>2 DEF OverlayFollows
<1>5. ShapeInv'
  BY <1>1, <1>2, EntersShape DEF ShapeInv
<1>6. Follows(e)
  BY <1>1, <1>2, <1>3, <1>4 DEF Follows, Unresolved
<1> QED
  BY <1>5, <1>6

\* StreamToUi
LEMMA StreamFollows ==
  ASSUME ShapeInv, StreamToUi
  PROVE  ShapeInv' /\ \E e : Follows(e)
<1> DEFINE e == Entry("executed")
<1>1. /\ work.busy /\ work.next <= Len(work.intents) /\ ~work.dropped /\ Record("executed")
      /\ Intent[1] = "stream"
      /\ UNCHANGED <<config, phase, history, lost, processed>> /\ UNCHANGED commands
      /\ stats' = IF viewers THEN [stats EXCEPT !.published = @ + 1]
                  ELSE [stats EXCEPT !.noReceiver = @ + 1]
  BY DEF StreamToUi, AtIntent, outside
<1>2. /\ Enters(e) /\ e \in Entries(config) /\ e.verdict = "executed" /\ e.action = Intent
      /\ work'.overlay = work.overlay /\ work'.dropped = work.dropped
  <2>1. "executed" \in Verdicts
    BY DEF Verdicts
  <2> QED
    BY <1>1, <2>1, RecordEnters
<1> HIDE DEF e
<1>3. stats' \in [Counters -> Nat] /\ CountersFollow(e)
  <2>1. /\ One(e, "stream", {"executed"}) = 1 /\ One(e, "command", {"executed"}) = 0
        /\ One(e, "command", Refused) = 0
    BY <1>1, <1>2 DEF One
  <2>2. CASE stats' = [stats EXCEPT !.published = @ + 1]
    BY <2>1, <2>2, StatsType DEF Counters, CountersFollow
  <2>3. CASE stats' = [stats EXCEPT !.noReceiver = @ + 1]
    BY <2>1, <2>3, StatsType DEF Counters, CountersFollow
  <2> QED
    BY <1>1, <2>2, <2>3
<1>4. OverlayFollows(e)
  BY <1>1, <1>2 DEF OverlayFollows
<1>5. ShapeInv'
  BY <1>1, <1>2, <1>3, EntersShape DEF ShapeInv
<1>6. Follows(e)
  BY <1>1, <1>2, <1>3, <1>4 DEF Follows, Unresolved
<1> QED
  BY <1>5, <1>6

\* ForwardToSink: the sink was resolved by validation.
LEMMA ForwardFollows ==
  ASSUME GateInv, ShapeInv, ForwardToSink
  PROVE  ShapeInv' /\ \E e : Follows(e)
<1> DEFINE v == ForwardVerdict(Intent[2])
           e == Entry(v)
<1>1. /\ work.busy /\ work.next <= Len(work.intents) /\ ~work.dropped /\ Record(v)
      /\ Intent[1] = "forward"
      /\ UNCHANGED <<config, phase, history, lost, processed>>
      /\ UNCHANGED <<stats, commands>>
  BY DEF ForwardToSink, AtIntent, outside
<1>2. Target(config.sinks, Intent[2]) = "target"
  <2>1. phase = "running" /\ ValidateConfig(config)
    BY <1>1 DEF ShapeInv, GateInv
  <2>2. Intent \in RuleActions(config, "forward")
    BY <1>1, IntentType, ActionsByKind
  <2> QED
    BY <2>1, <2>2, SinksResolve
<1>3. v \in {"ForwardPayloadTooLarge", "ForwarderUnavailable", "ForwarderBackpressure",
             "executed"}
  BY <1>2 DEF ForwardVerdict
<1>4. v \in Verdicts
  BY <1>3 DEF Verdicts
<1> HIDE DEF v
<1>5. /\ Enters(e) /\ e \in Entries(config) /\ e.verdict = v /\ e.action = Intent
      /\ work'.overlay = work.overlay /\ work'.dropped = work.dropped
  BY <1>1, <1>4, RecordEnters
<1> HIDE DEF e
<1>6. CountersFollow(e)
  BY <1>1, <1>5, NothingCounted DEF One
<1>7. OverlayFollows(e)
  BY <1>1, <1>3, <1>5 DEF OverlayFollows
<1>8. ShapeInv'
  BY <1>1, <1>5, EntersShape DEF ShapeInv
<1>9. Follows(e)
  BY <1>1, <1>3, <1>5, <1>6, <1>7 DEF Follows, Unresolved
<1> QED
  BY <1>8, <1>9

\* ExecuteCommand
LEMMA CommandFollows ==
  ASSUME ShapeInv, ExecuteCommand
  PROVE  ShapeInv' /\ \E e : Follows(e)
<1> DEFINE v == CommandVerdict
           e == Entry(v)
           request == [template |-> Intent[2], params |-> Intent[3]]
<1>1. /\ work.busy /\ work.next <= Len(work.intents) /\ ~work.dropped /\ Record(v)
      /\ Intent[1] = "command"
      /\ UNCHANGED <<config, phase, history, lost, processed>>
      /\ commands' \in {commands, Append(commands, request)}
      /\ stats' = CASE v = "executed" -> [stats EXCEPT !.queued = @ + 1]
                    [] v = "CommandQueueBackpressure" -> [stats EXCEPT !.full = @ + 1]
                    [] v = "CommandQueueUnavailable" -> [stats EXCEPT !.unavailable = @ + 1]
  BY DEF ExecuteCommand, AtIntent, outside
<1>2. v \in {"executed", "CommandQueueBackpressure", "CommandQueueUnavailable"}
  BY DEF CommandVerdict
<1>3. v \in Verdicts
  BY <1>2 DEF Verdicts, Refused
<1> HIDE DEF v
<1>4. commands' \in Seq(Requests(config))
  <2>1. Intent \in RuleActions(config, "command")
    BY <1>1, IntentType, ActionsByKind
  <2>2. request \in Requests(config)
    BY <2>1 DEF Requests
  <2>3. commands \in Seq(Requests(config))
    BY DEF ShapeInv
  <2> HIDE DEF request
  <2>4. Append(commands, request) \in Seq(Requests(config))
    BY <2>2, <2>3
  <2> QED
    BY <1>1, <2>3, <2>4
<1>5. /\ Enters(e) /\ e \in Entries(config) /\ e.verdict = v /\ e.action = Intent
      /\ work'.overlay = work.overlay /\ work'.dropped = work.dropped
  BY <1>1, <1>3, RecordEnters
<1> HIDE DEF e
<1>6. stats' \in [Counters -> Nat] /\ CountersFollow(e)
  <2>1. One(e, "stream", {"executed"}) = 0
    BY <1>1, <1>5 DEF One
  <2>2. CASE v = "executed"
    <3>1. One(e, "command", {"executed"}) = 1 /\ One(e, "command", Refused) = 0
      BY <1>1, <1>5, <2>2 DEF One, Refused
    <3>2. stats' = [stats EXCEPT !.queued = @ + 1]
      BY <1>1, <2>2
    <3> QED
      BY <2>1, <3>1, <3>2, StatsType DEF Counters, CountersFollow
  <2>3. CASE v = "CommandQueueBackpressure"
    <3>1. One(e, "command", {"executed"}) = 0 /\ One(e, "command", Refused) = 1
      BY <1>1, <1>5, <2>3 DEF One, Refused
    <3>2. stats' = [stats EXCEPT !.full = @ + 1]
      BY <1>1, <2>3
    <3> QED
      BY <2>1, <3>1, <3>2, StatsType DEF Counters, CountersFollow
  <2>4. CASE v = "CommandQueueUnavailable"
    <3>1. One(e, "command", {"executed"}) = 0 /\ One(e, "command", Refused) = 1
      BY <1>1, <1>5, <2>4 DEF One, Refused
    <3>2. stats' = [stats EXCEPT !.unavailable = @ + 1]
      BY <1>1, <2>4
    <3> QED
      BY <2>1, <3>1, <3>2, StatsType DEF Counters, CountersFollow
  <2> QED
    BY <1>2, <2>2, <2>3, <2>4
<1>7. OverlayFollows(e)
  BY <1>1, <1>2, <1>5 DEF OverlayFollows
<1>8. ShapeInv'
  <2>1. config' = config
    BY <1>1
  <2> QED
    BY <1>4, <1>5, <1>6, <2>1, EntersShape DEF ShapeInv
<1>9. Follows(e)
  BY <1>1, <1>2, <1>5, <1>6, <1>7 DEF Follows, Unresolved
<1> QED
  BY <1>8, <1>9

\* DropEvent
LEMMA DropFollows ==
  ASSUME ShapeInv, DropEvent
  PROVE  ShapeInv' /\ \E e : Follows(e)
<1> DEFINE e == Entry("executed")
<1>1. /\ work.busy /\ work.next <= Len(work.intents) /\ ~work.dropped
      /\ Intent[1] = "drop"
      /\ log' = Append(log, e) /\ work' = [work EXCEPT !.next = @ + 1, !.dropped = TRUE]
      /\ UNCHANGED <<config, phase, history, lost, processed>>
      /\ UNCHANGED <<stats, commands>>
  BY DEF DropEvent, AtIntent, outside
<1>2. e \in Entries(config)
  <2>1. "executed" \in Verdicts
    BY DEF Verdicts
  <2> QED
    BY <1>1, <2>1, EntryType
<1>3. e.verdict = "executed" /\ e.action = Intent /\ e.metadata = work.overlay
  BY DEF Entry
<1> HIDE DEF e
<1>4. /\ Enters(e) /\ work'.overlay = work.overlay /\ work'.dropped
  <2>1. DOMAIN work = WorkFields
    BY DEF ShapeInv
  <2> QED
    BY <1>1, <1>3, <2>1 DEF Enters, WorkFields
<1>5. (work'.dropped) \in BOOLEAN
  BY <1>1 DEF ShapeInv, WorkFields
<1>6. CountersFollow(e)
  BY <1>1, <1>3, NothingCounted DEF One
<1>7. OverlayFollows(e)
  BY <1>1, <1>3, <1>4 DEF OverlayFollows
<1>8. ShapeInv'
  BY <1>1, <1>2, <1>4, <1>5, EntersShape DEF ShapeInv
<1>9. Follows(e)
  BY <1>1, <1>3, <1>4, <1>6, <1>7 DEF Follows, Unresolved
<1> QED
  BY <1>8, <1>9

\* AddMetadata: the key was checked at the start.
LEMMA MetadataFollows ==
  ASSUME GateInv, ShapeInv, AddMetadata
  PROVE  ShapeInv' /\ \E e : Follows(e)
<1> DEFINE key == Intent[2]
           v == MetadataVerdict(key)
           e == Entry(v)
           grown == [k \in DOMAIN work.overlay \cup {key} |->
                       IF k = key THEN Intent[3] ELSE work.overlay[k]]
<1>1. /\ work.busy /\ work.next <= Len(work.intents) /\ ~work.dropped
      /\ Intent[1] = "metadata" /\ log' = Append(log, e)
      /\ work' = [work EXCEPT !.next = @ + 1,
                              !.overlay = IF v = "executed" THEN grown ELSE @]
      /\ UNCHANGED <<config, phase, history, lost, processed>>
      /\ UNCHANGED <<stats, commands>>
  BY DEF AddMetadata, AtIntent, outside
<1>2. Intent \in RuleActions(config, "metadata")
  BY <1>1, IntentType, ActionsByKind
<1>3. MetadataOk(key)
  <2>1. phase = "running" /\ StartErrors(config) = {}
    BY <1>1 DEF ShapeInv, GateInv
  <2> QED
    BY <1>2, <2>1, KeysOk
<1>4. /\ v \in {"TooManyMetadataEntries", "executed"}
      /\ v = "TooManyMetadataEntries" =>
           key \notin DOMAIN work.overlay
             /\ Cardinality(DOMAIN work.overlay) >= MaxMetadataEntries
      /\ v = "executed" =>
           \/ key \in DOMAIN work.overlay
           \/ ~(Cardinality(DOMAIN work.overlay) >= MaxMetadataEntries)
  BY <1>3 DEF MetadataVerdict
<1>5. e \in Entries(config)
  <2>1. v \in Verdicts
    BY <1>4 DEF Verdicts
  <2> HIDE DEF v
  <2> QED
    BY <1>1, <2>1, EntryType
<1> HIDE DEF v
<1>6. e.verdict = v /\ e.action = Intent /\ e.metadata = work.overlay
  BY DEF Entry
<1> HIDE DEF e
<1>7. grown \in Overlays(config) /\ IsFiniteSet(DOMAIN grown)
  <2> DEFINE Ks == {a[2] : a \in RuleActions(config, "metadata")}
             Vs == {a[3] : a \in RuleActions(config, "metadata")}
  <2>1. key \in Ks /\ Intent[3] \in Vs
    BY <1>2
  <2>2. PICK K \in SUBSET Ks : work.overlay \in [K -> Vs]
    BY DEF ShapeInv, Overlays
  <2>3. IsFiniteSet(DOMAIN work.overlay)
    BY DEF ShapeInv
  <2> HIDE DEF Ks, Vs
  <2>4. grown \in [K \cup {key} -> Vs]
    BY <2>1, <2>2
  <2>5. K \cup {key} \in SUBSET Ks
    BY <2>1, <2>2
  <2>6. grown \in Overlays(config)
    BY <2>4, <2>5 DEF Overlays, Ks, Vs
  <2>7. IsFiniteSet(DOMAIN work.overlay \cup {key})
    BY <2>3, FS_AddElement
  <2> QED
    BY <2>6, <2>7
<1>8. work'.overlay = IF v = "executed" THEN grown ELSE work.overlay
  BY <1>1 DEF ShapeInv, WorkFields
<1>9. /\ Enters(e) /\ work'.dropped = work.dropped
  <2>1. DOMAIN work = WorkFields
    BY DEF ShapeInv
  <2> HIDE DEF grown
  <2> QED
    BY <1>1, <1>6, <2>1 DEF Enters, WorkFields
<1>10. CountersFollow(e)
  BY <1>1, <1>6, NothingCounted DEF One
<1>11. OverlayFollows(e)
  BY <1>1, <1>4, <1>6, <1>8 DEF OverlayFollows
<1>12. ShapeInv'
  <2> HIDE DEF grown
  <2>1. work'.overlay \in Overlays(config) /\ IsFiniteSet(DOMAIN work'.overlay)
    BY <1>7, <1>8 DEF ShapeInv
  <2>2. config' = config
    BY <1>1
  <2> QED
    BY <1>1, <1>5, <1>9, <2>1, <2>2, EntersShape DEF ShapeInv
<1>13. Follows(e)
  BY <1>1, <1>4, <1>6, <1>9, <1>10, <1>11 DEF Follows, Unresolved
<1> QED
  BY <1>12, <1>13

-----------------------------------------------------------------------------
(* Counting the entries of a log, and the metadata it has set.             *)

\* How many items of a sequence are in a set.
Hits(s, T) == Cardinality({i \in DOMAIN s : s[i] \in T})

\* The places of a sequence are finitely many.
LEMMA HitsFinite ==
  ASSUME NEW S, NEW s \in Seq(S), NEW T
  PROVE  IsFiniteSet({i \in DOMAIN s : s[i] \in T}) /\ Hits(s, T) \in Nat
<1>1. Len(s) \in Nat /\ DOMAIN s = 1..Len(s)
  OBVIOUS
<1>2. IsFiniteSet(1..Len(s))
  <2>1. 1 \in Int /\ Len(s) \in Int
    BY <1>1
  <2> HIDE <1>1
  <2> QED
    BY <2>1, FS_Interval
<1> DEFINE H == {i \in DOMAIN s : s[i] \in T}
<1>3. H \in SUBSET (1..Len(s))
  BY <1>1
<1> HIDE DEF H
<1>4. IsFiniteSet(H)
  BY <1>2, <1>3, FS_Subset
<1>5. Cardinality(H) \in Nat
  BY <1>4, FS_CardinalityType
<1> QED
  BY <1>4, <1>5 DEF H, Hits

\* An item appended counts by itself.
LEMMA HitsAppend ==
  ASSUME NEW S, NEW s \in Seq(S), NEW e \in S, NEW T
  PROVE  Hits(Append(s, e), T) = Hits(s, T) + (IF e \in T THEN 1 ELSE 0)
<1> DEFINE n == Len(s)
           t == Append(s, e)
           H == {i \in DOMAIN s : s[i] \in T}
           G == {i \in DOMAIN t : t[i] \in T}
<1>1. /\ n \in Nat /\ DOMAIN s = 1..n /\ DOMAIN t = 1..(n + 1)
      /\ \A i \in 1..n : t[i] = s[i]
      /\ t[n + 1] = e
  OBVIOUS
<1>2. IsFiniteSet(H) /\ Hits(s, T) = Cardinality(H) /\ Hits(s, T) \in Nat
  BY HitsFinite DEF Hits
<1>3. Hits(t, T) = Cardinality(G)
  BY DEF Hits
<1>4. n + 1 \notin H
  BY <1>1
<1>5. CASE e \in T
  <2>1. G = H \cup {n + 1}
    BY <1>1, <1>5
  <2> HIDE DEF G, H, t
  <2>2. Cardinality(G) = Cardinality(H) + 1
    BY <1>2, <1>4, <2>1, FS_AddElement
  <2> QED
    BY <1>2, <1>3, <1>5, <2>2 DEF t
<1>6. CASE e \notin T
  <2>1. G = H
    BY <1>1, <1>6
  <2> HIDE DEF G, H, t
  <2> QED
    BY <1>2, <1>3, <1>6, <2>1 DEF t
<1> QED
  BY <1>5, <1>6

\* Two sequences count together as they count apart.
LEMMA HitsConcat ==
  ASSUME NEW S, NEW s \in Seq(S), NEW t \in Seq(S), NEW T
  PROVE  Hits(s \o t, T) = Hits(s, T) + Hits(t, T)
<1> DEFINE m == Len(s)
           n == Len(t)
           u == s \o t
           A == {i \in DOMAIN s : s[i] \in T}
           B == {i \in DOMAIN t : t[i] \in T}
           C == {i \in (m + 1)..(m + n) : u[i] \in T}
           f == [i \in B |-> i + m]
<1>1. /\ m \in Nat /\ n \in Nat /\ DOMAIN s = 1..m /\ DOMAIN t = 1..n
      /\ DOMAIN u = 1..(m + n)
      /\ \A i \in 1..m : u[i] = s[i]
      /\ \A i \in 1..n : u[i + m] = t[i]
  OBVIOUS
<1>2. /\ IsFiniteSet(A) /\ IsFiniteSet(B) /\ Cardinality(A) \in Nat /\ Cardinality(B) \in Nat
      /\ Hits(s, T) = Cardinality(A) /\ Hits(t, T) = Cardinality(B)
  BY HitsFinite DEF Hits
<1> HIDE DEF m, n, u
<1>3. f \in Bijection(B, C)
  <2>1. ASSUME NEW i \in B PROVE i + m \in C
    <3>1. i \in 1..n /\ t[i] \in T
      BY <1>1
    <3>2. i + m \in (m + 1)..(m + n)
      BY <1>1, <3>1
    <3>3. u[i + m] \in T
      BY <1>1, <3>1
    <3> QED
      BY <3>2, <3>3
  <2>2. f \in [B -> C]
    BY <2>1
  <2>3. \A a, b \in B : f[a] = f[b] => a = b
    BY <1>1
  <2>4. \A c \in C : \E a \in B : f[a] = c
    <3>1. SUFFICES ASSUME NEW c \in C PROVE c - m \in B /\ (c - m) + m = c
      OBVIOUS
    <3>2. c \in Int /\ m + 1 <= c /\ c <= m + n /\ u[c] \in T
      BY <1>1
    <3>3. c - m \in 1..n /\ (c - m) + m = c
      BY <1>1, <3>2
    <3>4. u[c] = t[c - m]
      BY <1>1, <3>3
    <3> QED
      BY <1>1, <3>2, <3>3, <3>4
  <2> QED
    BY <2>2, <2>3, <2>4 DEF Bijection, Injection, Surjection, IsInjective
<1>4. IsFiniteSet(C) /\ Cardinality(C) = Cardinality(B)
  <2> HIDE DEF B, C, f
  <2> QED
    BY <1>2, <1>3, FS_Bijection DEF ExistsBijection
<1>5. {i \in DOMAIN u : u[i] \in T} = A \cup C
  BY <1>1
<1>6. A \cap C = {}
  BY <1>1
<1>7. Hits(u, T) = Cardinality(A \cup C)
  BY <1>5 DEF Hits
<1> HIDE DEF A, B, C
<1>8. Cardinality(A \cup C) = Cardinality(A) + Cardinality(C) - 0
  <2>1. Cardinality(A \cup C) = Cardinality(A) + Cardinality(C) - Cardinality(A \cap C)
    BY <1>2, <1>4, FS_Union
  <2>2. Cardinality(A \cap C) = 0
    BY <1>6, FS_EmptySet
  <2> QED
    BY <2>1, <2>2
<1> QED
  BY <1>2, <1>4, <1>7, <1>8 DEF u

\* The entries Failures and Count look for.
Failing(c) == {e \in Entries(c) : e.verdict \notin {"executed", "skipped"}}
Such(c, kind, verdict) == {e \in Entries(c) : e.action[1] = kind /\ e.verdict = verdict}

\* Failures and Count are such counts.
LEMMA CountsAreHits ==
  ASSUME NEW c, NEW s \in Seq(Entries(c))
  PROVE  /\ Failures(s) = Hits(s, Failing(c))
         /\ \A kind, verdict : Count(s, kind, verdict) = Hits(s, Such(c, kind, verdict))
<1>1. \A i \in DOMAIN s : s[i] \in Entries(c)
  OBVIOUS
<1>2. {i \in DOMAIN s : s[i].verdict \notin {"executed", "skipped"}}
        = {i \in DOMAIN s : s[i] \in Failing(c)}
  BY <1>1 DEF Failing
<1>3. ASSUME NEW kind, NEW verdict
      PROVE  {i \in DOMAIN s : s[i].action[1] = kind /\ s[i].verdict = verdict}
               = {i \in DOMAIN s : s[i] \in Such(c, kind, verdict)}
  BY <1>1 DEF Such
<1>4. Failures(s) = Hits(s, Failing(c))
  BY <1>2 DEF Failures, Hits
<1>5. ASSUME NEW kind, NEW verdict
      PROVE  Count(s, kind, verdict) = Hits(s, Such(c, kind, verdict))
  BY <1>3 DEF Count, Hits
<1> QED
  BY <1>4, <1>5

\* An overlay in which a key is set.
WithKey(overlay, key, value) ==
  [k \in DOMAIN overlay \cup {key} |-> IF k = key THEN value ELSE overlay[k]]

\* An accepted metadata action sets its key.
LEMMA OverlaySet ==
  ASSUME NEW S, NEW s \in Seq(S), NEW e \in S,
         e.action[1] = "metadata", e.verdict = "executed"
  PROVE  OverlayOf(Append(s, e)) = WithKey(OverlayOf(s), e.action[2], e.action[3])
<1> DEFINE n == Len(s)
           t == Append(s, e)
           sets(q) == {i \in DOMAIN q : q[i].action[1] = "metadata" /\ q[i].verdict = "executed"}
           at(q, k) == {i \in sets(q) : q[i].action[2] = k}
           keys(q) == {q[i].action[2] : i \in sets(q)}
<1>1. /\ n \in Nat /\ DOMAIN s = 1..n /\ DOMAIN t = 1..(n + 1)
      /\ \A i \in 1..n : t[i] = s[i]
      /\ t[n + 1] = e
  OBVIOUS
<1>2. \A q : OverlayOf(q) = [k \in keys(q) |-> q[Max(at(q, k))].action[3]]
  BY DEF OverlayOf
<1> HIDE DEF n, t
<1>3. sets(t) = sets(s) \cup {n + 1} /\ sets(s) \subseteq 1..n
  BY <1>1
<1>4. keys(t) = keys(s) \cup {e.action[2]}
  <2>1. \A i \in sets(s) : t[i] = s[i]
    BY <1>1, <1>3
  <2> HIDE DEF sets
  <2> QED
    BY <1>1, <1>3, <2>1
<1>5. ASSUME NEW k, k # e.action[2]
      PROVE  at(t, k) = at(s, k)
  BY <1>1, <1>3, <1>5
<1>6. Max(at(t, e.action[2])) = n + 1
  <2>1. n + 1 \in at(t, e.action[2]) /\ \A i \in at(t, e.action[2]) : i \in Int /\ i <= n + 1
    BY <1>1, <1>3
  <2> HIDE DEF at
  <2>2. \A x \in at(t, e.action[2]) :
          (\A y \in at(t, e.action[2]) : x >= y) <=> x = n + 1
    BY <1>1, <2>1
  <2> QED
    BY <2>1, <2>2 DEF Max
<1>7. ASSUME NEW k \in keys(s), k # e.action[2]
      PROVE  t[Max(at(t, k))].action[3] = s[Max(at(s, k))].action[3]
  <2>1. at(s, k) \in SUBSET Nat /\ at(s, k) \subseteq 1..n
    BY <1>1, <1>3
  <2>2. at(s, k) # {}
    OBVIOUS
  <2>3. Max(at(s, k)) \in at(s, k)
    <3> HIDE DEF at
    <3> QED
      BY <1>1, <2>1, <2>2, MaxIsGreatest
  <2>4. Max(at(t, k)) = Max(at(s, k))
    <3>1. at(t, k) = at(s, k)
      BY <1>5, <1>7
    <3> HIDE DEF at
    <3> QED
      BY <3>1
  <2> HIDE DEF at
  <2> QED
    BY <1>1, <2>1, <2>3, <2>4
<1> HIDE DEF at, keys
<1>8. OverlayOf(t) = [k \in keys(s) \cup {e.action[2]} |-> t[Max(at(t, k))].action[3]]
  BY <1>2, <1>4
<1>9. DOMAIN OverlayOf(s) = keys(s)
      /\ \A k \in keys(s) : OverlayOf(s)[k] = s[Max(at(s, k))].action[3]
  BY <1>2
<1>10. \A k \in keys(s) \cup {e.action[2]} :
         t[Max(at(t, k))].action[3] =
           IF k = e.action[2] THEN e.action[3] ELSE OverlayOf(s)[k]
  BY <1>1, <1>6, <1>7, <1>9
<1> QED
  BY <1>8, <1>9, <1>10, ZenonT(40) DEF t, WithKey

\* Any other entry sets none.
LEMMA OverlayKept ==
  ASSUME NEW S, NEW s \in Seq(S), NEW e \in S,
         ~(e.action[1] = "metadata" /\ e.verdict = "executed")
  PROVE  OverlayOf(Append(s, e)) = OverlayOf(s)
<1> DEFINE n == Len(s)
           t == Append(s, e)
           sets(q) == {i \in DOMAIN q : q[i].action[1] = "metadata" /\ q[i].verdict = "executed"}
           at(q, k) == {i \in sets(q) : q[i].action[2] = k}
           keys(q) == {q[i].action[2] : i \in sets(q)}
<1>1. /\ n \in Nat /\ DOMAIN s = 1..n /\ DOMAIN t = 1..(n + 1)
      /\ \A i \in 1..n : t[i] = s[i]
      /\ t[n + 1] = e
  OBVIOUS
<1>2. \A q : OverlayOf(q) = [k \in keys(q) |-> q[Max(at(q, k))].action[3]]
  BY DEF OverlayOf
<1> HIDE DEF n, t
<1>3. sets(t) = sets(s) /\ sets(s) \subseteq 1..n
  BY <1>1
<1>4. \A i \in sets(s) : t[i] = s[i]
  BY <1>1, <1>3
<1>5. keys(t) = keys(s)
  <2> HIDE DEF sets
  <2> QED
    BY <1>3, <1>4
<1>6. ASSUME NEW k PROVE at(t, k) = at(s, k)
  <2> HIDE DEF sets
  <2> QED
    BY <1>3, <1>4
<1>7. ASSUME NEW k \in keys(s)
      PROVE  t[Max(at(t, k))].action[3] = s[Max(at(s, k))].action[3]
  <2>1. at(s, k) \in SUBSET Nat /\ at(s, k) \subseteq 1..n /\ at(s, k) # {}
    BY <1>1, <1>3
  <2>2. at(t, k) = at(s, k)
    BY <1>6
  <2> HIDE DEF at
  <2>3. Max(at(s, k)) \in at(s, k)
    BY <1>1, <2>1, MaxIsGreatest
  <2> QED
    BY <1>1, <2>1, <2>2, <2>3
<1> HIDE DEF at, keys
<1> QED
  BY <1>2, <1>5, <1>7 DEF t

-----------------------------------------------------------------------------
(* The accounts of a dispatch.                                             *)

\* The part of DispatchAccounts about the log of one dispatch.
LogOk(s) ==
  \A i \in DOMAIN s :
    /\ s[i].metadata = OverlayOf(SubSeq(s, 1, i - 1))
    /\ s[i].verdict = "TooManyMetadataEntries" =>
         /\ Cardinality(DOMAIN s[i].metadata) = MaxMetadataEntries
         /\ s[i].action[2] \notin DOMAIN s[i].metadata
    /\ s[i].verdict = "skipped" <=>
         \E j \in 1..(i - 1) : s[j].action[1] = "drop"

\* The part about the statistics.
Ahead == IF work.busy THEN Len(work.intents) - Len(log) ELSE 0
Over == IF work.busy THEN history ELSE history \o log
StatsOk ==
  /\ stats.intents = Len(history \o log) + lost + Ahead
  /\ stats.failed = Failures(Over)
  /\ stats.published + stats.noReceiver = Count(history \o log, "stream", "executed")
  /\ stats.queued = Count(history \o log, "command", "executed")
  /\ stats.full + stats.unavailable =
       Count(history \o log, "command", "CommandQueueBackpressure")
         + Count(history \o log, "command", "CommandQueueUnavailable")

\* DispatchAccounts is these parts.
LEMMA AccountsForm ==
  DispatchAccounts <=> /\ LogOk(log) /\ (work.busy => Len(log) = work.next - 1)
                       /\ StatsOk
BY DEF DispatchAccounts, LogOk, StatsOk, Ahead, Over

\* The beginnings of a sequence that was appended to.
LEMMA AppendBegins ==
  ASSUME NEW S, NEW s \in Seq(S), NEW e \in S
  PROVE  /\ SubSeq(Append(s, e), 1, Len(s)) = s
         /\ \A i \in 1..Len(s) : SubSeq(Append(s, e), 1, i - 1) = SubSeq(s, 1, i - 1)
<1> DEFINE n == Len(s)
           t == Append(s, e)
<1>1. /\ n \in Nat /\ s = [i \in 1..n |-> s[i]] /\ t \in Seq(S) /\ Len(t) = n + 1
      /\ \A i \in 1..n : t[i] = s[i]
  OBVIOUS
<1>2. \A q \in Seq(S), m \in Nat : SubSeq(q, 1, m) = [i \in 1..m |-> q[i]]
  <2>1. SUFFICES ASSUME NEW q \in Seq(S), NEW m \in Nat
                 PROVE  SubSeq(q, 1, m) = [i \in 1..m |-> q[i]]
    OBVIOUS
  <2>2. SubSeq(q, 1, m) = [i \in 1..(1 + m - 1) |-> q[i + 1 - 1]]
    OBVIOUS
  <2>3. 1 + m - 1 = m /\ \A i \in 1..m : i + 1 - 1 = i
    OBVIOUS
  <2> QED
    BY <2>2, <2>3
<1> HIDE DEF n, t
<1>3. SubSeq(t, 1, n) = s
  BY <1>1, <1>2
<1>4. ASSUME NEW i \in 1..n PROVE SubSeq(t, 1, i - 1) = SubSeq(s, 1, i - 1)
  <2>1. i - 1 \in Nat /\ \A j \in 1..(i - 1) : j \in 1..n
    BY <1>1
  <2> QED
    BY <1>1, <1>2, <2>1
<1> QED
  BY <1>3, <1>4 DEF n, t

\* One more entry.
LEMMA LogOkAppend ==
  ASSUME NEW S, NEW s \in Seq(S), NEW e \in S, LogOk(s),
         e.metadata = OverlayOf(s),
         e.verdict = "TooManyMetadataEntries" =>
           /\ Cardinality(DOMAIN e.metadata) = MaxMetadataEntries
           /\ e.action[2] \notin DOMAIN e.metadata,
         e.verdict = "skipped" <=> \E j \in DOMAIN s : s[j].action[1] = "drop"
  PROVE  LogOk(Append(s, e))
<1> DEFINE n == Len(s)
           t == Append(s, e)
<1>1. /\ n \in Nat /\ DOMAIN s = 1..n /\ DOMAIN t = 1..(n + 1)
      /\ \A i \in 1..n : t[i] = s[i]
      /\ t[n + 1] = e
  OBVIOUS
<1>2. /\ SubSeq(t, 1, n) = s
      /\ \A i \in 1..n : SubSeq(t, 1, i - 1) = SubSeq(s, 1, i - 1)
  BY AppendBegins
<1> HIDE DEF n, t
<1>3. ASSUME NEW i \in DOMAIN t
      PROVE  /\ t[i].metadata = OverlayOf(SubSeq(t, 1, i - 1))
             /\ t[i].verdict = "TooManyMetadataEntries" =>
                  /\ Cardinality(DOMAIN t[i].metadata) = MaxMetadataEntries
                  /\ t[i].action[2] \notin DOMAIN t[i].metadata
             /\ t[i].verdict = "skipped" <=>
                  \E j \in 1..(i - 1) : t[j].action[1] = "drop"
  <2>1. CASE i = n + 1
    <3>1. i - 1 = n /\ t[i] = e /\ SubSeq(t, 1, i - 1) = s
      BY <1>1, <1>2, <2>1
    <3>2. (\E j \in 1..(i - 1) : t[j].action[1] = "drop")
             <=> (\E j \in DOMAIN s : s[j].action[1] = "drop")
      BY <1>1, <3>1
    <3> QED
      BY <3>1, <3>2
  <2>2. CASE i # n + 1
    <3>1. i \in 1..n /\ t[i] = s[i] /\ \A j \in 1..(i - 1) : t[j] = s[j]
      BY <1>1, <2>2
    <3>2. SubSeq(t, 1, i - 1) = SubSeq(s, 1, i - 1)
      BY <1>2, <3>1
    <3>3. /\ s[i].metadata = OverlayOf(SubSeq(s, 1, i - 1))
          /\ s[i].verdict = "TooManyMetadataEntries" =>
               /\ Cardinality(DOMAIN s[i].metadata) = MaxMetadataEntries
               /\ s[i].action[2] \notin DOMAIN s[i].metadata
          /\ s[i].verdict = "skipped" <=>
               \E j \in 1..(i - 1) : s[j].action[1] = "drop"
      BY <1>1, <3>1 DEF LogOk
    <3> QED
      BY <3>1, <3>2, <3>3
  <2> QED
    BY <2>1, <2>2
<1> QED
  BY <1>3 DEF LogOk, t

\* Appending to the second of two sequences.
LEMMA ConcatAppend ==
  ASSUME NEW S, NEW s \in Seq(S), NEW t \in Seq(S), NEW e \in S
  PROVE  /\ s \o Append(t, e) = Append(s \o t, e)
         /\ s \o t \in Seq(S) /\ Len(s \o t) = Len(s) + Len(t)
         /\ Len(s \o Append(t, e)) = Len(s \o t) + 1
<1> DEFINE u == s \o Append(t, e)
           w == Append(s \o t, e)
<1>1. /\ Len(s) \in Nat /\ Len(t) \in Nat /\ s \o t \in Seq(S)
      /\ Len(s \o t) = Len(s) + Len(t)
      /\ u \in Seq(S) /\ w \in Seq(S)
      /\ Len(u) = Len(s) + (Len(t) + 1) /\ Len(w) = Len(s) + Len(t) + 1
  OBVIOUS
<1>2. u = w
  <2>1. Len(u) = Len(w)
    BY <1>1
  <2>2. ASSUME NEW i \in 1..Len(u) PROVE u[i] = w[i]
    OBVIOUS
  <2> HIDE DEF u, w
  <2> QED
    BY <1>1, <2>1, <2>2
<1> QED
  BY <1>1, <1>2

\* What an entry adds to a count.
LEMMA CountEntry ==
  ASSUME NEW c, NEW s \in Seq(Entries(c)), NEW e \in Entries(c), NEW kind, NEW verdict
  PROVE  /\ Count(s, kind, verdict) \in Nat
         /\ Count(Append(s, e), kind, verdict) = Count(s, kind, verdict) + One(e, kind, {verdict})
<1>1. Append(s, e) \in Seq(Entries(c))
  OBVIOUS
<1>2. /\ Count(s, kind, verdict) = Hits(s, Such(c, kind, verdict))
      /\ Count(Append(s, e), kind, verdict) = Hits(Append(s, e), Such(c, kind, verdict))
  BY <1>1, CountsAreHits
<1>3. One(e, kind, {verdict}) = IF e \in Such(c, kind, verdict) THEN 1 ELSE 0
  BY DEF One, Such
<1> DEFINE T == Such(c, kind, verdict)
<1> HIDE DEF T
<1>4. Hits(s, T) \in Nat
  BY HitsFinite
<1>5. Hits(Append(s, e), T) = Hits(s, T) + (IF e \in T THEN 1 ELSE 0)
  BY HitsAppend
<1> QED
  BY <1>2, <1>3, <1>4, <1>5 DEF T

\* The statistics follow the log.
LEMMA FollowsStats ==
  ASSUME ShapeInv, ShapeInv', StatsOk, NEW e \in Entries(config), Follows(e)
  PROVE  StatsOk'
<1> DEFINE all == history \o log
<1>1. /\ work.busy /\ work'.busy /\ log' = Append(log, e) /\ history' = history
      /\ work'.intents = work.intents /\ lost' = lost /\ CountersFollow(e)
  <2>1. Enters(e) /\ CountersFollow(e)
    BY DEF Follows
  <2> QED
    BY <2>1 DEF Enters
<1>2. history \in Seq(Entries(config)) /\ log \in Seq(Entries(config)) /\ lost \in Nat
      /\ Len(work.intents) \in Nat
  BY DEF ShapeInv
<1>3. /\ (history \o log)' = Append(all, e) /\ all \in Seq(Entries(config))
      /\ Len((history \o log)') = Len(all) + 1
  BY <1>1, <1>2, ConcatAppend
<1>4. Len(all) \in Nat /\ Len(log) \in Nat /\ Len(log') = Len(log) + 1
  BY <1>1, <1>2, <1>3
<1> HIDE DEF all
<1>5. /\ stats.intents = Len(all) + lost + (Len(work.intents) - Len(log))
      /\ stats.failed = Failures(history)
      /\ stats.published + stats.noReceiver = Count(all, "stream", "executed")
      /\ stats.queued = Count(all, "command", "executed")
      /\ stats.full + stats.unavailable =
           Count(all, "command", "CommandQueueBackpressure")
             + Count(all, "command", "CommandQueueUnavailable")
  BY <1>1 DEF StatsOk, Ahead, Over, all
<1>6. stats'.intents = Len((history \o log)') + lost' + Ahead'
  <2>1. Ahead' = Len(work.intents) - (Len(log) + 1)
    BY <1>1, <1>4 DEF Ahead
  <2>2. stats'.intents = stats.intents
    BY <1>1 DEF CountersFollow
  <2> DEFINE a == Len(all)
             n == Len(log)
             k == Len(work.intents)
  <2>3. /\ a \in Nat /\ n \in Nat /\ k \in Nat /\ lost \in Nat
        /\ stats'.intents = a + lost + (k - n)
    BY <1>2, <1>4, <1>5, <2>2
  <2>4. Len((history \o log)') = a + 1 /\ lost' = lost /\ Ahead' = k - (n + 1)
    BY <1>1, <1>3, <2>1
  <2> HIDE DEF a, n, k
  <2> QED
    BY <2>3, <2>4
<1>7. stats'.failed = Failures(Over)'
  <2>1. Over' = history
    BY <1>1 DEF Over
  <2>2. stats'.failed = stats.failed
    BY <1>1 DEF CountersFollow
  <2>3. Failures(Over)' = Failures(history)
    BY <2>1 DEF Failures
  <2> QED
    BY <1>5, <2>2, <2>3
<1>8. ASSUME NEW CONSTANT kind, NEW CONSTANT verdict
      PROVE  /\ Count(all, kind, verdict) \in Nat
             /\ Count(history \o log, kind, verdict)' =
                  Count(all, kind, verdict) + One(e, kind, {verdict})
  <2>1. Count(history \o log, kind, verdict)' = Count(Append(all, e), kind, verdict)
    BY <1>3 DEF Count
  <2> QED
    BY <1>3, <2>1, CountEntry
<1>9. stats'.published + stats'.noReceiver = Count(history \o log, "stream", "executed")'
  BY <1>1, <1>5, <1>8 DEF CountersFollow
<1>10. stats'.queued = Count(history \o log, "command", "executed")'
  BY <1>1, <1>5, <1>8 DEF CountersFollow
<1>11. stats'.full + stats'.unavailable =
         Count(history \o log, "command", "CommandQueueBackpressure")'
           + Count(history \o log, "command", "CommandQueueUnavailable")'
  <2>1. One(e, "command", Refused) =
          One(e, "command", {"CommandQueueBackpressure"})
            + One(e, "command", {"CommandQueueUnavailable"})
    BY DEF One, Refused
  <2>2. /\ One(e, "command", {"CommandQueueBackpressure"}) \in Nat
        /\ One(e, "command", {"CommandQueueUnavailable"}) \in Nat
    BY DEF One
  <2>3. stats'.full + stats'.unavailable =
          stats.full + stats.unavailable + One(e, "command", Refused)
    BY <1>1 DEF CountersFollow
  <2> DEFINE a == Count(all, "command", "CommandQueueBackpressure")
             b == Count(all, "command", "CommandQueueUnavailable")
  <2>4. /\ a \in Nat /\ b \in Nat /\ stats.full + stats.unavailable = a + b
        /\ Count(history \o log, "command", "CommandQueueBackpressure")' =
             a + One(e, "command", {"CommandQueueBackpressure"})
        /\ Count(history \o log, "command", "CommandQueueUnavailable")' =
             b + One(e, "command", {"CommandQueueUnavailable"})
    BY <1>5, <1>8
  <2> HIDE DEF a, b
  <2> QED
    BY <2>1, <2>2, <2>3, <2>4
<1> QED
  BY <1>6, <1>7, <1>9, <1>10, <1>11 DEF StatsOk

\* A dispatched intent keeps the accounts, and its references resolve.
LEMMA FollowsKeeps ==
  ASSUME ShapeInv, ShapeInv', ProgressInv, DispatchAccounts, ReferencesResolve,
         NEW e, Follows(e)
  PROVE  ProgressInv' /\ DispatchAccounts' /\ ReferencesResolve'
<1>1. /\ work.busy /\ log' = Append(log, e) /\ e.metadata = work.overlay
      /\ work'.busy /\ work'.next = work.next + 1
      /\ config' = config /\ processed' = processed
  BY DEF Follows, Enters
<1>2. log \in Seq(Entries(config)) /\ log' \in Seq(Entries(config))
  BY <1>1 DEF ShapeInv
<1>3. /\ Len(log) \in Nat /\ Len(log') = Len(log) + 1 /\ log'[Len(log) + 1] = e
      /\ DOMAIN log = 1..Len(log) /\ DOMAIN log' = 1..(Len(log) + 1)
      /\ \A i \in 1..Len(log) : log'[i] = log[i]
  BY <1>1, <1>2
<1>4. e \in Entries(config)
  BY <1>2, <1>3
<1>5. LogOk(log) /\ Len(log) = work.next - 1 /\ StatsOk
  BY <1>1, AccountsForm
<1>6. /\ work.overlay = OverlayOf(log)
      /\ Cardinality(DOMAIN work.overlay) <= MaxMetadataEntries
      /\ work.dropped <=> \E i \in DOMAIN log : log[i].action[1] = "drop"
  BY <1>1 DEF ProgressInv
<1>7. /\ OverlayFollows(e) /\ e.verdict \notin Unresolved
      /\ (e.verdict = "skipped") <=> work.dropped
      /\ work'.dropped <=> (work.dropped \/ e.action[1] = "drop")
  BY DEF Follows
<1>8. IsFiniteSet(DOMAIN work.overlay) /\ Cardinality(DOMAIN work.overlay) \in Nat
      /\ MaxMetadataEntries \in Nat
  BY PipelineAssumption, FS_CardinalityType DEF ShapeInv
<1>9. ProgressInv'
  <2>1. work'.overlay = OverlayOf(log)'
    <3>1. OverlayOf(log)' = OverlayOf(Append(log, e))
      BY <1>1 DEF OverlayOf
    <3>2. CASE e.action[1] = "metadata" /\ e.verdict = "executed"
      <4>1. work'.overlay = WithKey(work.overlay, e.action[2], e.action[3])
        BY <1>7, <3>2 DEF OverlayFollows, WithKey
      <4>2. OverlayOf(Append(log, e)) = WithKey(OverlayOf(log), e.action[2], e.action[3])
        BY <1>2, <1>4, <3>2, OverlaySet
      <4> QED
        BY <1>6, <3>1, <4>1, <4>2
    <3>3. CASE ~(e.action[1] = "metadata" /\ e.verdict = "executed")
      <4>1. work'.overlay = work.overlay
        BY <1>7, <3>3 DEF OverlayFollows
      <4>2. OverlayOf(Append(log, e)) = OverlayOf(log)
        BY <1>2, <1>4, <3>3, OverlayKept
      <4> QED
        BY <1>6, <3>1, <4>1, <4>2
    <3> QED
      BY <3>2, <3>3
  <2>2. Cardinality(DOMAIN work'.overlay) <= MaxMetadataEntries
    <3>1. CASE e.action[1] = "metadata" /\ e.verdict = "executed"
      <4>1. /\ DOMAIN work'.overlay = DOMAIN work.overlay \cup {e.action[2]}
            /\ \/ e.action[2] \in DOMAIN work.overlay
               \/ ~(Cardinality(DOMAIN work.overlay) >= MaxMetadataEntries)
        BY <1>7, <3>1 DEF OverlayFollows
      <4>2. Cardinality(DOMAIN work.overlay \cup {e.action[2]}) =
              IF e.action[2] \in DOMAIN work.overlay THEN Cardinality(DOMAIN work.overlay)
              ELSE Cardinality(DOMAIN work.overlay) + 1
        BY <1>8, FS_AddElement
      <4> QED
        BY <1>6, <1>8, <4>1, <4>2
    <3>2. CASE ~(e.action[1] = "metadata" /\ e.verdict = "executed")
      BY <1>6, <1>7, <3>2 DEF OverlayFollows
    <3> QED
      BY <3>1, <3>2
  <2>3. work'.dropped <=> \E i \in DOMAIN log' : log'[i].action[1] = "drop"
    <3>1. (\E i \in DOMAIN log' : log'[i].action[1] = "drop")
            <=> (\E i \in DOMAIN log : log[i].action[1] = "drop") \/ e.action[1] = "drop"
      BY <1>3
    <3> QED
      BY <1>6, <1>7, <3>1
  <2> QED
    BY <2>1, <2>2, <2>3 DEF ProgressInv
<1>10. LogOk(log)'
  <2>1. e.verdict = "TooManyMetadataEntries" =>
          /\ Cardinality(DOMAIN e.metadata) = MaxMetadataEntries
          /\ e.action[2] \notin DOMAIN e.metadata
    BY <1>1, <1>6, <1>7, <1>8 DEF OverlayFollows
  <2>2. LogOk(Append(log, e))
    BY <1>1, <1>2, <1>4, <1>5, <1>6, <1>7, <2>1, LogOkAppend
  <2> QED
    BY <1>1, <2>2 DEF LogOk
<1>11. Len(log') = work'.next - 1
  <2>1. work.next \in Nat
    BY DEF ShapeInv
  <2> QED
    BY <1>1, <1>3, <1>5, <2>1
<1>12. StatsOk'
  BY <1>4, <1>5, FollowsStats
<1>13. DispatchAccounts'
  <2>1. (DispatchAccounts <=> /\ LogOk(log) /\ (work.busy => Len(log) = work.next - 1)
                              /\ StatsOk)'
    BY AccountsForm, PTL
  <2> QED
    BY <1>10, <1>11, <1>12, <2>1
<1>14. ReferencesResolve'
  BY <1>1, <1>3, <1>7 DEF ReferencesResolve, Unresolved
<1> QED
  BY <1>9, <1>13, <1>14

-----------------------------------------------------------------------------
(* The steps before and after a dispatch.                                  *)

\* A dispatch starts with an empty log.
LEMMA EmptyLog ==
  ASSUME NEW c
  PROVE  /\ OverlayOf(<<>>) = <<>> /\ LogOk(<<>>) /\ Failures(<<>>) = 0
         /\ \A kind, verdict : Count(<<>>, kind, verdict) = 0
         /\ <<>> \in Overlays(c) /\ DOMAIN <<>> = {}
         /\ IsFiniteSet(DOMAIN <<>>) /\ Cardinality(DOMAIN <<>>) = 0
<1>1. DOMAIN <<>> = {}
  OBVIOUS
<1>2. OverlayOf(<<>>) = <<>>
  <2>1. DOMAIN OverlayOf(<<>>) = {}
    BY <1>1 DEF OverlayOf
  <2>2. OverlayOf(<<>>) = [k \in {} |-> OverlayOf(<<>>)[k]]
    BY <2>1 DEF OverlayOf
  <2> QED
    BY <2>2
<1>3. LogOk(<<>>)
  BY <1>1 DEF LogOk
<1>4. Cardinality({}) = 0 /\ IsFiniteSet({})
  BY FS_EmptySet
<1>5. Failures(<<>>) = 0
  BY <1>1, <1>4 DEF Failures
<1>6. ASSUME NEW kind, NEW verdict PROVE Count(<<>>, kind, verdict) = 0
  BY <1>1, <1>4 DEF Count
<1>7. <<>> \in Overlays(c)
  <2> DEFINE V == {a[3] : a \in RuleActions(c, "metadata")}
             K == {a[2] : a \in RuleActions(c, "metadata")}
  <2>1. Overlays(c) = UNION {[X -> V] : X \in SUBSET K}
    BY DEF Overlays
  <2> HIDE DEF V, K
  <2>2. <<>> \in [{} -> V] /\ {} \in SUBSET K
    OBVIOUS
  <2> QED
    BY <2>1, <2>2
<1> QED
  BY <1>1, <1>2, <1>3, <1>4, <1>5, <1>6, <1>7

\* Nothing more than the empty log is appended.
LEMMA ConcatEmpty ==
  ASSUME NEW S, NEW s \in Seq(S)
  PROVE  s \o <<>> = s
OBVIOUS

\* The initial states.
LEMMA InitInv == Init => IInv
<1> SUFFICES ASSUME Init PROVE IInv
  OBVIOUS
<1> USE DEF Init
<1>1. GateInv
  BY DEF GateInv, StartRefusals
<1>2. ShapeInv
  <2>1. DOMAIN work = WorkFields /\ work.busy \in BOOLEAN /\ work.dropped \in BOOLEAN
        /\ work.intents = <<>> /\ work.next = 1 /\ work.overlay = <<>>
    BY DEF NoWork, WorkFields
  <2>2. stats \in [Counters -> Nat]
    BY DEF NoStats, Counters
  <2>3. ~work.busy
    BY DEF NoWork
  <2>4. work.next \in 1..(Len(work.intents) + 1)
    BY <2>1
  <2> QED
    BY <2>1, <2>2, <2>3, <2>4, EmptyLog DEF ShapeInv
<1>3. ~work.busy
  BY DEF NoWork
<1>4. ProgressInv
  BY <1>3 DEF ProgressInv
<1>5. ReferencesResolve
  BY DEF ReferencesResolve, Nothing
<1>6. StatsOk
  <2>1. history \o log = <<>> /\ Over = <<>> /\ Ahead = 0 /\ lost = 0 /\ Len(<<>>) = 0
    BY <1>3 DEF Over, Ahead
  <2>2. /\ stats.intents = 0 /\ stats.failed = 0 /\ stats.published = 0 /\ stats.noReceiver = 0
        /\ stats.queued = 0 /\ stats.full = 0 /\ stats.unavailable = 0
    BY DEF NoStats
  <2> QED
    BY <2>1, <2>2, EmptyLog DEF StatsOk
<1>7. DispatchAccounts
  BY <1>3, <1>6, EmptyLog, AccountsForm
<1> QED
  BY <1>1, <1>2, <1>4, <1>5, <1>7 DEF IInv

\* The number of rules that match.
LEMMA MatchedType ==
  ASSUME NEW c \in Configs, NEW event
  PROVE  Evaluate(c.rules, event).matched \in Nat
<1> DEFINE verdict(rule) ==
             IF ~TriggerMatches(rule.trigger, event) THEN "false"
             ELSE IF rule.condition = Absent THEN "true"
             ELSE EvaluateCondition(rule.condition, event)
           matched == {i \in Enabled(c.rules) : verdict(c.rules[i]) = "true"}
<1>1. Evaluate(c.rules, event).matched = Cardinality(matched)
  BY DEF Evaluate
<1>2. matched \subseteq DOMAIN c.rules
  BY DEF Enabled
<1> HIDE DEF matched
<1>3. c.rules \in Seq(ToSet(c.rules))
  BY ConfigsAssumption
<1>4. Len(c.rules) \in Nat /\ DOMAIN c.rules = 1..Len(c.rules)
  BY <1>3
<1>5. IsFiniteSet(1..Len(c.rules))
  BY <1>4, FS_Interval
<1>6. IsFiniteSet(matched)
  BY <1>2, <1>4, <1>5, FS_Subset
<1> QED
  BY <1>1, <1>6, FS_CardinalityType

\* What a message adds before its first intent: d intents, which are dispatched
\* or lost, and nothing else that the accounts are about.
Brings(d) ==
  /\ ~work.busy
  /\ history' = history \o log /\ log' = <<>>
  /\ stats' \in [Counters -> Nat]
  /\ stats'.intents = stats.intents + d
  /\ \A k \in Counters \ {"normalized", "matched", "intents"} : stats'[k] = stats[k]
  /\ \/ work' = work /\ lost' = lost + d
     \/ /\ DOMAIN work' = WorkFields /\ work'.busy /\ ~work'.dropped
        /\ work'.busy \in BOOLEAN /\ work'.dropped \in BOOLEAN
        /\ work'.intents \in Seq(Actions(config)) /\ Len(work'.intents) = d
        /\ work'.next = 1 /\ work'.overlay = <<>> /\ lost' = lost
  /\ phase = "running"
  /\ UNCHANGED <<config, phase, commands, processed>>

\* A message does that.
LEMMA ReceiveBrings ==
  ASSUME IInv, NEW broker, NEW message, Receive(broker, message)
  PROVE  \E d \in Nat : Brings(d)
<1> DEFINE routed == NormalizeRouted(broker, message)
           evaluation == Evaluate(config.rules, routed.event)
           count == Len(evaluation.intents)
<1>1. config \in Configs /\ ShapeInv
  BY DEF IInv, GateInv
<1>2. evaluation.intents \in Seq(Actions(config)) /\ evaluation.matched \in Nat
  BY <1>1, IntentsType, MatchedType
<1>3. count \in Nat
  BY <1>2
<1>4. /\ ~work.busy /\ phase = "running"
      /\ history' = history \o log /\ log' = <<>>
      /\ UNCHANGED <<config, phase, commands, processed>>
  BY DEF Receive
<1>5. \/ ~routed.ok /\ UNCHANGED <<work, lost, stats>>
      \/ stats' = [stats EXCEPT !.normalized = @ + 1] /\ UNCHANGED <<work, lost>>
      \/ /\ stats' = [stats EXCEPT !.normalized = @ + 1,
                                   !.matched = @ + evaluation.matched,
                                   !.intents = @ + count]
         /\ \/ lost' = lost + count /\ UNCHANGED work
            \/ /\ work' = [NoWork EXCEPT !.busy = TRUE, !.event = routed.event,
                                         !.intents = evaluation.intents]
               /\ UNCHANGED lost
  BY DEF Receive
<1>6. stats \in [Counters -> Nat] /\ lost \in Nat
  BY <1>1 DEF ShapeInv
<1> HIDE DEF routed, evaluation
<1>7. CASE UNCHANGED <<work, lost, stats>>
  <2>1. Brings(0)
    BY <1>4, <1>6, <1>7 DEF Brings, Counters
  <2> QED
    BY <2>1
<1>8. CASE stats' = [stats EXCEPT !.normalized = @ + 1] /\ UNCHANGED <<work, lost>>
  <2>1. /\ stats' \in [Counters -> Nat] /\ stats'.intents = stats.intents + 0
        /\ \A k \in Counters \ {"normalized", "matched", "intents"} : stats'[k] = stats[k]
    BY <1>6, <1>8 DEF Counters
  <2>2. Brings(0)
    BY <1>4, <1>6, <1>8, <2>1 DEF Brings
  <2> QED
    BY <2>2
<1>9. CASE /\ stats' = [stats EXCEPT !.normalized = @ + 1,
                                     !.matched = @ + evaluation.matched,
                                     !.intents = @ + count]
           /\ \/ lost' = lost + count /\ UNCHANGED work
              \/ /\ work' = [NoWork EXCEPT !.busy = TRUE, !.event = routed.event,
                                           !.intents = evaluation.intents]
                 /\ UNCHANGED lost
  <2> HIDE DEF count
  <2>1. /\ stats' \in [Counters -> Nat] /\ stats'.intents = stats.intents + count
        /\ \A k \in Counters \ {"normalized", "matched", "intents"} : stats'[k] = stats[k]
    <3> DEFINE a == evaluation.matched
    <3>1. /\ a \in Nat /\ count \in Nat
          /\ stats.normalized \in Nat /\ stats.matched \in Nat /\ stats.intents \in Nat
          /\ stats' = [stats EXCEPT !.normalized = @ + 1, !.matched = @ + a,
                                    !.intents = @ + count]
      BY <1>1, <1>2, <1>3, <1>9, StatsType
    <3> HIDE DEF a
    <3>2. /\ stats' = [k \in Counters |->
                         IF k = "normalized" THEN stats[k] + 1
                         ELSE IF k = "matched" THEN stats[k] + a
                         ELSE IF k = "intents" THEN stats[k] + count ELSE stats[k]]
      BY <1>6, <3>1 DEF Counters
    <3>3. {"normalized", "matched", "intents"} \subseteq Counters
      BY DEF Counters
    <3> HIDE DEF count
    <3> QED
      BY <1>6, <3>1, <3>2, <3>3
  <2>2. CASE lost' = lost + count /\ UNCHANGED work
    BY <1>3, <1>4, <2>1, <2>2 DEF Brings
  <2>3. CASE /\ work' = [NoWork EXCEPT !.busy = TRUE, !.event = routed.event,
                                       !.intents = evaluation.intents]
             /\ UNCHANGED lost
    <3>1. /\ DOMAIN work' = WorkFields /\ work'.busy /\ ~work'.dropped
          /\ work'.busy \in BOOLEAN /\ work'.dropped \in BOOLEAN
          /\ work'.intents = evaluation.intents
          /\ work'.next = 1 /\ work'.overlay = <<>>
      BY <2>3 DEF NoWork, WorkFields
    <3>2. Len(work'.intents) = count
      BY <3>1 DEF count
    <3>3. Brings(count)
      BY <1>2, <1>4, <2>1, <2>3, <3>1, <3>2 DEF Brings
    <3> QED
      BY <1>3, <3>3
  <2> QED
    BY <1>9, <2>2, <2>3
<1> QED
  BY <1>5, <1>7, <1>8, <1>9

\* And that keeps the invariant.
LEMMA BringsKeeps ==
  ASSUME IInv, NEW d \in Nat, Brings(d)
  PROVE  ShapeInv' /\ ProgressInv' /\ ReferencesResolve' /\ DispatchAccounts'
<1> DEFINE all == history \o log
<1>1. /\ ShapeInv /\ StatsOk /\ ReferencesResolve
  BY AccountsForm DEF IInv
<1>2. /\ history \in Seq(Entries(config)) /\ log \in Seq(Entries(config))
      /\ lost \in Nat /\ commands \in Seq(Requests(config))
  BY <1>1 DEF ShapeInv
<1>3. /\ ~work.busy /\ history' = all /\ log' = <<>> /\ config' = config /\ phase' = "running"
      /\ commands' = commands /\ processed' = processed
      /\ stats' \in [Counters -> Nat] /\ stats'.intents = stats.intents + d
  BY DEF Brings
<1>4. all \in Seq(Entries(config)) /\ Len(all) \in Nat
  BY <1>2
<1> HIDE DEF all
<1>5. (history \o log)' = all
  BY <1>3, <1>4, ConcatEmpty
<1>6. ShapeInv'
  <2>1. log' \in Seq(Entries(config)) /\ history' \in Seq(Entries(config))
    BY <1>3, <1>4
  <2>2. CASE work' = work /\ lost' = lost + d
    BY <1>1, <1>2, <1>3, <2>1, <2>2 DEF ShapeInv
  <2>3. CASE /\ DOMAIN work' = WorkFields /\ work'.busy /\ ~work'.dropped
             /\ work'.busy \in BOOLEAN /\ work'.dropped \in BOOLEAN
             /\ work'.intents \in Seq(Actions(config)) /\ Len(work'.intents) = d
             /\ work'.next = 1 /\ work'.overlay = <<>> /\ lost' = lost
    <3>1. work'.next \in 1..(Len(work'.intents) + 1)
      BY <2>3
    <3>2. work'.overlay \in Overlays(config) /\ IsFiniteSet(DOMAIN work'.overlay)
      BY <2>3, EmptyLog
    <3> QED
      BY <1>2, <1>3, <2>1, <2>3, <3>1, <3>2 DEF ShapeInv
  <2> QED
    BY <2>2, <2>3 DEF Brings
<1>7. work'.busy => /\ work'.overlay = <<>> /\ ~work'.dropped /\ work'.next = 1
                    /\ work'.dropped \in BOOLEAN
  BY <1>3 DEF Brings
<1>8. ProgressInv'
  <2>1. work'.busy => work'.overlay = OverlayOf(log)'
    <3>1. OverlayOf(log)' = OverlayOf(<<>>)
      BY <1>3 DEF OverlayOf
    <3> QED
      BY <1>7, <3>1, EmptyLog
  <2>2. work'.busy => Cardinality(DOMAIN work'.overlay) <= MaxMetadataEntries
    BY <1>7, EmptyLog, PipelineAssumption
  <2>3. work'.busy => (work'.dropped <=> \E i \in DOMAIN log' : log'[i].action[1] = "drop")
    BY <1>3, <1>7, EmptyLog
  <2> QED
    BY <2>1, <2>2, <2>3 DEF ProgressInv
<1>9. ReferencesResolve'
  BY <1>1, <1>3, EmptyLog DEF ReferencesResolve
<1>10. LogOk(log)'
  <2>1. LogOk(<<>>)
    BY EmptyLog
  <2> QED
    BY <1>3, <2>1 DEF LogOk
<1>11. StatsOk'
  <2>1. /\ stats'.failed = stats.failed /\ stats'.published = stats.published
        /\ stats'.noReceiver = stats.noReceiver /\ stats'.queued = stats.queued
        /\ stats'.full = stats.full /\ stats'.unavailable = stats.unavailable
    BY DEF Brings, Counters
  <2>2. /\ stats.intents = Len(all) + lost /\ stats.failed = Failures(all)
        /\ stats.published + stats.noReceiver = Count(all, "stream", "executed")
        /\ stats.queued = Count(all, "command", "executed")
        /\ stats.full + stats.unavailable =
             Count(all, "command", "CommandQueueBackpressure")
               + Count(all, "command", "CommandQueueUnavailable")
    BY <1>1, <1>2, <1>3, <1>4 DEF StatsOk, Ahead, Over, all
  <2>3. Over' = all
    BY <1>3, <1>5 DEF Over
  <2>4. lost' + Ahead' = lost + d /\ lost' \in Nat /\ Ahead' \in Int
    <3>1. CASE work' = work /\ lost' = lost + d
      BY <1>2, <1>3, <3>1 DEF Ahead
    <3>2. CASE work'.busy /\ Len(work'.intents) = d /\ lost' = lost
      <4>1. Len(log') = 0
        BY <1>3
      <4> QED
        BY <1>2, <3>2, <4>1 DEF Ahead
    <3> QED
      BY <3>1, <3>2 DEF Brings
  <2>5. stats'.intents = Len((history \o log)') + lost' + Ahead'
    <3>1. (Len(all) + lost) + d = Len(all) + lost' + Ahead'
      <4>1. PICK y \in Int : y = Ahead'
        BY <2>4
      <4>2. PICK j \in Nat : j = lost'
        BY <2>4
      <4>3. PICK i \in Nat : i = Len(all)
        BY <1>4
      <4>4. PICK k \in Nat : k = lost
        BY <1>2
      <4>5. j + y = k + d
        BY <2>4, <4>1, <4>2, <4>4, Zenon
      <4>6. (i + k) + d = i + j + y
        BY <4>5
      <4> QED
        BY <4>1, <4>2, <4>3, <4>4, <4>6, Zenon
    <3>2. stats'.intents = (Len(all) + lost) + d
      BY <1>3, <2>2, Zenon
    <3>3. Len((history \o log)') = Len(all)
      BY <1>5
    <3> QED
      BY <3>1, <3>2, <3>3, Zenon
  <2>6. stats'.failed = Failures(Over)'
    <3>1. Failures(Over)' = Failures(all)
      BY <2>3 DEF Failures
    <3> QED
      BY <2>1, <2>2, <3>1
  <2>7. ASSUME NEW CONSTANT kind, NEW CONSTANT verdict
        PROVE  Count(history \o log, kind, verdict)' = Count(all, kind, verdict)
    BY <1>5 DEF Count
  <2> QED
    BY <2>1, <2>2, <2>5, <2>6, <2>7 DEF StatsOk
<1>12. work'.busy => Len(log') = work'.next - 1
  BY <1>3, <1>7
<1>13. DispatchAccounts'
  <2>1. (DispatchAccounts <=> /\ LogOk(log) /\ (work.busy => Len(log) = work.next - 1)
                              /\ StatsOk)'
    BY AccountsForm, PTL
  <2> QED
    BY <1>10, <1>11, <1>12, <2>1
<1> QED
  BY <1>6, <1>8, <1>9, <1>13

\* The end of a dispatch counts its failures.
LEMMA FinishKeeps ==
  ASSUME IInv, FinishDispatch
  PROVE  ShapeInv' /\ ProgressInv' /\ ReferencesResolve' /\ DispatchAccounts'
<1> DEFINE all == history \o log
<1>1. ShapeInv /\ StatsOk /\ ReferencesResolve /\ LogOk(log)
      /\ (work.busy => Len(log) = work.next - 1)
  BY AccountsForm DEF IInv
<1>2. /\ work.busy /\ work.next > Len(work.intents) /\ work' = NoWork
      /\ stats' = [stats EXCEPT !.failed = @ + Failures(log)]
      /\ UNCHANGED <<config, phase, log, history, lost, commands, processed>>
  BY DEF FinishDispatch, outside
<1>3. /\ history \in Seq(Entries(config)) /\ log \in Seq(Entries(config)) /\ lost \in Nat
      /\ stats \in [Counters -> Nat]
      /\ Len(work.intents) \in Nat /\ work.next \in 1..(Len(work.intents) + 1)
  BY <1>1 DEF ShapeInv
<1>4. all \in Seq(Entries(config)) /\ Len(all) \in Nat
  BY <1>3
<1>5. Failures(log) \in Nat /\ Failures(all) = Failures(history) + Failures(log)
  <2>1. /\ Failures(log) = Hits(log, Failing(config))
        /\ Failures(history) = Hits(history, Failing(config))
        /\ Failures(all) = Hits(all, Failing(config))
    BY <1>3, <1>4, CountsAreHits
  <2>2. Hits(log, Failing(config)) \in Nat
    BY <1>3, HitsFinite
  <2>3. Hits(all, Failing(config)) = Hits(history, Failing(config)) + Hits(log, Failing(config))
    BY <1>3, HitsConcat
  <2> QED
    BY <2>1, <2>2, <2>3
<1> HIDE DEF all
<1>6. /\ stats' \in [Counters -> Nat] /\ stats'.failed = stats.failed + Failures(log)
      /\ stats'.intents = stats.intents
      /\ stats'.published = stats.published /\ stats'.noReceiver = stats.noReceiver
      /\ stats'.queued = stats.queued
      /\ stats'.full = stats.full /\ stats'.unavailable = stats.unavailable
  <2> DEFINE f == Failures(log)
  <2>1. f \in Nat /\ stats' = [stats EXCEPT !.failed = @ + f]
    BY <1>2, <1>5
  <2> HIDE DEF f
  <2>2. stats.failed \in Nat /\ stats'.failed = stats.failed + f
    BY <1>1, <1>3, <2>1, StatsType DEF Counters
  <2>3. stats' \in [Counters -> Nat]
    BY <1>3, <2>1, <2>2
  <2> QED
    BY <1>3, <2>1, <2>2, <2>3 DEF f, Counters
<1>7. /\ DOMAIN work' = WorkFields /\ ~work'.busy
      /\ work'.busy \in BOOLEAN /\ work'.dropped \in BOOLEAN
      /\ work'.intents = <<>> /\ work'.next = 1 /\ work'.overlay = <<>>
  BY <1>2 DEF NoWork, WorkFields
<1>8. ShapeInv'
  <2>1. work'.intents \in Seq(Actions(config)) /\ work'.next \in 1..(Len(work'.intents) + 1)
    BY <1>7
  <2>2. work'.overlay \in Overlays(config) /\ IsFiniteSet(DOMAIN work'.overlay)
    BY <1>7, EmptyLog
  <2> QED
    BY <1>1, <1>2, <1>6, <1>7, <2>1, <2>2 DEF ShapeInv
<1>9. ProgressInv'
  BY <1>7 DEF ProgressInv
<1>10. ReferencesResolve'
  BY <1>1, <1>2 DEF ReferencesResolve
<1>11. LogOk(log)'
  BY <1>1, <1>2 DEF LogOk
<1>12. StatsOk'
  <2>1. (history \o log)' = all /\ Over' = all /\ Ahead' = 0
    BY <1>2, <1>7 DEF Over, Ahead, all
  <2>2. Ahead = 0
    <3>1. Len(log) = work.next - 1 /\ work.next = Len(work.intents) + 1
      BY <1>1, <1>2, <1>3
    <3> QED
      BY <1>2, <1>3, <3>1 DEF Ahead
  <2>3. /\ stats.intents = Len(all) + lost + Ahead /\ stats.failed = Failures(history)
        /\ stats.published + stats.noReceiver = Count(all, "stream", "executed")
        /\ stats.queued = Count(all, "command", "executed")
        /\ stats.full + stats.unavailable =
             Count(all, "command", "CommandQueueBackpressure")
               + Count(all, "command", "CommandQueueUnavailable")
    BY <1>1, <1>2 DEF StatsOk, Over, all
  <2>4. stats'.intents = Len((history \o log)') + lost' + Ahead'
    BY <1>2, <1>6, <2>1, <2>2, <2>3, Zenon
  <2>5. stats'.failed = Failures(Over)'
    <3>1. Failures(Over)' = Failures(all)
      BY <2>1 DEF Failures
    <3> QED
      BY <1>5, <1>6, <2>3, <3>1, Zenon
  <2>6. ASSUME NEW CONSTANT kind, NEW CONSTANT verdict
        PROVE  Count(history \o log, kind, verdict)' = Count(all, kind, verdict)
    BY <2>1 DEF Count
  <2> QED
    BY <1>6, <2>3, <2>4, <2>5, <2>6 DEF StatsOk
<1>13. DispatchAccounts'
  <2>1. (DispatchAccounts <=> /\ LogOk(log) /\ (work.busy => Len(log) = work.next - 1)
                              /\ StatsOk)'
    BY AccountsForm, PTL
  <2> QED
    BY <1>7, <1>11, <1>12, <2>1
<1> QED
  BY <1>8, <1>9, <1>10, <1>13

\* A command of a running configuration finds its template and broker.
LEMMA ResultResolves ==
  ASSUME GateInv, phase = "running", NEW r \in Requests(config)
  PROVE  CommandResult(r).route \in {"Render", "published"}
<1>1. config \in Configs /\ ValidateConfig(config)
  BY DEF GateInv
<1>2. PICK a \in RuleActions(config, "command") : r = [template |-> a[2], params |-> a[3]]
  BY DEF Requests
<1> DEFINE found == Find(config.templates, a[2])
<1>3. found # <<>> /\ found[1].enabled /\ found[1].broker \in EnabledIds(config.brokers)
  BY <1>1, CommandsResolve
<1>4. r.template = a[2]
  BY <1>2
<1>5. found = Find(config.templates, r.template)
  BY <1>4
<1> HIDE DEF found
<1> QED
  BY <1>3, <1>5 DEF CommandResult

\* Steps that leave the dispatcher alone: of the statistics only the failures
\* of the renderer may change.
LEMMA AsideKeeps ==
  ASSUME IInv, UNCHANGED <<config, work, log, history, lost>>,
         stats' \in [Counters -> Nat],
         \A k \in Counters \ {"renderFailed"} : stats'[k] = stats[k],
         commands' \in Seq(Requests(config)), commands' # <<>> => commands # <<>>,
         phase = "running" => phase' = "running",
         processed' = processed \/ processed'.route \in {"Render", "published"}
  PROVE  ShapeInv' /\ ProgressInv' /\ ReferencesResolve' /\ DispatchAccounts'
<1>1. ShapeInv /\ ProgressInv /\ StatsOk /\ ReferencesResolve /\ LogOk(log)
      /\ (work.busy => Len(log) = work.next - 1)
  BY AccountsForm DEF IInv
<1>2. /\ stats'.failed = stats.failed /\ stats'.intents = stats.intents
      /\ stats'.published = stats.published /\ stats'.noReceiver = stats.noReceiver
      /\ stats'.queued = stats.queued
      /\ stats'.full = stats.full /\ stats'.unavailable = stats.unavailable
  BY DEF Counters
<1>3. ShapeInv'
  BY <1>1 DEF ShapeInv
<1>4. ProgressInv'
  <2>1. OverlayOf(log)' = OverlayOf(log)
    BY DEF OverlayOf
  <2> QED
    BY <1>1, <2>1 DEF ProgressInv
<1>5. ReferencesResolve'
  BY <1>1 DEF ReferencesResolve
<1>6. LogOk(log)'
  BY <1>1 DEF LogOk
<1>7. StatsOk'
  <2>1. (history \o log)' = history \o log /\ Over' = Over /\ Ahead' = Ahead /\ lost' = lost
    BY DEF Over, Ahead
  <2>2. ASSUME NEW CONSTANT kind, NEW CONSTANT verdict
        PROVE  Count(history \o log, kind, verdict)' = Count(history \o log, kind, verdict)
    BY DEF Count
  <2>3. Failures(Over)' = Failures(Over)
    BY <2>1 DEF Failures
  <2> QED
    BY <1>1, <1>2, <2>1, <2>2, <2>3, Zenon DEF StatsOk
<1>8. DispatchAccounts'
  <2>1. (DispatchAccounts <=> /\ LogOk(log) /\ (work.busy => Len(log) = work.next - 1)
                              /\ StatsOk)'
    BY AccountsForm, PTL
  <2> QED
    BY <1>1, <1>6, <1>7, <2>1
<1> QED
  BY <1>3, <1>4, <1>5, <1>8

\* The worker of the command queue.
LEMMA ProcessKeeps ==
  ASSUME IInv, ProcessCommand
  PROVE  ShapeInv' /\ ProgressInv' /\ ReferencesResolve' /\ DispatchAccounts'
<1>1. /\ commands # <<>> /\ commands' = Tail(commands)
      /\ processed' = CommandResult(Head(commands))
      /\ stats' = IF processed'.route = "Render" THEN [stats EXCEPT !.renderFailed = @ + 1]
                  ELSE stats
      /\ UNCHANGED <<config, phase, work, log, history, lost>>
  BY DEF ProcessCommand, dispatching
<1>2. GateInv /\ ShapeInv
  BY DEF IInv
<1>3. /\ phase = "running" /\ commands \in Seq(Requests(config))
      /\ stats \in [Counters -> Nat]
  BY <1>1, <1>2 DEF ShapeInv
<1>4. commands' \in Seq(Requests(config)) /\ Head(commands) \in Requests(config)
  BY <1>1, <1>3
<1>5. processed'.route \in {"Render", "published"}
  BY <1>1, <1>2, <1>3, <1>4, ResultResolves
<1>6. /\ stats' \in [Counters -> Nat]
      /\ \A k \in Counters \ {"renderFailed"} : stats'[k] = stats[k]
  <2>1. stats' = [stats EXCEPT !.renderFailed = @ + 1] \/ stats' = stats
    BY <1>1
  <2> QED
    BY <1>3, <2>1 DEF Counters
<1> QED
  BY <1>1, <1>4, <1>5, <1>6, AsideKeeps

-----------------------------------------------------------------------------
(* The theorems.                                                           *)

\* Every step keeps the invariant.
LEMMA NextInv == IInv /\ [Next]_vars => IInv'
<1> SUFFICES ASSUME IInv, [Next]_vars PROVE IInv'
  OBVIOUS
<1> DEFINE Rest == ShapeInv' /\ ProgressInv' /\ ReferencesResolve' /\ DispatchAccounts'
<1>1. GateInv /\ ShapeInv /\ ProgressInv /\ ReferencesResolve /\ DispatchAccounts
  BY DEF IInv
<1>2. GateInv' /\ config' = config /\ (phase = "running" => phase' = "running")
  BY <1>1, GateStep
<1>3. ASSUME \E i \in Enabled(config.brokers), m \in Messages : Receive(config.brokers[i], m)
      PROVE  Rest
  <2>1. \E d \in Nat : Brings(d)
    BY <1>3, ReceiveBrings
  <2> QED
    BY <2>1, BringsKeeps
<1>4. ASSUME SkipAfterDrop \/ StreamToUi \/ ForwardToSink \/ ExecuteCommand
               \/ AddMetadata \/ DropEvent
      PROVE  Rest
  <2>1. ShapeInv' /\ \E e : Follows(e)
    BY <1>1, <1>4, SkipFollows, StreamFollows, ForwardFollows, CommandFollows,
       MetadataFollows, DropFollows
  <2> QED
    BY <1>1, <2>1, FollowsKeeps
<1>5. ASSUME FinishDispatch
      PROVE  Rest
  BY <1>5, FinishKeeps
<1>6. ASSUME ProcessCommand
      PROVE  Rest
  BY <1>6, ProcessKeeps
<1>7. ASSUME UNCHANGED <<work, log, history, lost, stats, commands, processed>>
      PROVE  Rest
  <2>1. /\ stats \in [Counters -> Nat] /\ commands \in Seq(Requests(config))
    BY <1>1 DEF ShapeInv
  <2> QED
    BY <1>2, <1>7, <2>1, AsideKeeps
<1>8. [Next]_vars =>
        \/ \E i \in Enabled(config.brokers), m \in Messages : Receive(config.brokers[i], m)
        \/ SkipAfterDrop \/ StreamToUi \/ ForwardToSink \/ ExecuteCommand
        \/ AddMetadata \/ DropEvent \/ FinishDispatch \/ ProcessCommand
        \/ UNCHANGED <<work, log, history, lost, stats, commands, processed>>
  BY DEF Next, Dispatch, Validate, Start, TakeForward, CloseQueue, ToggleViewers,
         outside, dispatching, vars
<1>9. Rest
  BY <1>3, <1>4, <1>5, <1>6, <1>7, <1>8
<1> QED
  BY <1>2, <1>9 DEF IInv

\* The invariant holds in every state of every behaviour.
THEOREM Invariance == Spec => []IInv
BY InitInv, NextInv, PTL DEF Spec

\* ProjectRuntime::start() of a configuration that validate_config() accepted
\* fails for nothing but what the compilers alone check: limits and reserved
\* names of the rule engine, the URL, headers and timeout of a sink.
THEOREM StartRefusalsHold == Spec => []StartRefusals
<1>1. IInv => StartRefusals
  BY DEF IInv, GateInv
<1> QED
  BY <1>1, Invariance, PTL

\* What a running configuration refers to is found when a message needs it:
\* the sink of a forward, the key of a metadata action, the template and the
\* broker of a command.
THEOREM ReferencesResolveHold == Spec => []ReferencesResolve
<1>1. IInv => ReferencesResolve
  BY DEF IInv
<1> QED
  BY <1>1, Invariance, PTL

\* ActionDispatcher::dispatch() accounts for every intent once, whatever the
\* workers and viewers do meanwhile: the metadata each action sees, the limit
\* of entries, what is skipped after a drop and all counters agree with the
\* outcomes.
THEOREM DispatchAccountsHold == Spec => []DispatchAccounts
<1>1. IInv => DispatchAccounts
  BY DEF IInv
<1> QED
  BY <1>1, Invariance, PTL

-----------------------------------------------------------------------------
(* The matcher, which walks level by level, and what a filter denotes.     *)

\* What the matcher answers at level i, when rest is its answer at the next.
StepAt(f, t, i, rest) ==
  IF i > Len(f) THEN [NoMatch EXCEPT !.ok = (Len(t) = i - 1)]
  ELSE IF f[i] = "#" THEN [NoMatch EXCEPT !.ok = TRUE, !.multi = SubSeq(t, i, Len(t))]
  ELSE IF i > Len(t) THEN NoMatch
  ELSE IF f[i] = "+" THEN [rest EXCEPT !.single = <<t[i]>> \o @]
  ELSE IF f[i] = t[i] THEN rest ELSE NoMatch

\* The walk from level k to the end.
WalkFrom(f, t, k, w) == w = [i \in k..(Len(f) + 1) |-> StepAt(f, t, i, w[i + 1])]

\* The walk is defined by a recursive function; there is one.
LEMMA WalkExists ==
  ASSUME NEW f, NEW t, Len(f) \in Nat
  PROVE  \E w : WalkFrom(f, t, 1, w)
<1> DEFINE n == Len(f)
           Bad == {m \in Nat : m <= n + 1 /\ ~\E w : WalkFrom(f, t, (n + 2) - m, w)}
<1>1. SUFFICES Bad = {}
  <2>1. n + 1 \in Nat /\ n + 1 <= n + 1 /\ (n + 2) - (n + 1) = 1
    OBVIOUS
  <2>2. SUFFICES n + 1 \notin Bad
    OBVIOUS
  <2> HIDE DEF Bad
  <2> QED
    OBVIOUS
<1>2. SUFFICES ASSUME Bad # {} PROVE FALSE
  OBVIOUS
<1>3. PICK m \in Bad : \A x \in Bad : m <= x
  <2>1. Bad \in SUBSET Nat
    OBVIOUS
  <2> HIDE DEF Bad
  <2> QED
    BY <1>2, <2>1, LeastExists
<1>4. m \in Nat /\ m <= n + 1 /\ ~\E w : WalkFrom(f, t, (n + 2) - m, w)
  OBVIOUS
<1>5. m # 0
  <2>1. SUFFICES ASSUME m = 0 PROVE \E w : WalkFrom(f, t, n + 2, w)
    BY <1>4
  <2>2. (n + 2)..(n + 1) = {}
    OBVIOUS
  <2>3. LET e == [i \in {} |-> 0]
        IN  e = [i \in (n + 2)..(n + 1) |-> StepAt(f, t, i, e[i + 1])]
    BY <2>2
  <2> QED
    BY <2>3 DEF WalkFrom
<1>6. m - 1 \in Nat /\ m - 1 <= n + 1 /\ ~(m <= m - 1)
  BY <1>4, <1>5
<1> DEFINE k == (n + 2) - m
<1>7. k \in Nat /\ k >= 1 /\ k <= n + 1 /\ (n + 2) - (m - 1) = k + 1
  BY <1>4, <1>5
<1>8. \E w : WalkFrom(f, t, k + 1, w)
  <2>1. \E w : WalkFrom(f, t, (n + 2) - (m - 1), w)
    BY <1>3, <1>6
  <2> QED
    BY <1>7, <2>1
<1> HIDE DEF Bad
<1>9. ~\E w : WalkFrom(f, t, k, w)
  BY <1>4
<1> HIDE DEF k
<1>10. PICK g : g = [i \in (k + 1)..(n + 1) |-> StepAt(f, t, i, g[i + 1])]
  BY <1>8 DEF WalkFrom
<1> DEFINE h == [i \in k..(n + 1) |-> IF i = k THEN StepAt(f, t, i, g[i + 1]) ELSE g[i]]
<1>11. ASSUME NEW i \in k..(n + 1) PROVE h[i] = StepAt(f, t, i, h[i + 1])
  <2>1. i \in Int /\ k <= i /\ i <= n + 1
    BY <1>7
  <2>2. h[i] = StepAt(f, t, i, g[i + 1])
    <3>1. CASE i = k
      BY <3>1
    <3>2. CASE i # k
      <4>1. i \in (k + 1)..(n + 1)
        BY <1>7, <2>1, <3>2
      <4> QED
        BY <1>10, <3>2, <4>1
    <3> QED
      BY <3>1, <3>2
  <2>3. CASE i <= n
    <3>1. i + 1 \in k..(n + 1) /\ i + 1 # k
      BY <1>7, <2>1, <2>3
    <3>2. h[i + 1] = g[i + 1]
      BY <3>1
    <3> QED
      BY <2>2, <3>2
  <2>4. CASE ~(i <= n)
    <3>1. i > Len(f)
      BY <2>1, <2>4
    <3> QED
      BY <2>2, <3>1 DEF StepAt
  <2> QED
    BY <2>3, <2>4
<1>12. h = [i \in k..(n + 1) |-> StepAt(f, t, i, h[i + 1])]
  <2>1. h = [i \in k..(n + 1) |-> h[i]]
    OBVIOUS
  <2> HIDE DEF h
  <2> QED
    BY <1>11, <2>1
<1> QED
  BY <1>9, <1>12 DEF WalkFrom

\* MatchFilter is the beginning of a walk.
LEMMA MatchIsWalk ==
  ASSUME NEW f, NEW t, Len(f) \in Nat, TopicNameOk(t)
  PROVE  \E w : WalkFrom(f, t, 1, w) /\ MatchFilter(f, t) = w[1]
<1> DEFINE w == CHOOSE w : WalkFrom(f, t, 1, w)
<1>1. WalkFrom(f, t, 1, w)
  BY WalkExists
<1>2. MatchFilter(f, t) = w[1]
  BY DEF MatchFilter, WalkFrom, StepAt
<1> QED
  BY <1>1, <1>2

\* What a filter asks of the levels from i on.
Fits(f, t, i) ==
  \/ f[Len(f)] # "#" /\ Len(t) = Len(f) /\ \A j \in i..Len(f) : f[j] \in {"+", t[j]}
  \/ f[Len(f)] = "#" /\ Len(t) >= Len(f) - 1 /\ \A j \in i..(Len(f) - 1) : f[j] \in {"+", t[j]}

\* The places of "+" from a to b.
Pluses(f, a, b) == {h \in a..b : f[h] = "+"}

\* s are the levels that the "+" of the filter stand for, from level i on.
Catches(f, t, i, s) ==
  /\ \A m \in 1..Len(s) :
       \E j \in Pluses(f, i, Len(f)) :
         Cardinality(Pluses(f, i, j - 1)) = m - 1 /\ s[m] = t[j]
  /\ \A j \in Pluses(f, i, Len(f)) : Cardinality(Pluses(f, i, j - 1)) < Len(s)

\* There are finitely many.
LEMMA PlusesFinite ==
  ASSUME NEW f, NEW a \in Int, NEW b \in Int
  PROVE  IsFiniteSet(Pluses(f, a, b)) /\ Cardinality(Pluses(f, a, b)) \in Nat
<1>1. IsFiniteSet(a..b)
  BY FS_Interval
<1>2. Pluses(f, a, b) \subseteq a..b
  BY DEF Pluses
<1> QED
  BY <1>1, <1>2, FS_Subset, FS_CardinalityType

\* A wildcard before the others moves them by one place.
LEMMA PlusesMore ==
  ASSUME NEW f, NEW i \in Nat, NEW b \in Int, f[i] = "+", i <= b
  PROVE  Cardinality(Pluses(f, i, b)) = Cardinality(Pluses(f, i + 1, b)) + 1
<1>1. Pluses(f, i, b) = Pluses(f, i + 1, b) \cup {i}
  BY DEF Pluses
<1>2. i \notin Pluses(f, i + 1, b)
  BY DEF Pluses
<1>3. IsFiniteSet(Pluses(f, i + 1, b))
  BY PlusesFinite
<1> QED
  BY <1>1, <1>2, <1>3, FS_AddElement

\* Another level does not.
LEMMA PlusesSame ==
  ASSUME NEW f, NEW i \in Nat, NEW b \in Int, f[i] # "+"
  PROVE  Pluses(f, i, b) = Pluses(f, i + 1, b)
BY DEF Pluses

\* The matcher's list grows at its front.
LEMMA CatchesMore ==
  ASSUME NEW f, NEW T, NEW t, NEW i \in Nat, i <= Len(f), Len(f) \in Nat, f[i] = "+",
         t[i] \in T, NEW s \in Seq(T), Catches(f, t, i + 1, s)
  PROVE  Catches(f, t, i, <<t[i]>> \o s)
<1> DEFINE n == Len(f)
           u == <<t[i]>> \o s
           l == Len(s)
<1>1. l \in Nat /\ Len(u) = l + 1 /\ u[1] = t[i] /\ \A m \in 1..l : u[m + 1] = s[m]
  OBVIOUS
<1> HIDE DEF u, l
<1>2. ASSUME NEW j \in Pluses(f, i + 1, n)
      PROVE  /\ j \in Pluses(f, i, n) /\ j - 1 \in Int
             /\ Cardinality(Pluses(f, i, j - 1)) = Cardinality(Pluses(f, i + 1, j - 1)) + 1
             /\ Cardinality(Pluses(f, i + 1, j - 1)) \in Nat
  <2>1. j \in Int /\ i + 1 <= j /\ j <= n /\ f[j] = "+"
    BY DEF Pluses
  <2>2. j - 1 \in Int /\ i <= j - 1
    BY <2>1
  <2>3. j \in Pluses(f, i, n)
    BY <2>1 DEF Pluses
  <2>4. Cardinality(Pluses(f, i, j - 1)) = Cardinality(Pluses(f, i + 1, j - 1)) + 1
    BY <2>2, PlusesMore
  <2>5. Cardinality(Pluses(f, i + 1, j - 1)) \in Nat
    BY <2>2, PlusesFinite
  <2> QED
    BY <2>2, <2>3, <2>4, <2>5
<1>3. i \in Pluses(f, i, n) /\ Cardinality(Pluses(f, i, i - 1)) = 0
  <2>1. i \in Pluses(f, i, n)
    BY DEF Pluses
  <2>2. Pluses(f, i, i - 1) = {}
    BY DEF Pluses
  <2> QED
    BY <2>1, <2>2, FS_EmptySet
<1>4. ASSUME NEW m \in 1..Len(u)
      PROVE  \E j \in Pluses(f, i, n) :
               Cardinality(Pluses(f, i, j - 1)) = m - 1 /\ u[m] = t[j]
  <2>1. CASE m = 1
    BY <1>1, <1>3, <2>1
  <2>2. CASE m # 1
    <3>1. m - 1 \in 1..l /\ (m - 1) + 1 = m
      BY <1>1, <2>2
    <3>2. PICK j \in Pluses(f, i + 1, n) :
            Cardinality(Pluses(f, i + 1, j - 1)) = (m - 1) - 1 /\ s[m - 1] = t[j]
      BY <3>1 DEF Catches, l
    <3>3. Cardinality(Pluses(f, i, j - 1)) = m - 1
      <4> DEFINE c == Cardinality(Pluses(f, i + 1, j - 1))
                 d == Cardinality(Pluses(f, i, j - 1))
      <4>1. c = (m - 1) - 1 /\ d = c + 1 /\ c \in Nat
        BY <1>2, <3>2
      <4> HIDE DEF c, d
      <4>2. d = m - 1
        BY <3>1, <4>1
      <4> QED
        BY <4>2 DEF d
    <3>4. u[m] = t[j]
      BY <1>1, <3>1, <3>2
    <3> QED
      BY <1>2, <3>3, <3>4
  <2> QED
    BY <2>1, <2>2
<1>5. ASSUME NEW j \in Pluses(f, i, n) PROVE Cardinality(Pluses(f, i, j - 1)) < Len(u)
  <2>1. CASE j = i
    BY <1>1, <1>3, <2>1
  <2>2. CASE j # i
    <3>1. j \in Pluses(f, i + 1, n)
      BY <2>2 DEF Pluses
    <3> DEFINE c == Cardinality(Pluses(f, i + 1, j - 1))
               d == Cardinality(Pluses(f, i, j - 1))
    <3>2. c < l /\ d = c + 1 /\ c \in Nat
      BY <1>2, <3>1 DEF Catches, l
    <3> HIDE DEF c, d
    <3>3. d < l + 1
      BY <1>1, <3>2
    <3> QED
      BY <1>1, <3>3 DEF d
  <2> QED
    BY <2>1, <2>2
<1> QED
  BY <1>4, <1>5 DEF Catches, u

\* Other levels are no place of a wildcard.
LEMMA CatchesSame ==
  ASSUME NEW f, NEW t, NEW i \in Nat, Len(f) \in Nat, f[i] # "+", NEW s,
         Catches(f, t, i + 1, s)
  PROVE  Catches(f, t, i, s)
<1>1. \A b \in Int : Pluses(f, i, b) = Pluses(f, i + 1, b)
  BY PlusesSame
<1>2. \A j \in Pluses(f, i, Len(f)) : j - 1 \in Int
  BY DEF Pluses
<1>3. \A j \in Pluses(f, i, Len(f)) : Pluses(f, i, j - 1) = Pluses(f, i + 1, j - 1)
  BY <1>1, <1>2
<1>4. Pluses(f, i, Len(f)) = Pluses(f, i + 1, Len(f))
  BY <1>1
<1> QED
  BY <1>3, <1>4 DEF Catches

\* Where there is no wildcard any more there is nothing to catch.
LEMMA CatchesNone ==
  ASSUME NEW f, NEW t, NEW i, Pluses(f, i, Len(f)) = {}
  PROVE  Catches(f, t, i, <<>>)
BY DEF Catches

\* What the answer x at level i is worth, if the walk gets there.
Answer(f, t, T, i, x) ==
  /\ DOMAIN x = {"ok", "single", "multi"} /\ x.ok \in BOOLEAN
  /\ i - 1 <= Len(t) /\ (i = Len(f) + 1 => f[Len(f)] # "#") =>
       /\ x.ok <=> Fits(f, t, i)
       /\ x.ok => x.single \in Seq(T) /\ Catches(f, t, i, x.single)

\* The end of the filter.
LEMMA AnswerAtEnd ==
  ASSUME NEW F, NEW f \in Seq(F), NEW T, NEW t \in Seq(T), NEW rest
  PROVE  Answer(f, t, T, Len(f) + 1, StepAt(f, t, Len(f) + 1, rest))
<1> DEFINE n == Len(f)
           x == StepAt(f, t, n + 1, rest)
<1>1. n \in Nat /\ n + 1 > n /\ (n + 1) - 1 = n /\ Len(t) \in Nat
  OBVIOUS
<1>2. x = [NoMatch EXCEPT !.ok = (Len(t) = n)]
  BY <1>1 DEF StepAt
<1>3. /\ DOMAIN x = {"ok", "single", "multi"} /\ x.ok \in BOOLEAN
      /\ x.ok <=> Len(t) = n
      /\ x.single = <<>>
  BY <1>2 DEF NoMatch
<1>4. f[n] # "#" => (x.ok <=> Fits(f, t, n + 1))
  BY <1>1, <1>3 DEF Fits
<1>5. Catches(f, t, n + 1, <<>>)
  <2>1. Pluses(f, n + 1, n) = {}
    BY <1>1 DEF Pluses
  <2> QED
    BY <2>1, CatchesNone
<1> HIDE DEF x
<1>6. Answer(f, t, T, n + 1, x)
  BY <1>3, <1>4, <1>5 DEF Answer
<1> QED
  BY <1>6 DEF x

\* One level.
LEMMA AnswerAtLevel ==
  ASSUME NEW F, NEW f \in Seq(F), NEW T, NEW t \in Seq(T), NEW i \in 1..Len(f), NEW rest,
         \A j \in 1..Len(f) : f[j] = "#" => j = Len(f),
         Answer(f, t, T, i + 1, rest)
  PROVE  Answer(f, t, T, i, StepAt(f, t, i, rest))
<1> DEFINE n == Len(f)
           x == StepAt(f, t, i, rest)
<1>1. n \in Nat /\ i \in Nat /\ 1 <= i /\ i <= n /\ ~(i > n) /\ i # n + 1 /\ Len(t) \in Nat
      /\ (i + 1) - 1 = i
  OBVIOUS
<1>2. DOMAIN rest = {"ok", "single", "multi"} /\ rest.ok \in BOOLEAN
  BY DEF Answer
<1>3. i <= Len(t) /\ f[i] # "#" =>
        /\ rest.ok <=> Fits(f, t, i + 1)
        /\ rest.ok => rest.single \in Seq(T) /\ Catches(f, t, i + 1, rest.single)
  <2>1. f[i] # "#" /\ i + 1 = n + 1 => f[n] # "#"
    BY <1>1
  <2> QED
    BY <1>1, <2>1 DEF Answer
<1>4. CASE f[i] = "#"
  <2>1. i = n
    BY <1>1, <1>4
  <2>2. x = [NoMatch EXCEPT !.ok = TRUE, !.multi = SubSeq(t, i, Len(t))]
    BY <1>1, <1>4 DEF StepAt
  <2>3. /\ DOMAIN x = {"ok", "single", "multi"} /\ x.ok \in BOOLEAN /\ x.ok
        /\ x.single = <<>>
    BY <2>2 DEF NoMatch
  <2>4. i - 1 <= Len(t) => Fits(f, t, i)
    <3>1. f[n] = "#" /\ i - 1 = n - 1
      BY <1>4, <2>1
    <3>2. i..(n - 1) = {}
      <4>1. \A a \in Nat : a..(a - 1) = {}
        OBVIOUS
      <4> QED
        BY <1>1, <2>1, <4>1, Zenon
    <3> QED
      BY <1>1, <3>1, <3>2 DEF Fits
  <2>5. Catches(f, t, i, <<>>)
    <3>1. Pluses(f, i, n) = {}
      <4>1. \A h \in i..n : h = i
        <5>1. \A a \in Nat : \A h \in a..a : h = a
          OBVIOUS
        <5> QED
          BY <1>1, <2>1, <5>1, Zenon
      <4>2. f[i] # "+"
        BY <1>4
      <4> QED
        BY <4>1, <4>2 DEF Pluses
    <3> QED
      BY <3>1, CatchesNone
  <2> HIDE DEF x
  <2>6. Answer(f, t, T, i, x)
    BY <2>3, <2>4, <2>5 DEF Answer
  <2> QED
    BY <2>6 DEF x
<1>5. ASSUME x = NoMatch, ~Fits(f, t, i)
      PROVE  Answer(f, t, T, i, x)
  <2>1. /\ DOMAIN x = {"ok", "single", "multi"} /\ x.ok \in BOOLEAN /\ ~x.ok
    BY <1>5 DEF NoMatch
  <2> HIDE DEF x
  <2> QED
    BY <1>5, <2>1 DEF Answer
<1>6. CASE f[i] # "#" /\ i > Len(t)
  <2>1. x = NoMatch
    BY <1>1, <1>6 DEF StepAt
  <2>2. ~Fits(f, t, i)
    <3>1. i = n => f[n] # "#"
      BY <1>6
    <3> QED
      BY <1>1, <1>6, <3>1 DEF Fits
  <2> QED
    BY <1>5, <2>1, <2>2
<1>7. ASSUME f[i] # "#", i <= Len(t), f[i] \in {"+", t[i]}
      PROVE  Fits(f, t, i) <=> Fits(f, t, i + 1)
  <2>1. \A b \in Int : (\A j \in i..b : f[j] \in {"+", t[j]})
                         <=> (\A j \in (i + 1)..b : f[j] \in {"+", t[j]})
    <3>1. SUFFICES ASSUME NEW b \in Int, \A j \in (i + 1)..b : f[j] \in {"+", t[j]},
                          NEW j \in i..b
                   PROVE  f[j] \in {"+", t[j]}
      BY <1>1
    <3>2. j = i \/ j \in (i + 1)..b
      BY <1>1
    <3> QED
      BY <1>7, <3>1, <3>2
  <2>2. n \in Int /\ n - 1 \in Int
    BY <1>1
  <2> QED
    BY <2>1, <2>2 DEF Fits
<1>8. CASE f[i] # "#" /\ i <= Len(t) /\ f[i] = "+"
  <2>1. x = [rest EXCEPT !.single = <<t[i]>> \o @]
    BY <1>1, <1>8 DEF StepAt
  <2>2. /\ DOMAIN x = {"ok", "single", "multi"} /\ x.ok \in BOOLEAN /\ x.ok = rest.ok
        /\ x.single = <<t[i]>> \o rest.single
    BY <1>2, <2>1
  <2>3. x.ok <=> Fits(f, t, i)
    BY <1>3, <1>7, <1>8, <2>2
  <2>4. ASSUME x.ok PROVE x.single \in Seq(T) /\ Catches(f, t, i, x.single)
    <3>1. rest.single \in Seq(T) /\ Catches(f, t, i + 1, rest.single) /\ t[i] \in T
      BY <1>1, <1>3, <1>8, <2>2, <2>4
    <3>2. Catches(f, t, i, <<t[i]>> \o rest.single)
      BY <1>1, <1>8, <3>1, CatchesMore
    <3>3. <<t[i]>> \o rest.single \in Seq(T)
      BY <3>1
    <3> QED
      BY <2>2, <3>2, <3>3
  <2> HIDE DEF x
  <2>5. Answer(f, t, T, i, x)
    BY <2>2, <2>3, <2>4 DEF Answer
  <2> QED
    BY <2>5 DEF x
<1>9. CASE f[i] # "#" /\ i <= Len(t) /\ f[i] # "+" /\ f[i] = t[i]
  <2>1. x = rest
    BY <1>1, <1>9 DEF StepAt
  <2>2. rest.ok <=> Fits(f, t, i)
    BY <1>3, <1>7, <1>9
  <2>3. ASSUME rest.ok PROVE rest.single \in Seq(T) /\ Catches(f, t, i, rest.single)
    <3>1. rest.single \in Seq(T) /\ Catches(f, t, i + 1, rest.single)
      BY <1>3, <1>9, <2>3
    <3> QED
      BY <1>1, <1>9, <3>1, CatchesSame
  <2> HIDE DEF x
  <2>4. Answer(f, t, T, i, x)
    BY <1>2, <2>1, <2>2, <2>3 DEF Answer
  <2> QED
    BY <2>4 DEF x
<1>10. CASE f[i] # "#" /\ i <= Len(t) /\ f[i] # "+" /\ f[i] # t[i]
  <2>1. x = NoMatch
    BY <1>1, <1>10 DEF StepAt
  <2>2. ~Fits(f, t, i)
    <3>1. i \in i..n /\ (f[n] = "#" => i \in i..(n - 1))
      BY <1>1, <1>10
    <3> QED
      BY <1>10, <3>1 DEF Fits
  <2> QED
    BY <1>5, <2>1, <2>2
<1> QED
  BY <1>1, <1>4, <1>6, <1>8, <1>9, <1>10

\* Every level.
LEMMA WalkAnswers ==
  ASSUME NEW F, NEW f \in Seq(F), NEW T, NEW t \in Seq(T), NEW w,
         \A j \in 1..Len(f) : f[j] = "#" => j = Len(f),
         WalkFrom(f, t, 1, w)
  PROVE  \A i \in 1..(Len(f) + 1) : Answer(f, t, T, i, w[i])
<1> DEFINE n == Len(f)
           Bad == {m \in Nat : m <= n /\ ~Answer(f, t, T, (n + 1) - m, w[(n + 1) - m])}
<1>1. n \in Nat
  OBVIOUS
<1>2. \A i \in 1..(n + 1) : w[i] = StepAt(f, t, i, w[i + 1])
  BY DEF WalkFrom
<1>3. Bad = {}
  <2>1. SUFFICES ASSUME Bad # {} PROVE FALSE
    OBVIOUS
  <2>2. PICK m \in Bad : \A x \in Bad : m <= x
    <3>1. Bad \in SUBSET Nat
      OBVIOUS
    <3> HIDE DEF Bad
    <3> QED
      BY <2>1, <3>1, LeastExists
  <2> DEFINE i == (n + 1) - m
  <2>3. m \in Nat /\ m <= n /\ ~Answer(f, t, T, i, w[i])
    OBVIOUS
  <2>4. i \in 1..(n + 1)
    BY <1>1, <2>3
  <2>5. m # 0
    <3>1. SUFFICES ASSUME m = 0 PROVE FALSE
      OBVIOUS
    <3>2. i = n + 1 /\ n + 1 \in 1..(n + 1)
      BY <1>1, <3>1
    <3>3. w[n + 1] = StepAt(f, t, n + 1, w[(n + 1) + 1])
      BY <1>2, <3>2
    <3>4. Answer(f, t, T, n + 1, w[n + 1])
      BY <3>3, AnswerAtEnd
    <3> QED
      BY <2>3, <3>2, <3>4
  <2>6. m - 1 \in Nat /\ m - 1 <= n /\ ~(m <= m - 1) /\ (n + 1) - (m - 1) = i + 1
        /\ i \in 1..n
    BY <1>1, <2>3, <2>5
  <2>7. Answer(f, t, T, (n + 1) - (m - 1), w[(n + 1) - (m - 1)])
    BY <2>2, <2>6
  <2>8. Answer(f, t, T, i + 1, w[i + 1])
    BY <2>6, <2>7
  <2> HIDE DEF i, Bad
  <2>9. Answer(f, t, T, i, StepAt(f, t, i, w[i + 1]))
    BY <2>6, <2>8, AnswerAtLevel
  <2> QED
    BY <1>2, <2>3, <2>4, <2>9
<1>4. SUFFICES ASSUME NEW i \in 1..(n + 1) PROVE Answer(f, t, T, i, w[i])
  OBVIOUS
<1>5. (n + 1) - i \in Nat /\ (n + 1) - i <= n /\ (n + 1) - ((n + 1) - i) = i
  BY <1>1
<1>6. (n + 1) - i \notin Bad
  <2> HIDE DEF Bad
  <2> QED
    BY <1>3
<1>7. Answer(f, t, T, (n + 1) - ((n + 1) - i), w[(n + 1) - ((n + 1) - i)])
  BY <1>5, <1>6
<1> QED
  BY <1>5, <1>7

\* TopicFilterMatcher::matches() accepts the topics whose levels fit a valid
\* filter, and its parameters are the levels the wildcards stand for.
LEMMA MatchFits ==
  ASSUME NEW F, NEW f \in Seq(F), f # <<>>, DomainFilterOk(f), NEW T, NEW t \in Seq(T)
  PROVE  /\ MatchFilter(f, t).ok <=> LevelsFit(f, t)
         /\ MatchFilter(f, t).ok =>
              /\ MatchFilter(f, t).single \in Seq(T)
              /\ Catches(f, t, 1, MatchFilter(f, t).single)
<1> DEFINE n == Len(f)
<1>1. n \in Nat /\ n >= 1 /\ DOMAIN f = 1..n /\ Len(t) \in Nat /\ DOMAIN t = 1..Len(t)
  OBVIOUS
<1>2. \A j \in 1..n : f[j] = "#" => j = n
  BY <1>1 DEF DomainFilterOk
<1>3. LevelsFit(f, t) <=> TopicNameOk(t) /\ Fits(f, t, 1)
  BY DEF LevelsFit, TopicNameOk, Fits
<1>4. CASE ~TopicNameOk(t)
  <2>1. MatchFilter(f, t) = NoMatch
    BY <1>4 DEF MatchFilter
  <2> QED
    BY <1>3, <1>4, <2>1 DEF NoMatch
<1>5. CASE TopicNameOk(t)
  <2>1. PICK w : WalkFrom(f, t, 1, w) /\ MatchFilter(f, t) = w[1]
    BY <1>1, <1>5, MatchIsWalk
  <2>2. Answer(f, t, T, 1, w[1])
    <3>1. 1 \in 1..(n + 1)
      BY <1>1
    <3>2. \A i \in 1..(n + 1) : Answer(f, t, T, i, w[i])
      BY <1>2, <2>1, WalkAnswers
    <3> QED
      BY <3>1, <3>2
  <2>3. 1 - 1 <= Len(t) /\ 1 # n + 1
    BY <1>1
  <2> QED
    BY <1>3, <1>5, <2>1, <2>2, <2>3 DEF Answer
<1> QED
  BY <1>4, <1>5

\* The k-th parameter is the level that the k-th wildcard has caught.
LEMMA ParameterIsCaught ==
  ASSUME NEW F, NEW f \in Seq(F), NEW T, NEW t, NEW s \in Seq(T), Catches(f, t, 1, s),
         NEW k \in Nat
  PROVE  /\ k < Len(s) => s[k + 1] \in Caught(f, t, k)
         /\ ~(k < Len(s)) => Caught(f, t, k) = {}
<1> DEFINE n == Len(f)
<1>1. n \in Nat /\ DOMAIN f = 1..n /\ Len(s) \in Nat
  OBVIOUS
<1>2. Caught(f, t, k) =
        {t[i] : i \in {j \in Pluses(f, 1, n) : Cardinality(Pluses(f, 1, j - 1)) = k}}
  <2>1. {j \in DOMAIN f : f[j] = "+" /\ Cardinality({h \in 1..(j - 1) : f[h] = "+"}) = k} =
          {j \in Pluses(f, 1, n) : Cardinality(Pluses(f, 1, j - 1)) = k}
    BY <1>1 DEF Pluses
  <2> QED
    BY <2>1 DEF Caught
<1>3. ASSUME k < Len(s) PROVE s[k + 1] \in Caught(f, t, k)
  <2>1. k + 1 \in 1..Len(s) /\ (k + 1) - 1 = k
    BY <1>1, <1>3
  <2>2. PICK j \in Pluses(f, 1, n) :
          Cardinality(Pluses(f, 1, j - 1)) = (k + 1) - 1 /\ s[k + 1] = t[j]
    BY <2>1 DEF Catches
  <2>3. Cardinality(Pluses(f, 1, j - 1)) = k
    BY <2>1, <2>2
  <2> QED
    BY <1>2, <2>2, <2>3
<1>4. ASSUME ~(k < Len(s)) PROVE Caught(f, t, k) = {}
  <2>1. \A j \in Pluses(f, 1, n) : Cardinality(Pluses(f, 1, j - 1)) # k
    BY <1>4 DEF Catches
  <2> QED
    BY <1>2, <2>1
<1> QED
  BY <1>3, <1>4

-----------------------------------------------------------------------------
(* The route of a message.                                                 *)

\* The enabled routes whose filter denotes a topic, and those that fit it:
\* the same ones and, for a topic of the server, those that overreach.
Meant(c, topic) ==
  {i \in DOMAIN c.routes : c.routes[i].enabled /\ Denotes(c.routes[i].filter, topic)}
Fitting(c, topic) ==
  {i \in DOMAIN c.routes : c.routes[i].enabled /\ LevelsFit(c.routes[i].filter, topic)}

\* FirstRouteWins for the message l.
RightRoute(c, l) ==
  LET topic == l.message.topic
      route == c.routes[Min(Fitting(c, topic))]
  IN  /\ Meant(c, topic) # {} /\ l.route = route.id
      /\ l.ok /\ route.device[1] = "wildcard" =>
           LET levels == Caught(route.filter, topic, route.device[2])
           IN  IF levels = {} THEN l.device = Absent
               ELSE \E x \in levels : l.device = <<"string", <<x>>>>

\* FirstRouteWins says that of the last one.
LEMMA RightRouteForm == FirstRouteWins <=> (last # Nothing => RightRoute(config, last))
<1> DEFINE topic == last.message.topic
           live == {i \in DOMAIN config.routes : config.routes[i].enabled}
           meant == {i \in live : Denotes(config.routes[i].filter, topic)}
           over == {i \in live : Overreaches(config.routes[i].filter, topic)}
<1>1. meant = Meant(config, topic)
  BY DEF Meant
<1>2. meant \cup over = Fitting(config, topic)
  BY DEF Fitting, Denotes, Overreaches
<1> QED
  BY <1>1, <1>2, Zenon DEF FirstRouteWins, RightRoute

\* Both matchers find the routes that fit.
LEMMA MatchersAgree ==
  ASSUME NEW c \in Configs, ValidateConfig(c), NEW m \in Messages,
         NEW i \in Enabled(c.routes)
  PROVE  LET f == c.routes[i].filter
             found == MatchFilter(f, m.topic)
         IN  /\ found.ok <=> LevelsFit(f, m.topic)
             /\ EngineMatches(f, m.topic) <=> LevelsFit(f, m.topic)
             /\ found.ok =>
                  /\ found.single \in Seq(ToSet(m.topic))
                  /\ Catches(f, m.topic, 1, found.single)
<1> DEFINE f == c.routes[i].filter
<1>1. i \in DOMAIN c.routes
  BY DEF Enabled
<1>2. f \in Seq(ToSet(f)) /\ f # <<>> /\ m.topic \in Seq(ToSet(m.topic))
  BY <1>1, ConfigsAssumption, MessagesAssumption
<1>3. DomainFilterOk(f)
  BY <1>1 DEF ValidateConfig, DomainOk, RouteOk
<1> HIDE DEF f
<1>4. /\ MatchFilter(f, m.topic).ok <=> LevelsFit(f, m.topic)
      /\ MatchFilter(f, m.topic).ok =>
           /\ MatchFilter(f, m.topic).single \in Seq(ToSet(m.topic))
           /\ Catches(f, m.topic, 1, MatchFilter(f, m.topic).single)
  BY <1>2, <1>3, MatchFits
<1> QED
  BY <1>4 DEF EngineMatches, f

\* A message that is delivered is normalized by the first route that fits.
LEMMA RoutedFirst ==
  ASSUME GateInv, phase = "running", NEW b \in Enabled(config.brokers), NEW m \in Messages,
         Delivered(config.brokers[b], m)
  PROVE  LET at == Fitting(config, m.topic)
             route == config.routes[Min(at)]
         IN  /\ Meant(config, m.topic) # {} /\ at # {} /\ Min(at) \in at
             /\ NormalizeRouted(config.brokers[b], m) =
                  LET result == Normalize(route, MatchFilter(route.filter, m.topic),
                                          Find(config.mappings, route.mapping), m)
                  IN  [route |-> route.id, ok |-> result.ok, event |-> result.event]
<1> DEFINE broker == config.brokers[b]
           at == Fitting(config, m.topic)
<1>1. config \in Configs /\ ValidateConfig(config)
  BY DEF GateInv
<1>2. BrokerRoutes(config, broker) = Enabled(config.routes)
  BY <1>1, RoutesOfBroker
<1>3. \A i \in Enabled(config.routes) :
        /\ MatchFilter(config.routes[i].filter, m.topic).ok
             <=> LevelsFit(config.routes[i].filter, m.topic)
        /\ EngineMatches(config.routes[i].filter, m.topic)
             <=> LevelsFit(config.routes[i].filter, m.topic)
  BY <1>1, MatchersAgree
<1>4. at = {i \in Enabled(config.routes) : LevelsFit(config.routes[i].filter, m.topic)}
  BY DEF Fitting, Enabled
<1>5. MatchingRoutes(broker, m.topic) = at
  BY <1>2, <1>3, <1>4 DEF MatchingRoutes
<1>6. DOMAIN Subscriptions(config, broker) = {config.routes[i].filter : i \in Enabled(config.routes)}
  BY <1>2 DEF Subscriptions
<1>7. PICK i \in Enabled(config.routes) : /\ Denotes(config.routes[i].filter, m.topic)
                                          /\ LevelsFit(config.routes[i].filter, m.topic)
  BY <1>6 DEF Delivered, Denotes
<1>8. at # {}
  BY <1>4, <1>7
<1>9. HandlerFound(broker, m.topic)
  BY <1>3, <1>6, <1>7 DEF HandlerFound
<1>10. at \in SUBSET Nat
  <2>1. DOMAIN config.routes \subseteq Nat
    BY <1>1, ConfigsAssumption
  <2> QED
    BY <2>1 DEF Fitting
<1> HIDE DEF at, broker
<1>11. Min(at) \in at
  BY <1>8, <1>10, MinIsLeast
<1>12. Meant(config, m.topic) # {}
  BY <1>7 DEF Meant, Enabled
<1> QED
  BY <1>5, <1>8, <1>9, <1>11, <1>12 DEF NormalizeRouted, at, broker

\* The device id of a normalized message is what its route's source gives.
LEMMA DeviceOf ==
  ASSUME NEW route, NEW params, NEW mappings, NEW message,
         Normalize(route, params, mappings, message).ok, route.device[1] = "wildcard"
  PROVE  Normalize(route, params, mappings, message).event.device =
           IF route.device[2] < Len(params.single)
           THEN <<"string", <<params.single[route.device[2] + 1]>>>> ELSE Absent
<1> DEFINE payload == DecodePayload(route.codec, message)
<1>1. payload # Error
  BY DEF Normalize
<1>2. Normalize(route, params, mappings, message).event.device =
        ExtractDeviceId(route, params, payload)
  BY <1>1 DEF Normalize
<1> HIDE DEF payload
<1> QED
  BY <1>2 DEF ExtractDeviceId

\* A message takes its right route.
LEMMA ReceiveRight ==
  ASSUME GateInv, NEW b \in Enabled(config.brokers), NEW m \in Messages,
         Receive(config.brokers[b], m)
  PROVE  RightRoute(config, last')
<1> DEFINE at == Fitting(config, m.topic)
           route == config.routes[Min(at)]
           params == MatchFilter(route.filter, m.topic)
           result == Normalize(route, params, Find(config.mappings, route.mapping), m)
           routed == NormalizeRouted(config.brokers[b], m)
<1>1. /\ phase = "running" /\ Delivered(config.brokers[b], m)
      /\ last' = [route |-> routed.route, ok |-> routed.ok, message |-> m,
                  device |-> IF routed.ok THEN routed.event.device ELSE Absent]
  BY DEF Receive
<1>2. config \in Configs /\ ValidateConfig(config)
  BY <1>1 DEF GateInv
<1>3. /\ Meant(config, m.topic) # {} /\ at # {} /\ Min(at) \in at
      /\ routed = [route |-> route.id, ok |-> result.ok, event |-> result.event]
  BY <1>1, RoutedFirst
<1>4. Min(at) \in Enabled(config.routes) /\ LevelsFit(route.filter, m.topic)
  BY <1>3 DEF Fitting, Enabled
<1>5. params.single \in Seq(ToSet(m.topic)) /\ Catches(route.filter, m.topic, 1, params.single)
  BY <1>2, <1>4, MatchersAgree
<1>6. route.filter \in Seq(ToSet(route.filter))
      /\ (route.device[1] = "wildcard" => route.device[2] \in Nat)
  <2>1. Min(at) \in DOMAIN config.routes
    BY <1>4 DEF Enabled
  <2> QED
    BY <1>2, <2>1, ConfigsAssumption
<1>7. result.ok /\ route.device[1] = "wildcard" =>
        result.event.device = IF route.device[2] < Len(params.single)
                              THEN <<"string", <<params.single[route.device[2] + 1]>>>>
                              ELSE Absent
  BY DeviceOf
<1> HIDE DEF result, params, at, route, routed
<1>8. /\ last'.route = route.id /\ last'.ok = result.ok /\ last'.message = m
      /\ result.ok => last'.device = result.event.device
  BY <1>1, <1>3
<1>9. ASSUME last'.ok, route.device[1] = "wildcard"
      PROVE  LET levels == Caught(route.filter, m.topic, route.device[2])
             IN  IF levels = {} THEN last'.device = Absent
                 ELSE \E x \in levels : last'.device = <<"string", <<x>>>>
  <2> DEFINE k == route.device[2]
             levels == Caught(route.filter, m.topic, k)
  <2>1. k \in Nat /\ last'.device = IF k < Len(params.single)
                                    THEN <<"string", <<params.single[k + 1]>>>> ELSE Absent
    BY <1>6, <1>7, <1>8, <1>9
  <2> HIDE DEF k
  <2>2. /\ k < Len(params.single) => params.single[k + 1] \in levels
        /\ ~(k < Len(params.single)) => levels = {}
    BY <1>5, <1>6, <2>1, ParameterIsCaught
  <2> HIDE DEF levels
  <2>3. IF levels = {} THEN last'.device = Absent
        ELSE \E x \in levels : last'.device = <<"string", <<x>>>>
    BY <2>1, <2>2
  <2> QED
    BY <2>3 DEF levels, k
<1> QED
  BY <1>3, <1>8, <1>9 DEF RightRoute, at, route

\* A message is one that an enabled route denotes and goes to the first such
\* route, unless its topic begins with a '$' and an earlier filter with a
\* wildcard; it takes its device id from the wildcard the route names, for
\* every configuration, filter and topic.
THEOREM FirstRouteWinsHolds == Spec => []FirstRouteWins
<1>1. Init => FirstRouteWins
  BY DEF Init, FirstRouteWins
<1>2. ASSUME IInv, FirstRouteWins, [Next]_vars PROVE FirstRouteWins'
  <2>1. GateInv /\ config' = config
    BY <1>2, GateStep DEF IInv
  <2>2. (FirstRouteWins <=> (last # Nothing => RightRoute(config, last)))'
    BY RightRouteForm, PTL
  <2>3. CASE \E i \in Enabled(config.brokers), m \in Messages : Receive(config.brokers[i], m)
    <3>1. RightRoute(config, last')
      BY <2>1, <2>3, ReceiveRight
    <3> QED
      BY <2>1, <2>2, <3>1
  <2>4. CASE UNCHANGED last
    BY <1>2, <2>1, <2>2, <2>4, RightRouteForm
  <2>5. \/ \E i \in Enabled(config.brokers), m \in Messages : Receive(config.brokers[i], m)
        \/ UNCHANGED last
    BY <1>2, ZenonT(40)
    DEF Next, Dispatch, Validate, Start, SkipAfterDrop, StreamToUi, ForwardToSink,
        ExecuteCommand, AddMetadata, DropEvent, FinishDispatch, TakeForward, ProcessCommand,
        CloseQueue, ToggleViewers, outside, vars
  <2> QED
    BY <2>3, <2>4, <2>5
<1> QED
  BY <1>1, <1>2, Invariance, PTL DEF Spec

-----------------------------------------------------------------------------
(* The renderer, which scans a text, and the pieces of the text.           *)

\* The sequences that FlattenSeq builds on its way.
Flattens(s, A, f) ==
  /\ f \in [0..Len(s) -> Seq(A)]
  /\ f[0] = <<>> /\ f[Len(s)] = FlattenSeq(s)
  /\ \A i \in 1..Len(s) : f[i] = f[i - 1] \o s[i]

\* There are such prefixes.
LEMMA PrefixesExist ==
  ASSUME NEW A, NEW s \in Seq(Seq(A))
  PROVE  \E f : Flattens(s, A, f)
<1> DEFINE n == Len(s)
           h == CHOOSE f : f = [i \in 1..n |-> IF i = 1 THEN s[i] ELSE f[i - 1] \o s[i]]
           f == [i \in 0..n |-> IF i = 0 THEN <<>> ELSE h[i]]
<1>1. n \in Nat /\ \A i \in 1..n : s[i] \in Seq(A)
  OBVIOUS
<1>2. h = [i \in 1..n |-> IF i = 1 THEN s[i] ELSE h[i - 1] \o s[i]]
  BY <1>1, FlattenExists
<1> HIDE DEF h
<1>3. \A i \in 1..n : h[i] = IF i = 1 THEN s[i] ELSE h[i - 1] \o s[i]
  BY <1>2
<1>4. f[0] = <<>> /\ \A i \in 1..n : f[i] = h[i] /\ i \in 0..n
  BY <1>1
<1>5. f[n] = FlattenSeq(s)
  <2>1. CASE n = 0
    <3>1. FlattenSeq(s) = s
      BY <2>1 DEF FlattenSeq
    <3>2. s = <<>>
      BY <2>1
    <3> QED
      BY <1>4, <2>1, <3>1, <3>2
  <2>2. CASE n # 0
    <3>1. n \in 1..n
      BY <1>1, <2>2
    <3>2. FlattenSeq(s) = h[n]
      BY <2>2 DEF FlattenSeq, h
    <3> QED
      BY <1>4, <3>1, <3>2
  <2> QED
    BY <2>1, <2>2
<1>6. \A i \in 1..n : f[i] = f[i - 1] \o s[i]
  <2>1. SUFFICES ASSUME NEW i \in 1..n PROVE f[i] = f[i - 1] \o s[i]
    OBVIOUS
  <2>2. CASE i = 1
    <3>1. f[i] = s[i] /\ f[i - 1] = <<>> /\ s[i] \in Seq(A)
      <4>1. i - 1 = 0 /\ h[i] = s[i]
        BY <1>3, <2>2
      <4> HIDE DEF f
      <4> QED
        BY <1>1, <1>4, <4>1
    <3> HIDE DEF f
    <3>2. <<>> \o s[i] = s[i]
      BY <3>1, ConcatEmptySeq
    <3> QED
      BY <3>1, <3>2
  <2>3. CASE i # 1
    <3>1. i - 1 \in 1..n
      BY <1>1, <2>3
    <3> HIDE DEF f
    <3> QED
      BY <1>3, <1>4, <2>3, <3>1
  <2> QED
    BY <2>2, <2>3
<1> DEFINE Bad == {i \in 0..n : f[i] \notin Seq(A)}
<1>7. Bad = {}
  <2>1. SUFFICES ASSUME Bad # {} PROVE FALSE
    OBVIOUS
  <2>2. PICK m \in Bad : \A x \in Bad : m <= x
    <3>1. Bad \in SUBSET Nat
      BY <1>1
    <3> HIDE DEF Bad
    <3> QED
      BY <2>1, <3>1, LeastExists
  <2>3. m \in 0..n /\ f[m] \notin Seq(A)
    OBVIOUS
  <2> HIDE DEF f
  <2>4. m # 0
    <3>1. <<>> \in Seq(A)
      OBVIOUS
    <3> QED
      BY <1>4, <2>3, <3>1
  <2>5. m \in 1..n /\ m - 1 \in 0..n /\ ~(m <= m - 1)
    BY <1>1, <2>3, <2>4
  <2>6. f[m - 1] \in Seq(A)
    BY <2>2, <2>5
  <2>7. f[m] \in Seq(A)
    <3>1. f[m] = f[m - 1] \o s[m] /\ s[m] \in Seq(A)
      BY <1>1, <1>6, <2>5
    <3> QED
      BY <2>6, <3>1, ConcatProperties
  <2> QED
    BY <2>3, <2>7
<1>8. f \in [0..n -> Seq(A)]
  BY <1>7
<1> HIDE DEF f
<1>9. Flattens(s, A, f)
  BY <1>4, <1>5, <1>6, <1>8 DEF Flattens
<1> QED
  BY <1>9

\* A prefix, the next part and what follows.
LEMMA PrefixGrows ==
  ASSUME NEW A, NEW s \in Seq(Seq(A)), NEW f, Flattens(s, A, f), NEW k \in 1..Len(s)
  PROVE  /\ f[k - 1] \in Seq(A) /\ f[k] \in Seq(A) /\ s[k] \in Seq(A)
         /\ f[k] = f[k - 1] \o s[k]
         /\ Len(f[k]) = Len(f[k - 1]) + Len(s[k])
         /\ Len(f[k - 1]) \in Nat /\ Len(s[k]) \in Nat
<1>1. Len(s) \in Nat /\ k \in 0..Len(s) /\ k - 1 \in 0..Len(s)
  OBVIOUS
<1>2. f[k - 1] \in Seq(A) /\ s[k] \in Seq(A) /\ f[k] = f[k - 1] \o s[k]
  <2>1. f \in [0..Len(s) -> Seq(A)] /\ \A i \in 1..Len(s) : f[i] = f[i - 1] \o s[i]
    BY DEF Flattens
  <2>2. f[k - 1] \in Seq(A)
    BY <1>1, <2>1
  <2>3. s[k] \in Seq(A)
    OBVIOUS
  <2> QED
    BY <2>1, <2>2, <2>3
<1>3. Len(f[k - 1]) \in Nat /\ Len(s[k]) \in Nat
  BY <1>2
<1>4. f[k] \in Seq(A) /\ Len(f[k]) = Len(f[k - 1]) + Len(s[k])
  BY <1>2, ConcatProperties
<1> QED
  BY <1>2, <1>3, <1>4

Begins(t, u, A) == \E w \in Seq(A) : t = u \o w

\* What begins with u and v begins with u.
LEMMA BeginsBefore ==
  ASSUME NEW A, NEW t, NEW u \in Seq(A), NEW v \in Seq(A), Begins(t, u \o v, A)
  PROVE  Begins(t, u, A)
<1>1. PICK w \in Seq(A) : t = (u \o v) \o w
  BY DEF Begins
<1>2. v \o w \in Seq(A)
  BY ConcatProperties
<1>3. (u \o v) \o w = u \o (v \o w)
  BY ConcatAssociative
<1> QED
  BY <1>1, <1>2, <1>3 DEF Begins

\* The whole begins with every prefix.
LEMMA PrefixBegins ==
  ASSUME NEW A, NEW s \in Seq(Seq(A)), NEW f, Flattens(s, A, f)
  PROVE  \A k \in 0..Len(s) : Begins(FlattenSeq(s), f[k], A)
<1> DEFINE n == Len(s)
           t == FlattenSeq(s)
           Bad == {m \in 0..n : ~Begins(t, f[n - m], A)}
<1>1. n \in Nat
  OBVIOUS
<1>2. Bad = {}
  <2>1. SUFFICES ASSUME Bad # {} PROVE FALSE
    OBVIOUS
  <2>2. PICK m \in Bad : \A x \in Bad : m <= x
    <3>1. Bad \in SUBSET Nat
      BY <1>1
    <3> HIDE DEF Bad
    <3> QED
      BY <2>1, <3>1, LeastExists
  <2>3. m \in 0..n /\ ~Begins(t, f[n - m], A)
    OBVIOUS
  <2>4. m # 0
    <3>1. f[n] = t /\ f[n] \in Seq(A) /\ <<>> \in Seq(A)
      BY <1>1 DEF Flattens
    <3>2. t = f[n] \o <<>>
      BY <3>1, ConcatEmptySeq
    <3>3. Begins(t, f[n], A)
      BY <3>1, <3>2 DEF Begins
    <3>4. n - 0 = n
      BY <1>1
    <3> QED
      BY <2>3, <3>3, <3>4
  <2>5. m - 1 \in 0..n /\ ~(m <= m - 1)
    BY <1>1, <2>3, <2>4
  <2>6. PICK i \in 1..n : i = n - (m - 1) /\ i - 1 = n - m
    <3>1. n - (m - 1) \in 1..n /\ (n - (m - 1)) - 1 = n - m
      BY <1>1, <2>3, <2>4
    <3> QED
      BY <3>1
  <2>7. Begins(t, f[i], A)
    <3> HIDE DEF t
    <3> QED
      BY <2>2, <2>5, <2>6
  <2>8. f[i - 1] \in Seq(A) /\ s[i] \in Seq(A) /\ f[i] = f[i - 1] \o s[i]
    BY PrefixGrows
  <2>9. Begins(t, f[i - 1], A)
    <3> HIDE DEF Bad, t
    <3> QED
      BY <2>7, <2>8, BeginsBefore
  <2> QED
    BY <2>3, <2>6, <2>9
<1>3. SUFFICES ASSUME NEW k \in 0..n PROVE Begins(t, f[k], A)
  OBVIOUS
<1>4. n - k \in 0..n /\ n - (n - k) = k
  BY <1>1
<1> HIDE DEF t
<1> QED
  BY <1>2, <1>4

\* Where a part lies in the whole.
LEMMA PartInWhole ==
  ASSUME NEW A, NEW s \in Seq(Seq(A)), NEW f, Flattens(s, A, f), NEW k \in 1..Len(s)
  PROVE  /\ Len(f[k]) <= Len(FlattenSeq(s))
         /\ \A j \in 1..Len(s[k]) : FlattenSeq(s)[Len(f[k - 1]) + j] = s[k][j]
<1> DEFINE b == f[k - 1]
           c == s[k]
<1>1. b \in Seq(A) /\ c \in Seq(A) /\ f[k] \in Seq(A) /\ f[k] = b \o c
      /\ Len(f[k]) = Len(b) + Len(c)
      /\ Len(b) \in Nat /\ Len(c) \in Nat
  BY PrefixGrows
<1>2. k \in 0..Len(s)
  OBVIOUS
<1>3. PICK w \in Seq(A) : FlattenSeq(s) = f[k] \o w
  BY <1>2, PrefixBegins, ZenonT(40) DEF Begins
<1>4. FlattenSeq(s) = (b \o c) \o w
  BY <1>1, <1>3
<1> HIDE DEF b, c
<1>5. Len(FlattenSeq(s)) = Len(f[k]) + Len(w) /\ Len(w) \in Nat
  BY <1>1, <1>3, ConcatProperties
<1>6. ASSUME NEW j \in 1..Len(c) PROVE FlattenSeq(s)[Len(b) + j] = c[j]
  <2>1. (b \o c)[Len(b) + j] = c[j]
    BY <1>1
  <2>2. Len(b) + j \in 1..(Len(f[k]) + Len(w)) /\ Len(b) + j <= Len(f[k])
    BY <1>1, <1>5
  <2>3. (f[k] \o w)[Len(b) + j] = f[k][Len(b) + j]
    BY <1>1, <2>2, ConcatProperties
  <2> QED
    BY <1>1, <1>3, <2>1, <2>3
<1>7. Len(f[k]) <= Len(FlattenSeq(s))
  BY <1>1, <1>5
<1> QED
  BY <1>6, <1>7 DEF b, c

\* A token of a part is a token of the whole.
LEMMA HasPart ==
  ASSUME NEW A, NEW s \in Seq(Seq(A)), NEW k \in 1..Len(s), NEW x, Has(s[k], x)
  PROVE  Has(FlattenSeq(s), x)
<1>1. PICK f : Flattens(s, A, f)
  BY PrefixesExist
<1>2. /\ Len(f[k]) = Len(f[k - 1]) + Len(s[k])
      /\ Len(f[k - 1]) \in Nat /\ Len(s[k]) \in Nat /\ s[k] \in Seq(A)
  BY <1>1, PrefixGrows
<1>3. PICK j \in 1..Len(s[k]) : s[k][j] = x
  BY <1>2 DEF Has
<1>4. /\ Len(f[k]) <= Len(FlattenSeq(s))
      /\ FlattenSeq(s)[Len(f[k - 1]) + j] = s[k][j]
  BY <1>1, PartInWhole
<1>5. FlattenSeq(s) \in Seq(A)
  BY FlattenType
<1>6. Len(f[k - 1]) + j \in 1..Len(FlattenSeq(s))
  <2>1. Len(FlattenSeq(s)) \in Nat
    BY <1>5
  <2>2. PICK b \in Nat, c \in Nat, n \in Nat :
          b = Len(f[k - 1]) /\ c = Len(s[k]) /\ n = Len(FlattenSeq(s))
    BY <1>2, <2>1
  <2>3. j \in 1..c /\ b + c <= n
    BY <1>2, <1>4, <2>2
  <2>4. b + j \in 1..n
    BY <2>3
  <2> QED
    BY <2>2, <2>4
<1>7. Len(f[k - 1]) + j \in DOMAIN FlattenSeq(s)
  BY <1>5, <1>6
<1> QED
  BY <1>3, <1>4, <1>7 DEF Has

-----------------------------------------------------------------------------
\* The place of the first token from a place on.
At(text, token, from, i) ==
  i \in from..Len(text) /\ text[i] = token /\ \A j \in from..(i - 1) : text[j] # token

\* It is not there.
NoneFrom(text, token, from) == \A j \in from..Len(text) : text[j] # token

\* str::find() of a token that is there.
LEMMA FirstFound ==
  ASSUME NEW A, NEW text \in Seq(A), NEW token, NEW from \in 1..(Len(text) + 1),
         NEW j \in from..Len(text), text[j] = token
  PROVE  \E i \in from..Len(text) : At(text, token, from, i)
<1> DEFINE S == {i \in from..Len(text) : text[i] = token}
<1>1. Len(text) \in Nat /\ from \in Nat
  OBVIOUS
<1>2. S \in SUBSET Nat /\ S # {}
  BY <1>1
<1>3. PICK i \in S : \A x \in S : i <= x
  <2> HIDE DEF S
  <2> QED
    BY <1>2, LeastExists
<1>4. i \in from..Len(text) /\ text[i] = token
  OBVIOUS
<1>5. ASSUME NEW k \in from..(i - 1), text[k] = token PROVE FALSE
  <2>1. k \in from..Len(text) /\ ~(i <= k)
    BY <1>1, <1>4
  <2> QED
    BY <1>3, <1>5, <2>1
<1> QED
  BY <1>4, <1>5 DEF At

\* There is only one such place.
LEMMA FirstIs ==
  ASSUME NEW A, NEW text \in Seq(A), NEW token, NEW from \in 1..(Len(text) + 1),
         NEW i, At(text, token, from, i)
  PROVE  First(text, token, from) = i
<1>1. Len(text) \in Nat /\ from \in Nat
  OBVIOUS
<1>2. i \in from..Len(text) /\ text[i] = token /\ \A j \in from..(i - 1) : text[j] # token
  BY DEF At
<1>3. ASSUME NEW k \in from..Len(text), text[k] = token,
             \A j \in from..(k - 1) : text[j] # token
      PROVE  k = i
  <2>1. ~(i \in from..(k - 1)) /\ ~(k \in from..(i - 1))
    BY <1>2, <1>3
  <2> QED
    BY <1>1, <1>2, <2>1
<1>4. \A k \in from..Len(text) :
        (text[k] = token /\ \A j \in from..(k - 1) : text[j] # token) => k = i
  BY <1>3
<1> QED
  BY <1>2, <1>4 DEF First

\* A token of the rest of a text.
LEMMA HasRest ==
  ASSUME NEW A, NEW text \in Seq(A), NEW token, NEW from \in 1..(Len(text) + 1)
  PROVE  Has(SubSeq(text, from, Len(text)), token) <=> \E j \in from..Len(text) : text[j] = token
<1> DEFINE u == SubSeq(text, from, Len(text))
<1>1. Len(text) \in Nat /\ from \in Nat /\ from >= 1 /\ from <= Len(text) + 1
  OBVIOUS
<1>2. /\ u \in Seq(A) /\ Len(u) = (Len(text) + 1) - from
      /\ \A i \in 1..Len(u) : u[i] = text[from + i - 1]
  <2>1. \A i \in from..Len(text) : text[i] \in A
    BY <1>1
  <2>2. /\ u \in Seq(A)
        /\ Len(u) = IF from <= Len(text) THEN Len(text) - from + 1 ELSE 0
        /\ \A i \in 1..(Len(text) - from + 1) : u[i] = text[from + i - 1]
    BY <1>1, <2>1, SubSeqProperties
  <2>3. Len(u) = (Len(text) + 1) - from /\ Len(text) - from + 1 = Len(u)
    BY <1>1, <2>2
  <2> QED
    BY <2>2, <2>3
<1> HIDE DEF u
<1>3. DOMAIN u = 1..Len(u)
  BY <1>2
<1>4. ASSUME Has(u, token) PROVE \E j \in from..Len(text) : text[j] = token
  <2>1. PICK i \in 1..Len(u) : u[i] = token
    BY <1>3, <1>4 DEF Has
  <2>2. from + i - 1 \in from..Len(text)
    BY <1>1, <1>2
  <2> QED
    BY <1>2, <2>1, <2>2
<1>5. ASSUME NEW j \in from..Len(text), text[j] = token PROVE Has(u, token)
  <2>1. PICK i \in 1..Len(u) : j = from + i - 1
    <3>1. (j + 1) - from \in 1..Len(u) /\ j = from + ((j + 1) - from) - 1
      BY <1>1, <1>2
    <3> QED
      BY <3>1
  <2> QED
    BY <1>2, <1>3, <1>5, <2>1 DEF Has
<1> QED
  BY <1>4, <1>5 DEF u

-----------------------------------------------------------------------------
\* What a parameter is worth in a topic or a payload.
ParamValue(surface, key, params) ==
  IF surface = "topic" THEN TopicParam(key, params) ELSE ScalarParam(key, params)

\* What the scanner has read from a place on, when rest says what it reads from
\* the later ones.
ScanAt(surface, text, params, from, rest) ==
  LET tail == SubSeq(text, from, Len(text)) IN
  IF ~Has(tail, OpenBrace) THEN Rendered(tail)
  ELSE LET start == First(text, OpenBrace, from) IN
       IF ~Has(SubSeq(text, start + 1, Len(text)), CloseBrace) THEN Failed
       ELSE LET end == First(text, CloseBrace, start + 1)
                key == SubSeq(text, start + 1, end - 1)
                value == ParamValue(surface, key, params)
                more == rest[end + 1]
            IN  IF BlankText(key) \/ ~value.ok \/ ~more.ok THEN Failed
                ELSE Rendered(SubSeq(text, from, start - 1) \o value.out \o more.out)

\* A text without an opening brace.
LEMMA ScanText ==
  ASSUME NEW surface, NEW A, NEW text \in Seq(A), NEW params, NEW rest,
         NEW from \in 1..(Len(text) + 1), NoneFrom(text, OpenBrace, from)
  PROVE  ScanAt(surface, text, params, from, rest)
           = Rendered(SubSeq(text, from, Len(text)))
<1>1. ~Has(SubSeq(text, from, Len(text)), OpenBrace)
  BY HasRest DEF NoneFrom
<1> QED
  BY <1>1 DEF ScanAt

\* An opening brace that is never closed.
LEMMA ScanUnclosed ==
  ASSUME NEW surface, NEW A, NEW text \in Seq(A), NEW params, NEW rest,
         NEW from \in 1..(Len(text) + 1), NEW start \in from..Len(text),
         At(text, OpenBrace, from, start), NoneFrom(text, CloseBrace, start + 1)
  PROVE  ScanAt(surface, text, params, from, rest) = Failed
<1>1. start + 1 \in 1..(Len(text) + 1)
  <2>1. Len(text) \in Nat
    OBVIOUS
  <2>2. from \in Nat /\ from >= 1 /\ start \in Nat /\ from <= start /\ start <= Len(text)
    BY <2>1
  <2> QED
    BY <2>1, <2>2
<1>2. Has(SubSeq(text, from, Len(text)), OpenBrace)
  BY HasRest DEF At
<1>3. First(text, OpenBrace, from) = start
  BY FirstIs
<1>4. ~Has(SubSeq(text, start + 1, Len(text)), CloseBrace)
  BY <1>1, HasRest DEF NoneFrom
<1> QED
  BY <1>2, <1>3, <1>4 DEF ScanAt

\* A placeholder.
LEMMA ScanParam ==
  ASSUME NEW surface, NEW A, NEW text \in Seq(A), NEW params, NEW rest,
         NEW from \in 1..(Len(text) + 1), NEW start \in from..Len(text),
         At(text, OpenBrace, from, start),
         NEW end \in (start + 1)..Len(text), At(text, CloseBrace, start + 1, end)
  PROVE  ScanAt(surface, text, params, from, rest) =
           LET key == SubSeq(text, start + 1, end - 1)
               value == ParamValue(surface, key, params)
               more == rest[end + 1]
           IN  IF BlankText(key) \/ ~value.ok \/ ~more.ok THEN Failed
               ELSE Rendered(SubSeq(text, from, start - 1) \o value.out \o more.out)
<1>1. start + 1 \in 1..(Len(text) + 1)
  <2>1. Len(text) \in Nat
    OBVIOUS
  <2>2. from \in Nat /\ from >= 1 /\ start \in Nat /\ from <= start /\ start <= Len(text)
    BY <2>1
  <2> QED
    BY <2>1, <2>2
<1>2. Has(SubSeq(text, from, Len(text)), OpenBrace)
  BY HasRest DEF At
<1>3. First(text, OpenBrace, from) = start
  BY FirstIs
<1>4. Has(SubSeq(text, start + 1, Len(text)), CloseBrace)
  BY <1>1, HasRest DEF At
<1>5. First(text, CloseBrace, start + 1) = end
  BY <1>1, FirstIs
<1> QED
  BY <1>2, <1>3, <1>4, <1>5 DEF ScanAt

\* There is no other case.
LEMMA ScanCases ==
  ASSUME NEW A, NEW text \in Seq(A), NEW from \in 1..(Len(text) + 1)
  PROVE  \/ NoneFrom(text, OpenBrace, from)
         \/ \E start \in from..Len(text) :
              /\ At(text, OpenBrace, from, start)
              /\ \/ NoneFrom(text, CloseBrace, start + 1)
                 \/ \E end \in (start + 1)..Len(text) : At(text, CloseBrace, start + 1, end)
<1>1. SUFFICES ASSUME NEW j \in from..Len(text), text[j] = OpenBrace
      PROVE  \E start \in from..Len(text) :
               /\ At(text, OpenBrace, from, start)
               /\ \/ NoneFrom(text, CloseBrace, start + 1)
                  \/ \E end \in (start + 1)..Len(text) : At(text, CloseBrace, start + 1, end)
  BY DEF NoneFrom
<1>2. PICK start \in from..Len(text) : At(text, OpenBrace, from, start)
  BY <1>1, FirstFound
<1>3. start + 1 \in 1..(Len(text) + 1)
  OBVIOUS
<1>4. ASSUME NEW k \in (start + 1)..Len(text), text[k] = CloseBrace
      PROVE  \E end \in (start + 1)..Len(text) : At(text, CloseBrace, start + 1, end)
  BY <1>3, <1>4, FirstFound
<1> QED
  BY <1>2, <1>4 DEF NoneFrom

\* What the scanner reads from a place depends on later places only.
LEMMA ScanLater ==
  ASSUME NEW surface, NEW A, NEW text \in Seq(A), NEW params, NEW r1, NEW r2,
         NEW from \in 1..(Len(text) + 1),
         \A j \in (from + 1)..(Len(text) + 1) : r1[j] = r2[j]
  PROVE  ScanAt(surface, text, params, from, r1) = ScanAt(surface, text, params, from, r2)
<1>1. CASE NoneFrom(text, OpenBrace, from)
  BY <1>1, ScanText
<1>2. ASSUME NEW start \in from..Len(text), At(text, OpenBrace, from, start),
             NoneFrom(text, CloseBrace, start + 1)
      PROVE  ScanAt(surface, text, params, from, r1) = ScanAt(surface, text, params, from, r2)
  BY <1>2, ScanUnclosed
<1>3. ASSUME NEW start \in from..Len(text), At(text, OpenBrace, from, start),
             NEW end \in (start + 1)..Len(text), At(text, CloseBrace, start + 1, end)
      PROVE  ScanAt(surface, text, params, from, r1) = ScanAt(surface, text, params, from, r2)
  <2>1. end + 1 \in (from + 1)..(Len(text) + 1)
    OBVIOUS
  <2>2. r1[end + 1] = r2[end + 1]
    BY <2>1
  <2> DEFINE reads(rest) ==
               LET key == SubSeq(text, start + 1, end - 1)
                   value == ParamValue(surface, key, params)
                   more == rest[end + 1]
               IN  IF BlankText(key) \/ ~value.ok \/ ~more.ok THEN Failed
                   ELSE Rendered(SubSeq(text, from, start - 1) \o value.out \o more.out)
  <2>3. ScanAt(surface, text, params, from, r1) = reads(r1)
    BY <1>3, ScanParam
  <2>4. ScanAt(surface, text, params, from, r2) = reads(r2)
    BY <1>3, ScanParam
  <2>5. reads(r1) = reads(r2)
    BY <2>2
  <2> HIDE DEF reads
  <2> QED
    BY <2>3, <2>4, <2>5
<1> QED
  BY <1>1, <1>2, <1>3, ScanCases

\* The scanner from place k on.
ScanFrom(surface, text, params, k, rest) ==
  rest = [from \in k..(Len(text) + 1) |-> ScanAt(surface, text, params, from, rest)]

\* The scanner is defined by a recursive function; there is one.
LEMMA ScanExists ==
  ASSUME NEW surface, NEW A, NEW text \in Seq(A), NEW params
  PROVE  \E rest : ScanFrom(surface, text, params, 1, rest)
<1> DEFINE n == Len(text)
           P(k) == \E rest : ScanFrom(surface, text, params, k, rest)
           Bad == {m \in Nat : m <= n + 1 /\ ~P((n + 2) - m)}
<1>0. n \in Nat
  OBVIOUS
<1>1. SUFFICES Bad = {}
  <2>1. n + 1 \in Nat /\ n + 1 <= n + 1 /\ (n + 2) - (n + 1) = 1
    BY <1>0
  <2>2. SUFFICES n + 1 \notin Bad
    <3> HIDE DEF P
    <3>1. P((n + 2) - (n + 1))
      BY <2>1
    <3>2. P(1)
      BY <2>1, <3>1
    <3> QED
      BY <3>2 DEF P
  <2> HIDE DEF Bad
  <2> QED
    OBVIOUS
<1>2. SUFFICES ASSUME Bad # {} PROVE FALSE
  OBVIOUS
<1> HIDE DEF P
<1>3. PICK m \in Bad : \A x \in Bad : m <= x
  <2>1. Bad \in SUBSET Nat
    OBVIOUS
  <2> HIDE DEF Bad
  <2> QED
    BY <1>2, <2>1, LeastExists
<1>4. m \in Nat /\ m <= n + 1 /\ ~P((n + 2) - m)
  OBVIOUS
<1>5. m # 0
  <2>1. SUFFICES ASSUME m = 0 PROVE P(n + 2)
    <3>1. (n + 2) - 0 = n + 2
      BY <1>0
    <3> QED
      BY <1>4, <2>1, <3>1
  <2>2. (n + 2)..(n + 1) = {}
    BY <1>0
  <2>3. LET e == [i \in {} |-> 0]
        IN  e = [i \in (n + 2)..(n + 1) |-> ScanAt(surface, text, params, i, e)]
    BY <2>2
  <2> QED
    BY <2>3 DEF P, ScanFrom
<1>6. m - 1 \in Nat /\ m - 1 <= n + 1 /\ ~(m <= m - 1)
  BY <1>0, <1>4, <1>5
<1>7. PICK k \in 1..(n + 1) : k = (n + 2) - m /\ k + 1 = (n + 2) - (m - 1)
  <2>1. (n + 2) - m \in 1..(n + 1) /\ ((n + 2) - m) + 1 = (n + 2) - (m - 1)
    BY <1>0, <1>4, <1>5
  <2> QED
    BY <2>1
<1>8. P(k + 1)
  BY <1>3, <1>6, <1>7
<1>9. ~P(k)
  BY <1>4, <1>7
<1> HIDE DEF Bad
<1>10. PICK g : g = [i \in (k + 1)..(n + 1) |-> ScanAt(surface, text, params, i, g)]
  BY <1>8 DEF P, ScanFrom
<1> DEFINE h == [i \in k..(n + 1) |-> IF i = k THEN ScanAt(surface, text, params, i, g) ELSE g[i]]
<1>11. \A j \in (k + 1)..(n + 1) : h[j] = g[j]
  BY <1>0
<1>12. ASSUME NEW i \in k..(n + 1) PROVE h[i] = ScanAt(surface, text, params, i, h)
  <2>1. h[i] = ScanAt(surface, text, params, i, g)
    <3>1. CASE i = k
      BY <3>1
    <3>2. CASE i # k
      <4>1. i \in (k + 1)..(n + 1)
        BY <1>0, <3>2
      <4> QED
        BY <1>10, <3>2, <4>1
    <3> QED
      BY <3>1, <3>2
  <2>2. \A j \in (i + 1)..(n + 1) : g[j] = h[j]
    <3>1. \A j \in (i + 1)..(n + 1) : j \in (k + 1)..(n + 1)
      BY <1>0
    <3> HIDE DEF h
    <3> QED
      BY <1>11, <3>1
  <2>3. i \in 1..(Len(text) + 1)
    BY <1>0
  <2> HIDE DEF h
  <2>4. ScanAt(surface, text, params, i, g) = ScanAt(surface, text, params, i, h)
    BY <2>2, <2>3, ScanLater
  <2> QED
    BY <2>1, <2>4
<1>13. h = [i \in k..(n + 1) |-> ScanAt(surface, text, params, i, h)]
  <2>1. h = [i \in k..(n + 1) |-> h[i]]
    OBVIOUS
  <2> HIDE DEF h
  <2> QED
    BY <1>12, <2>1
<1> QED
  BY <1>9, <1>13 DEF P, ScanFrom

\* render_text_template() is the scanner from the beginning.
LEMMA RenderTextScans ==
  ASSUME NEW surface, NEW A, NEW text \in Seq(A), NEW params
  PROVE  \E rest : /\ ScanFrom(surface, text, params, 1, rest)
                   /\ RenderText(surface, text, params) =
                        IF rest[1].ok /\ ~Has(rest[1].out, CloseBrace) THEN rest[1] ELSE Failed
<1> DEFINE rest == CHOOSE rest : ScanFrom(surface, text, params, 1, rest)
<1>1. ScanFrom(surface, text, params, 1, rest)
  BY ScanExists
<1>2. RenderText(surface, text, params) =
        IF rest[1].ok /\ ~Has(rest[1].out, CloseBrace) THEN rest[1] ELSE Failed
  BY DEF RenderText, ScanFrom, ScanAt, ParamValue
<1> QED
  BY <1>1, <1>2

-----------------------------------------------------------------------------
\* What the scanner reads is a text.
ValuesIn(surface, params, A) == \A key : ParamValue(surface, key, params).out \in Seq(A)
Read(x, A) == x.ok \in BOOLEAN /\ x.out \in Seq(A)

\* One step of it.
LEMMA ScanAtType ==
  ASSUME NEW surface, NEW A, NEW text \in Seq(A), NEW params, ValuesIn(surface, params, A),
         NEW rest, NEW from \in 1..(Len(text) + 1),
         \A j \in (from + 1)..(Len(text) + 1) : Read(rest[j], A)
  PROVE  Read(ScanAt(surface, text, params, from, rest), A)
<1>1. Read(Failed, A)
  BY DEF Read, Failed
<1>2. \A out \in Seq(A) : Read(Rendered(out), A)
  BY DEF Read, Rendered
<1>3. Len(text) \in Nat /\ \A i \in 1..Len(text) : text[i] \in A
  OBVIOUS
<1>4. \A i \in Nat : SubSeq(text, from, i) \in Seq(A) \/ i > Len(text)
  <2>1. SUFFICES ASSUME NEW i \in Nat, i <= Len(text) PROVE SubSeq(text, from, i) \in Seq(A)
    BY <1>3
  <2>2. \A j \in from..i : text[j] \in A
    BY <1>3, <2>1
  <2> QED
    BY <2>2, SubSeqProperties
<1>5. CASE NoneFrom(text, OpenBrace, from)
  <2>1. SubSeq(text, from, Len(text)) \in Seq(A)
    BY <1>3, <1>4
  <2> QED
    BY <1>2, <1>5, <2>1, ScanText
<1>6. ASSUME NEW start \in from..Len(text), At(text, OpenBrace, from, start),
             NoneFrom(text, CloseBrace, start + 1)
      PROVE  Read(ScanAt(surface, text, params, from, rest), A)
  BY <1>1, <1>6, ScanUnclosed
<1>7. ASSUME NEW start \in from..Len(text), At(text, OpenBrace, from, start),
             NEW end \in (start + 1)..Len(text), At(text, CloseBrace, start + 1, end)
      PROVE  Read(ScanAt(surface, text, params, from, rest), A)
  <2> DEFINE key == SubSeq(text, start + 1, end - 1)
             value == ParamValue(surface, key, params)
             more == rest[end + 1]
             out == SubSeq(text, from, start - 1) \o value.out \o more.out
  <2>1. ScanAt(surface, text, params, from, rest) =
          IF BlankText(key) \/ ~value.ok \/ ~more.ok THEN Failed ELSE Rendered(out)
    BY <1>7, ScanParam
  <2>2. value.out \in Seq(A)
    BY DEF ValuesIn
  <2>3. more.out \in Seq(A)
    <3>1. end + 1 \in (from + 1)..(Len(text) + 1)
      OBVIOUS
    <3> QED
      BY <3>1 DEF Read
  <2>4. SubSeq(text, from, start - 1) \in Seq(A)
    <3>1. start - 1 \in Nat /\ start - 1 <= Len(text)
      OBVIOUS
    <3> QED
      BY <1>3, <1>4, <3>1
  <2> HIDE DEF key, value, more
  <2>5. out \in Seq(A)
    BY <2>2, <2>3, <2>4, ConcatProperties
  <2> HIDE DEF out
  <2> QED
    BY <1>1, <1>2, <2>1, <2>5
<1> QED
  BY <1>5, <1>6, <1>7, ScanCases

\* The whole of it.
LEMMA ScanType ==
  ASSUME NEW surface, NEW A, NEW text \in Seq(A), NEW params, ValuesIn(surface, params, A),
         NEW rest, ScanFrom(surface, text, params, 1, rest)
  PROVE  \A i \in 1..(Len(text) + 1) : Read(rest[i], A)
<1> DEFINE n == Len(text)
           Bad == {m \in 0..n : ~Read(rest[(n + 1) - m], A)}
<1>1. n \in Nat
  OBVIOUS
<1>2. \A i \in 1..(n + 1) : rest[i] = ScanAt(surface, text, params, i, rest)
  BY DEF ScanFrom
<1>3. Bad = {}
  <2>1. SUFFICES ASSUME Bad # {} PROVE FALSE
    OBVIOUS
  <2>2. PICK m \in Bad : \A x \in Bad : m <= x
    <3>1. Bad \in SUBSET Nat
      BY <1>1
    <3> HIDE DEF Bad
    <3> QED
      BY <2>1, <3>1, LeastExists
  <2>3. m \in 0..n /\ ~Read(rest[(n + 1) - m], A)
    OBVIOUS
  <2>4. PICK i \in 1..(n + 1) : i = (n + 1) - m
    BY <1>1, <2>3
  <2>5. ASSUME NEW j \in (i + 1)..(n + 1) PROVE Read(rest[j], A)
    <3>1. PICK x \in 0..n : j = (n + 1) - x /\ ~(m <= x)
      <4>1. (n + 1) - j \in 0..n /\ j = (n + 1) - ((n + 1) - j) /\ ~(m <= (n + 1) - j)
        BY <1>1, <2>3, <2>4
      <4> QED
        BY <4>1
    <3>2. x \notin Bad
      <4> HIDE DEF Bad
      <4> QED
        BY <2>2, <3>1
    <3> QED
      BY <3>1, <3>2
  <2>6. Read(ScanAt(surface, text, params, i, rest), A)
    BY <2>4, <2>5, ScanAtType
  <2> QED
    BY <1>2, <2>3, <2>4, <2>6
<1>4. SUFFICES ASSUME NEW i \in 1..(n + 1) PROVE Read(rest[i], A)
  OBVIOUS
<1>5. (n + 1) - i \in 0..n /\ (n + 1) - ((n + 1) - i) = i
  BY <1>1
<1>6. (n + 1) - i \notin Bad
  <2> HIDE DEF Bad
  <2> QED
    BY <1>3
<1>7. Read(rest[(n + 1) - ((n + 1) - i)], A)
  BY <1>5, <1>6
<1> QED
  BY <1>5, <1>7

\* What is read and what is refused.
LEMMA ReadOrNot ==
  ~Failed.ok /\ \A out : Rendered(out).ok /\ Rendered(out).out = out
BY DEF Rendered, Failed

\* Two and three texts one after the other.
Pair(c, b) == c \o b
Joined(b, v, w) == (b \o v) \o w

\* What comes before them all may be split off.
LEMMA JoinedSplits ==
  ASSUME NEW A, NEW c \in Seq(A), NEW b \in Seq(A), NEW v \in Seq(A), NEW w \in Seq(A)
  PROVE  Joined(Pair(c, b), v, w) = Pair(c, Joined(b, v, w))
<1>1. (c \o b) \o v = c \o (b \o v) /\ b \o v \in Seq(A)
  BY ConcatAssociative, ConcatProperties
<1>2. (c \o (b \o v)) \o w = c \o ((b \o v) \o w)
  BY <1>1, ConcatAssociative, SMTT(30)
<1> QED
  BY <1>1, <1>2 DEF Pair, Joined

\* What is read goes on: x is what is read from a place, if good holds it is out
\* and then y.
Continues(x, good, out, y) ==
  /\ x.ok <=> good /\ y.ok
  /\ x.ok => x.out = out \o y.out
NoneIn(text, token, from, to) == \A j \in from..to : text[j] # token

\* A text before the first brace is copied.
LEMMA SkipText ==
  ASSUME NEW surface, NEW A, NEW text \in Seq(A), NEW params, ValuesIn(surface, params, A),
         NEW rest, ScanFrom(surface, text, params, 1, rest),
         NEW from \in 1..(Len(text) + 1), NEW to \in from..(Len(text) + 1),
         NoneIn(text, OpenBrace, from, to - 1)
  PROVE  Continues(rest[from], TRUE, SubSeq(text, from, to - 1), rest[to])
<1> DEFINE n == Len(text)
           Skips == Continues(rest[from], TRUE, SubSeq(text, from, to - 1), rest[to])
<1>1. n \in Nat /\ from \in Nat /\ from >= 1 /\ to \in Nat /\ from <= to /\ to <= n + 1
      /\ to \in 1..(n + 1)
  OBVIOUS
<1>2. /\ rest[from] = ScanAt(surface, text, params, from, rest)
      /\ rest[to] = ScanAt(surface, text, params, to, rest)
  BY <1>1 DEF ScanFrom
<1>3. CASE NoneFrom(text, OpenBrace, to)
  <2>1. NoneFrom(text, OpenBrace, from)
    BY <1>1, <1>3 DEF NoneFrom, NoneIn
  <2>2. rest[from] = Rendered(SubSeq(text, from, n)) /\ rest[to] = Rendered(SubSeq(text, to, n))
    BY <1>1, <1>2, <1>3, <2>1, ScanText
  <2>3. SubSeq(text, from, n) = SubSeq(text, from, to - 1) \o SubSeq(text, to, n)
    <3>1. to - 1 \in (from - 1)..n /\ n \in (to - 1)..n /\ (to - 1) + 1 = to
      BY <1>1
    <3>2. PICK k \in (from - 1)..n : k = to - 1 /\ k + 1 = to
      BY <3>1
    <3>3. SubSeq(text, from, k) \o SubSeq(text, k + 1, n) = SubSeq(text, from, n)
      BY <3>1, <3>2, ConcatAdjacentSubSeq
    <3> QED
      BY <3>2, <3>3
  <2> QED
    BY <2>2, <2>3, ReadOrNot, Zenon DEF Continues
<1>4. ASSUME NEW start \in to..n, At(text, OpenBrace, to, start)
      PROVE  start \in from..n /\ At(text, OpenBrace, from, start)
  BY <1>1, <1>4 DEF At, NoneIn
<1>5. ASSUME NEW start \in to..n, At(text, OpenBrace, to, start),
             NoneFrom(text, CloseBrace, start + 1)
      PROVE  Skips
  <2>1. rest[to] = Failed
    BY <1>1, <1>2, <1>5, ScanUnclosed
  <2>2. start \in from..n /\ At(text, OpenBrace, from, start)
    BY <1>4, <1>5
  <2>3. rest[from] = Failed
    BY <1>2, <1>5, <2>2, ScanUnclosed
  <2> QED
    BY <2>1, <2>3, ReadOrNot, Zenon DEF Continues
<1>6. ASSUME NEW start \in to..n, At(text, OpenBrace, to, start),
             NEW end \in (start + 1)..n, At(text, CloseBrace, start + 1, end)
      PROVE  Skips
  <2> DEFINE key == SubSeq(text, start + 1, end - 1)
             value == ParamValue(surface, key, params)
             more == rest[end + 1]
             a == SubSeq(text, from, start - 1)
             b == SubSeq(text, to, start - 1)
             c == SubSeq(text, from, to - 1)
  <2>1. rest[to] = IF BlankText(key) \/ ~value.ok \/ ~more.ok THEN Failed
                   ELSE Rendered(b \o value.out \o more.out)
    BY <1>1, <1>2, <1>6, ScanParam
  <2>2. start \in from..n /\ At(text, OpenBrace, from, start)
    BY <1>4, <1>6
  <2>3. rest[from] = IF BlankText(key) \/ ~value.ok \/ ~more.ok THEN Failed
                     ELSE Rendered(a \o value.out \o more.out)
    BY <1>2, <1>6, <2>2, ScanParam
  <2>4. value.out \in Seq(A)
    BY DEF ValuesIn
  <2>5. more.out \in Seq(A)
    <3>1. end + 1 \in 1..(n + 1)
      BY <1>1
    <3> QED
      BY <3>1, ScanType DEF Read
  <2>6. a = c \o b
    <3>1. to - 1 \in (from - 1)..n /\ start - 1 \in (to - 1)..n /\ (to - 1) + 1 = to
      BY <1>1
    <3>2. PICK k \in (from - 1)..n : k = to - 1 /\ k + 1 = to
      BY <3>1
    <3>3. PICK i \in k..n : i = start - 1
      BY <3>1, <3>2
    <3>4. SubSeq(text, from, k) \o SubSeq(text, k + 1, i) = SubSeq(text, from, i)
      BY ConcatAdjacentSubSeq
    <3> QED
      BY <3>2, <3>3, <3>4
  <2>7. b \in Seq(A) /\ c \in Seq(A)
    <3>1. \A i \in to..(start - 1) : text[i] \in A
      BY <1>1
    <3>2. \A i \in from..(to - 1) : text[i] \in A
      BY <1>1
    <3>3. to \in Int /\ from \in Int /\ start - 1 \in Int /\ to - 1 \in Int
      BY <1>1
    <3>4. b \in Seq(A)
      BY <3>1, <3>3, SubSeqProperties
    <3>5. c \in Seq(A)
      BY <3>2, <3>3, SubSeqProperties
    <3> QED
      BY <3>4, <3>5
  <2> HIDE DEF key, value, more, a, b
  <2>8. a \o value.out \o more.out = c \o (b \o value.out \o more.out)
    <3> HIDE DEF c
    <3> DEFINE v == value.out
               w == more.out
    <3>1. v \in Seq(A) /\ w \in Seq(A)
      BY <2>4, <2>5
    <3> HIDE DEF v, w
    <3>2. a = Pair(c, b)
      BY <2>6 DEF Pair
    <3>3. Joined(a, v, w) = Pair(c, Joined(b, v, w))
      BY <2>7, <3>1, <3>2, JoinedSplits
    <3> QED
      BY <3>3 DEF v, w, Pair, Joined
  <2> QED
    BY <2>1, <2>3, <2>8, ReadOrNot, Zenon DEF Continues
<1> QED
  BY <1>1, <1>3, <1>5, <1>6, ScanCases

\* A placeholder is replaced.
LEMMA SkipParam ==
  ASSUME NEW surface, NEW A, NEW text \in Seq(A), NEW params, ValuesIn(surface, params, A),
         NEW rest, ScanFrom(surface, text, params, 1, rest),
         NEW from \in 1..Len(text), text[from] = OpenBrace,
         NEW end \in (from + 1)..Len(text), At(text, CloseBrace, from + 1, end),
         NEW key, key = SubSeq(text, from + 1, end - 1)
  PROVE  Continues(rest[from], ~BlankText(key) /\ ParamValue(surface, key, params).ok,
                   ParamValue(surface, key, params).out, rest[end + 1])
<1> DEFINE n == Len(text)
           value == ParamValue(surface, key, params)
           more == rest[end + 1]
<1>1. n \in Nat /\ from \in Nat /\ from >= 1 /\ from \in 1..(n + 1) /\ from \in from..n
      /\ end + 1 \in 1..(n + 1)
  OBVIOUS
<1>2. rest[from] = ScanAt(surface, text, params, from, rest)
  BY <1>1 DEF ScanFrom
<1>3. At(text, OpenBrace, from, from)
  BY <1>1 DEF At
<1>4. rest[from] = IF BlankText(key) \/ ~value.ok \/ ~more.ok THEN Failed
                   ELSE Rendered(SubSeq(text, from, from - 1) \o value.out \o more.out)
  BY <1>1, <1>2, <1>3, ScanParam
<1>5. value.out \in Seq(A)
  BY DEF ValuesIn
<1>6. SubSeq(text, from, from - 1) = <<>>
  BY <1>1, SubSeqEmpty
<1>7. <<>> \o value.out = value.out
  BY <1>5, ConcatEmptySeq
<1> HIDE DEF value, more
<1>8. rest[from] = IF BlankText(key) \/ ~value.ok \/ ~more.ok THEN Failed
                   ELSE Rendered(value.out \o more.out)
  BY <1>4, <1>6, <1>7
<1> QED
  BY <1>8, ReadOrNot, Zenon DEF value, more, Continues

-----------------------------------------------------------------------------
\* Where a text lies in another.
Lies(text, c, b) == /\ b \in Nat /\ b + Len(c) <= Len(text)
                    /\ \A j \in 1..Len(c) : text[b + j] = c[j]

\* It can be cut out there.
LEMMA LiesSub ==
  ASSUME NEW A, NEW text \in Seq(A), NEW c \in Seq(A), NEW b, Lies(text, c, b)
  PROVE  SubSeq(text, b + 1, b + Len(c)) = c
<1> DEFINE u == SubSeq(text, b + 1, b + Len(c))
<1>1. Len(c) \in Nat /\ Len(text) \in Nat /\ \A i \in 1..Len(text) : text[i] \in A
  OBVIOUS
<1>2. b \in Nat /\ b + Len(c) <= Len(text) /\ \A j \in 1..Len(c) : text[b + j] = c[j]
  BY DEF Lies
<1>3. PICK m \in Nat, n \in Nat : m = b + 1 /\ n = b + Len(c)
  BY <1>1, <1>2
<1>4. /\ u \in Seq(A) /\ Len(u) = IF m <= n THEN n - m + 1 ELSE 0
      /\ \A i \in 1..(n - m + 1) : u[i] = text[m + i - 1]
  <2>1. \A i \in m..n : text[i] \in A
    BY <1>1, <1>2, <1>3
  <2>2. u = SubSeq(text, m, n)
    BY <1>3
  <2> HIDE DEF u
  <2> QED
    BY <2>1, <2>2, SubSeqProperties
<1> HIDE DEF u
<1>5. Len(u) = Len(c)
  BY <1>1, <1>2, <1>3, <1>4
<1>6. ASSUME NEW i \in 1..Len(c) PROVE u[i] = c[i]
  <2>1. i \in 1..(n - m + 1) /\ m + i - 1 = b + i
    BY <1>1, <1>2, <1>3
  <2>2. u[i] = text[b + i]
    BY <1>4, <2>1
  <2> QED
    BY <1>2, <2>2
<1>7. u = c
  BY <1>4, <1>5, <1>6, SeqEqual
<1> QED
  BY <1>7 DEF u

\* A piece that is a text.
LEMMA TextStep ==
  ASSUME NEW surface, NEW A, NEW text \in Seq(A), NEW params, ValuesIn(surface, params, A),
         NEW rest, ScanFrom(surface, text, params, 1, rest),
         NEW c \in Seq(A), NEW b, Lies(text, c, b), ~Has(c, OpenBrace)
  PROVE  Continues(rest[b + 1], TRUE, c, rest[b + Len(c) + 1])
<1>1. Len(c) \in Nat /\ Len(text) \in Nat /\ DOMAIN c = 1..Len(c)
  OBVIOUS
<1>2. b \in Nat /\ b + Len(c) <= Len(text) /\ \A j \in 1..Len(c) : text[b + j] = c[j]
  BY DEF Lies
<1>a. PICK from \in 1..(Len(text) + 1) : from = b + 1
  BY <1>1, <1>2
<1>b. PICK to \in from..(Len(text) + 1) : to = b + Len(c) + 1 /\ to - 1 = b + Len(c)
  <2>1. /\ b + Len(c) + 1 \in from..(Len(text) + 1)
        /\ (b + Len(c) + 1) - 1 = b + Len(c)
    BY <1>1, <1>2, <1>a
  <2> QED
    BY <2>1
<1>3. from = b + 1 /\ to = b + Len(c) + 1 /\ to - 1 = b + Len(c)
  BY <1>a, <1>b
<1>4. ASSUME NEW j \in from..(to - 1) PROVE text[j] # OpenBrace
  <2>1. j - b \in 1..Len(c) /\ b + (j - b) = j
    BY <1>1, <1>2, <1>3
  <2>2. text[j] = c[j - b]
    BY <1>2, <2>1
  <2> QED
    BY <1>1, <2>1, <2>2 DEF Has
<1>5. Continues(rest[from], TRUE, SubSeq(text, from, to - 1), rest[to])
  <2>1. NoneIn(text, OpenBrace, from, to - 1)
    BY <1>4 DEF NoneIn
  <2> QED
    BY <2>1, SkipText
<1>6. SubSeq(text, from, to - 1) = c
  BY <1>3, LiesSub
<1> QED
  BY <1>3, <1>5, <1>6

\* A text at the end with a brace that is never closed.
LEMMA UnclosedStep ==
  ASSUME NEW surface, NEW A, NEW text \in Seq(A), NEW params,
         NEW rest, ScanFrom(surface, text, params, 1, rest),
         NEW c \in Seq(A), NEW b, Lies(text, c, b), b + Len(c) = Len(text), Has(c, OpenBrace),
         \A j, k \in DOMAIN c : c[j] = OpenBrace /\ c[k] = CloseBrace => k < j
  PROVE  ~rest[b + 1].ok
<1>1. Len(c) \in Nat /\ Len(text) \in Nat /\ DOMAIN c = 1..Len(c)
  OBVIOUS
<1>2. b \in Nat /\ \A j \in 1..Len(c) : text[b + j] = c[j]
  BY DEF Lies
<1>3. PICK from \in 1..(Len(text) + 1) : from = b + 1
  BY <1>1, <1>2
<1>4. PICK i \in 1..Len(c) : c[i] = OpenBrace
  BY <1>1 DEF Has
<1>5. b + i \in from..Len(text) /\ text[b + i] = OpenBrace
  BY <1>1, <1>2, <1>3, <1>4
<1>6. PICK start \in from..Len(text) : At(text, OpenBrace, from, start)
  BY <1>5, FirstFound
<1>7. ASSUME NEW k \in (start + 1)..Len(text), text[k] = CloseBrace PROVE FALSE
  <2>1. /\ k - b \in 1..Len(c) /\ b + (k - b) = k
        /\ start - b \in 1..Len(c) /\ b + (start - b) = start
        /\ ~(k - b < start - b)
    BY <1>1, <1>2, <1>3
  <2>2. c[k - b] = CloseBrace
    BY <1>2, <1>7, <2>1
  <2>3. c[start - b] = OpenBrace
    BY <1>2, <1>6, <2>1 DEF At
  <2> QED
    BY <1>1, <2>1, <2>2, <2>3
<1>8. NoneFrom(text, CloseBrace, start + 1)
  BY <1>7 DEF NoneFrom
<1>9. rest[from] = ScanAt(surface, text, params, from, rest)
  BY DEF ScanFrom
<1>10. rest[from] = Failed
  BY <1>6, <1>8, <1>9, ScanUnclosed
<1> QED
  BY <1>3, <1>10, ReadOrNot

\* A placeholder as it is written.
Quoted(key) == <<OpenBrace>> \o key \o <<CloseBrace>>

\* Its tokens.
LEMMA QuotedTokens ==
  ASSUME NEW A, NEW key \in Seq(A), OpenBrace \in A, CloseBrace \in A
  PROVE  /\ Quoted(key) \in Seq(A) /\ Len(Quoted(key)) = Len(key) + 2
         /\ Quoted(key)[1] = OpenBrace /\ Quoted(key)[Len(key) + 2] = CloseBrace
         /\ \A j \in 1..Len(key) : Quoted(key)[j + 1] = key[j]
<1>1. <<OpenBrace>> \in Seq(A) /\ <<CloseBrace>> \in Seq(A)
      /\ Len(<<OpenBrace>>) = 1 /\ Len(<<CloseBrace>>) = 1 /\ Len(key) \in Nat
  OBVIOUS
<1> DEFINE a == <<OpenBrace>> \o key
<1>2. /\ a \in Seq(A) /\ Len(a) = Len(key) + 1
      /\ \A i \in 1..(Len(key) + 1) : a[i] = IF i = 1 THEN OpenBrace ELSE key[i - 1]
  BY <1>1, ConcatProperties
<1> HIDE DEF a
<1>3. Quoted(key) = a \o <<CloseBrace>>
  BY DEF Quoted, a
<1>4. /\ Quoted(key) \in Seq(A) /\ Len(Quoted(key)) = Len(key) + 2
      /\ \A i \in 1..(Len(key) + 2) :
           Quoted(key)[i] = IF i <= Len(key) + 1 THEN a[i] ELSE CloseBrace
  BY <1>1, <1>2, <1>3, ConcatProperties
<1>5. Quoted(key)[1] = OpenBrace /\ Quoted(key)[Len(key) + 2] = CloseBrace
  BY <1>1, <1>2, <1>4
<1>6. ASSUME NEW j \in 1..Len(key) PROVE Quoted(key)[j + 1] = key[j]
  <2>1. j + 1 \in 1..(Len(key) + 1) /\ j + 1 \in 1..(Len(key) + 2) /\ j + 1 # 1 /\ (j + 1) - 1 = j
    BY <1>1
  <2> QED
    BY <1>2, <1>4, <2>1
<1> QED
  BY <1>4, <1>5, <1>6

\* A piece that is a placeholder.
LEMMA ParamStep ==
  ASSUME NEW surface, NEW A, NEW text \in Seq(A), NEW params, ValuesIn(surface, params, A),
         NEW rest, ScanFrom(surface, text, params, 1, rest), OpenBrace \in A, CloseBrace \in A,
         NEW key \in Seq(A), ~Has(key, CloseBrace), NEW b, Lies(text, Quoted(key), b)
  PROVE  Continues(rest[b + 1], ~BlankText(key) /\ ParamValue(surface, key, params).ok,
                   ParamValue(surface, key, params).out, rest[b + Len(Quoted(key)) + 1])
<1> DEFINE c == Quoted(key)
<1>1. Len(key) \in Nat /\ Len(text) \in Nat /\ DOMAIN key = 1..Len(key)
  OBVIOUS
<1>2. /\ c \in Seq(A) /\ Len(c) = Len(key) + 2
      /\ c[1] = OpenBrace /\ c[Len(key) + 2] = CloseBrace
      /\ \A j \in 1..Len(key) : c[j + 1] = key[j]
  BY QuotedTokens
<1> HIDE DEF c
<1>3. b \in Nat /\ b + Len(key) + 2 <= Len(text)
      /\ \A j \in 1..(Len(key) + 2) : text[b + j] = c[j]
  BY <1>1, <1>2 DEF Lies, c
<1>a. PICK from \in 1..Len(text) : from = b + 1
  BY <1>1, <1>3
<1>b. PICK end \in (from + 1)..Len(text) :
        /\ end = b + Len(key) + 2 /\ end + 1 = b + Len(c) + 1
        /\ end - 1 = (b + 1) + Len(key)
  <2>1. /\ b + Len(key) + 2 \in (from + 1)..Len(text)
        /\ (b + Len(key) + 2) + 1 = b + Len(c) + 1
        /\ (b + Len(key) + 2) - 1 = (b + 1) + Len(key)
    BY <1>1, <1>2, <1>3, <1>a
  <2> QED
    BY <2>1
<1>4. /\ from = b + 1 /\ end = b + Len(key) + 2 /\ end + 1 = b + Len(c) + 1
      /\ from + 1 = (b + 1) + 1 /\ end - 1 = (b + 1) + Len(key)
  BY <1>a, <1>b
<1>5. text[from] = OpenBrace /\ text[end] = CloseBrace
  <2>1. 1 \in 1..(Len(key) + 2) /\ Len(key) + 2 \in 1..(Len(key) + 2)
        /\ b + (Len(key) + 2) = b + Len(key) + 2
    BY <1>1, <1>3
  <2> QED
    BY <1>2, <1>3, <1>4, <2>1
<1>6. \A j \in 1..Len(key) : text[(b + 1) + j] = key[j]
  <2>1. SUFFICES ASSUME NEW j \in 1..Len(key) PROVE text[(b + 1) + j] = key[j]
    OBVIOUS
  <2>2. j + 1 \in 1..(Len(key) + 2) /\ b + (j + 1) = (b + 1) + j
    BY <1>1, <1>3
  <2> QED
    BY <1>2, <1>3, <2>2
<1>7. Lies(text, key, b + 1)
  BY <1>1, <1>3, <1>6 DEF Lies
<1>8. SubSeq(text, from + 1, end - 1) = key
  BY <1>4, <1>7, LiesSub
<1>9. At(text, CloseBrace, from + 1, end)
  <2>1. ASSUME NEW j \in (from + 1)..(end - 1) PROVE text[j] # CloseBrace
    <3>1. j - (b + 1) \in 1..Len(key) /\ (b + 1) + (j - (b + 1)) = j
      BY <1>1, <1>3, <1>4
    <3> QED
      BY <1>1, <1>6, <3>1 DEF Has
  <2> QED
    BY <1>5, <2>1 DEF At
<1>10. Continues(rest[from], ~BlankText(key) /\ ParamValue(surface, key, params).ok,
                 ParamValue(surface, key, params).out, rest[end + 1])
  BY <1>5, <1>8, <1>9, SkipParam
<1> QED
  BY <1>4, <1>10 DEF c

-----------------------------------------------------------------------------
\* A piece as it is written, what it is worth, and whether it can be read.
Spelled(piece) == IF piece[1] = "text" THEN piece[2] ELSE Quoted(piece[2])
Worth(surface, piece, params) ==
  IF piece[1] = "text" THEN piece[2] ELSE ParamValue(surface, piece[2], params).out
PieceOk(surface, piece, params) ==
  IF piece[1] = "text" THEN ~Has(piece[2], OpenBrace)
  ELSE ~BlankText(piece[2]) /\ ParamValue(surface, piece[2], params).ok

\* The tokens of the pieces and of the values are in A.
Tokens(surface, pieces, params, A) ==
  /\ OpenBrace \in A /\ CloseBrace \in A /\ ValuesIn(surface, params, A)
  /\ \A i \in DOMAIN pieces : pieces[i][2] \in Seq(A)

SpelledSeq(pieces) == [i \in DOMAIN pieces |-> Spelled(pieces[i])]
WorthSeq(surface, pieces, params) == [i \in DOMAIN pieces |-> Worth(surface, pieces[i], params)]

\* They are sequences of texts.
LEMMA PieceTypes ==
  ASSUME NEW surface, NEW pieces, NEW params, NEW A, PiecesOk(pieces),
         Tokens(surface, pieces, params, A)
  PROVE  /\ Len(pieces) \in Nat /\ DOMAIN pieces = 1..Len(pieces)
         /\ SpelledSeq(pieces) \in Seq(Seq(A)) /\ Len(SpelledSeq(pieces)) = Len(pieces)
         /\ \A i \in 1..Len(pieces) : SpelledSeq(pieces)[i] = Spelled(pieces[i])
         /\ WorthSeq(surface, pieces, params) \in Seq(Seq(A))
         /\ Len(WorthSeq(surface, pieces, params)) = Len(pieces)
         /\ \A i \in 1..Len(pieces) :
              WorthSeq(surface, pieces, params)[i] = Worth(surface, pieces[i], params)
<1> DEFINE n == Len(pieces)
<1>1. n \in Nat /\ DOMAIN pieces = 1..n
  BY DEF PiecesOk
<1>2. ASSUME NEW i \in 1..n
      PROVE  Spelled(pieces[i]) \in Seq(A) /\ Worth(surface, pieces[i], params) \in Seq(A)
  <2>1. pieces[i][2] \in Seq(A)
    BY <1>1 DEF Tokens
  <2>2. OpenBrace \in A /\ CloseBrace \in A
    BY DEF Tokens
  <2>3. Quoted(pieces[i][2]) \in Seq(A)
    BY <2>1, <2>2, QuotedTokens
  <2>4. ParamValue(surface, pieces[i][2], params).out \in Seq(A)
    BY DEF Tokens, ValuesIn
  <2> QED
    BY <2>1, <2>3, <2>4 DEF Spelled, Worth
<1> HIDE DEF n
<1> DEFINE s == [i \in 1..n |-> Spelled(pieces[i])]
           u == [i \in 1..n |-> Worth(surface, pieces[i], params)]
<1>3. SpelledSeq(pieces) = s /\ WorthSeq(surface, pieces, params) = u
  BY <1>1 DEF SpelledSeq, WorthSeq
<1>4. s \in Seq(Seq(A)) /\ Len(s) = n /\ \A i \in 1..n : s[i] = Spelled(pieces[i])
  BY <1>1, <1>2
<1>5. u \in Seq(Seq(A)) /\ Len(u) = n /\ \A i \in 1..n : u[i] = Worth(surface, pieces[i], params)
  BY <1>1, <1>2
<1> HIDE DEF s, u
<1> QED
  BY <1>1, <1>3, <1>4, <1>5 DEF n

\* A template is spelled piece by piece.
LEMMA SpellIs ==
  ASSUME NEW pieces
  PROVE  Spell(pieces) = FlattenSeq(SpelledSeq(pieces))
BY DEF Spell, SpelledSeq, Spelled, Quoted

\* The scanner at the beginning of a piece.
LEMMA PieceStep ==
  ASSUME NEW surface, NEW pieces, NEW params, NEW A, PiecesOk(pieces),
         Tokens(surface, pieces, params, A),
         NEW text \in Seq(A), NEW rest, ScanFrom(surface, text, params, 1, rest),
         NEW k \in 1..Len(pieces), NEW b, Lies(text, Spelled(pieces[k]), b),
         k = Len(pieces) => b + Len(Spelled(pieces[k])) = Len(text)
  PROVE  Continues(rest[b + 1], PieceOk(surface, pieces[k], params),
                   Worth(surface, pieces[k], params), rest[b + Len(Spelled(pieces[k])) + 1])
<1> DEFINE kind == pieces[k][1]
           c == pieces[k][2]
<1>1. /\ kind \in {"text", "param"}
      /\ kind = "param" => ~Has(c, CloseBrace)
      /\ kind = "text" /\ Has(c, OpenBrace) =>
           /\ k = Len(pieces)
           /\ \A i, j \in DOMAIN c : c[i] = OpenBrace /\ c[j] = CloseBrace => j < i
  BY PieceTypes DEF PiecesOk
<1>2. c \in Seq(A) /\ OpenBrace \in A /\ CloseBrace \in A /\ ValuesIn(surface, params, A)
  BY PieceTypes DEF Tokens
<1>3. CASE kind = "text" /\ ~Has(c, OpenBrace)
  <2>1. Spelled(pieces[k]) = c /\ Worth(surface, pieces[k], params) = c
        /\ PieceOk(surface, pieces[k], params) = TRUE
    BY <1>3 DEF Spelled, Worth, PieceOk
  <2> HIDE DEF c
  <2>2. Continues(rest[b + 1], TRUE, c, rest[b + Len(c) + 1])
    BY <1>2, <1>3, <2>1, TextStep
  <2> QED
    BY <2>1, <2>2
<1>4. CASE kind = "text" /\ Has(c, OpenBrace)
  <2>1. Spelled(pieces[k]) = c /\ ~PieceOk(surface, pieces[k], params)
    BY <1>4 DEF Spelled, PieceOk
  <2>2. b + Len(c) = Len(text) /\ Lies(text, c, b)
    BY <1>1, <1>4, <2>1
  <2> HIDE DEF c
  <2>3. ~rest[b + 1].ok
    BY <1>1, <1>2, <1>4, <2>2, UnclosedStep
  <2> QED
    BY <2>1, <2>3 DEF Continues
<1>5. CASE kind = "param"
  <2>1. /\ Spelled(pieces[k]) = Quoted(c)
        /\ Worth(surface, pieces[k], params) = ParamValue(surface, c, params).out
        /\ PieceOk(surface, pieces[k], params) =
             (~BlankText(c) /\ ParamValue(surface, c, params).ok)
    BY <1>5 DEF Spelled, Worth, PieceOk
  <2> HIDE DEF c
  <2>2. Continues(rest[b + 1], ~BlankText(c) /\ ParamValue(surface, c, params).ok,
                  ParamValue(surface, c, params).out, rest[b + Len(Quoted(c)) + 1])
    BY <1>1, <1>2, <1>5, <2>1, ParamStep
  <2> QED
    BY <2>1, <2>2
<1> QED
  BY <1>1, <1>3, <1>4, <1>5

\* Concatenation may be regrouped.
LEMMA PairSplits ==
  ASSUME NEW A, NEW a \in Seq(A), NEW b \in Seq(A), NEW c \in Seq(A)
  PROVE  Pair(Pair(a, b), c) = Pair(a, Pair(b, c))
BY ConcatAssociative DEF Pair

\* The scanner reads the pieces: all of them, and what they are worth.
LEMMA ScanReads ==
  ASSUME NEW surface, NEW pieces, NEW params, NEW A, PiecesOk(pieces),
         Tokens(surface, pieces, params, A),
         NEW rest, ScanFrom(surface, Spell(pieces), params, 1, rest)
  PROVE  /\ rest[1].ok <=> \A i \in DOMAIN pieces : PieceOk(surface, pieces[i], params)
         /\ rest[1].ok => rest[1].out = FlattenSeq(WorthSeq(surface, pieces, params))
<1> DEFINE n == Len(pieces)
           s == SpelledSeq(pieces)
           u == WorthSeq(surface, pieces, params)
           text == FlattenSeq(s)
           out == FlattenSeq(u)
           ok(i) == PieceOk(surface, pieces[i], params)
<1>1. /\ n \in Nat /\ DOMAIN pieces = 1..n
      /\ s \in Seq(Seq(A)) /\ Len(s) = n /\ u \in Seq(Seq(A)) /\ Len(u) = n
      /\ \A i \in 1..n : s[i] = Spelled(pieces[i])
      /\ \A i \in 1..n : u[i] = Worth(surface, pieces[i], params)
  BY PieceTypes
<1>2. Spell(pieces) = text /\ text \in Seq(A) /\ ScanFrom(surface, text, params, 1, rest)
  BY <1>1, SpellIs, FlattenType
<1> HIDE DEF n, s, u, ok
<1>3. PICK f : Flattens(s, A, f)
  BY <1>1, PrefixesExist
<1>4. PICK g : Flattens(u, A, g)
  BY <1>1, PrefixesExist
<1>5. f[0] = <<>> /\ g[0] = <<>> /\ f[n] = text /\ g[n] = out
  BY <1>1, <1>3, <1>4 DEF Flattens
<1> HIDE DEF text, out
<1> DEFINE at(k) == rest[Len(f[k]) + 1]
           Good(k) == /\ at(k).ok <=> \A i \in (k + 1)..n : ok(i)
                      /\ at(k).ok => Pair(g[k], at(k).out) = out
           Bad == {m \in 0..n : ~Good(n - m)}
<1>6. \A i \in 1..(Len(text) + 1) : Read(rest[i], A)
  BY <1>2, ScanType DEF Tokens
<1>7. Good(n)
  <2>1. Len(text) \in Nat /\ Len(text) + 1 \in 1..(Len(text) + 1)
    BY <1>2
  <2>2. NoneFrom(text, OpenBrace, Len(text) + 1)
    BY <2>1 DEF NoneFrom
  <2>3. at(n) = Rendered(SubSeq(text, Len(text) + 1, Len(text)))
    BY <1>2, <1>5, <2>1, <2>2, ScanText DEF ScanFrom
  <2>4. SubSeq(text, Len(text) + 1, Len(text)) = <<>>
    BY <2>1, SubSeqEmpty
  <2>5. at(n).ok /\ at(n).out = <<>>
    BY <2>3, <2>4, ReadOrNot
  <2>6. out \in Seq(A)
    BY <1>1, FlattenType DEF out
  <2>7. Pair(g[n], <<>>) = out
    BY <1>5, <2>6, ConcatEmptySeq DEF Pair
  <2>8. (n + 1)..n = {}
    BY <1>1
  <2> HIDE DEF at
  <2> QED
    BY <2>5, <2>7, <2>8
<1>8. ASSUME NEW k \in 1..n, Good(k) PROVE Good(k - 1)
  <2> DEFINE b == Len(f[k - 1])
             c == Spelled(pieces[k])
             w == Worth(surface, pieces[k], params)
  <2>a. k \in 1..Len(s) /\ s[k] = c /\ k \in 1..Len(u) /\ u[k] = w
    BY <1>1
  <2>b. /\ f[k - 1] \in Seq(A) /\ f[k] \in Seq(A) /\ s[k] \in Seq(A)
        /\ Len(f[k]) = Len(f[k - 1]) + Len(s[k])
        /\ Len(f[k - 1]) \in Nat /\ Len(s[k]) \in Nat
    <3> HIDE DEF b, c, w
    <3> QED
      BY <1>1, <1>3, <2>a, PrefixGrows
  <2>1. /\ f[k - 1] \in Seq(A) /\ f[k] \in Seq(A) /\ c \in Seq(A)
        /\ Len(f[k]) = b + Len(c) /\ b \in Nat /\ Len(c) \in Nat
    <3> HIDE DEF c, w
    <3> QED
      BY <2>a, <2>b
  <2>2. Len(f[k]) <= Len(text) /\ \A j \in 1..Len(c) : text[b + j] = c[j]
    BY <1>1, <1>3, PartInWhole DEF text
  <2>3. g[k - 1] \in Seq(A) /\ w \in Seq(A) /\ g[k] = Pair(g[k - 1], w)
    <3> HIDE DEF b, c, w
    <3>1. g[k - 1] \in Seq(A) /\ u[k] \in Seq(A) /\ g[k] = g[k - 1] \o u[k]
      BY <1>1, <1>4, <2>a, PrefixGrows
    <3> QED
      BY <2>a, <3>1 DEF Pair
  <2> HIDE DEF b, c, w
  <2>4. Lies(text, c, b)
    BY <2>1, <2>2 DEF Lies
  <2>5. k = n => b + Len(c) = Len(text)
    BY <1>5, <2>1
  <2>6. Continues(rest[b + 1], ok(k), w, rest[b + Len(c) + 1])
    <3>1. Continues(rest[b + 1], PieceOk(surface, pieces[k], params),
                    Worth(surface, pieces[k], params), rest[b + Len(Spelled(pieces[k])) + 1])
      <4>1. k \in 1..Len(pieces) /\ (k = Len(pieces) => b + Len(Spelled(pieces[k])) = Len(text))
        BY <2>5 DEF n, c
      <4>2. Lies(text, Spelled(pieces[k]), b)
        BY <2>4 DEF c
      <4> QED
        BY <1>2, <4>1, <4>2, PieceStep
    <3> QED
      BY <3>1 DEF ok, c, w
  <2>7. at(k - 1) = rest[b + 1] /\ at(k) = rest[b + Len(c) + 1]
    BY <2>1 DEF b
  <2>8. Read(at(k), A)
    <3>1. Len(f[k]) + 1 \in 1..(Len(text) + 1)
      <4>1. Len(text) \in Nat /\ Len(f[k]) \in Nat
        BY <1>2, <2>1
      <4> QED
        BY <2>2, <4>1
    <3> QED
      BY <1>6, <3>1
  <2> HIDE DEF at
  <2>9. Continues(at(k - 1), ok(k), w, at(k))
    BY <2>6, <2>7
  <2>10. at(k - 1).ok <=> \A i \in ((k - 1) + 1)..n : ok(i)
    <3>1. ((k - 1) + 1)..n = {k} \cup (k + 1)..n
      BY <1>1
    <3>2. (\A i \in ((k - 1) + 1)..n : ok(i)) <=> ok(k) /\ \A i \in (k + 1)..n : ok(i)
      BY <3>1
    <3>3. at(k - 1).ok <=> ok(k) /\ at(k).ok
      BY <2>9 DEF Continues
    <3> QED
      BY <1>8, <3>2, <3>3
  <2>11. ASSUME at(k - 1).ok PROVE Pair(g[k - 1], at(k - 1).out) = out
    <3>1. at(k).ok /\ at(k - 1).out = Pair(w, at(k).out)
      BY <2>9, <2>11 DEF Continues, Pair
    <3>2. at(k).out \in Seq(A)
      BY <2>8 DEF Read
    <3>3. Pair(Pair(g[k - 1], w), at(k).out) = Pair(g[k - 1], Pair(w, at(k).out))
      BY <2>3, <3>2, PairSplits
    <3>4. Pair(g[k], at(k).out) = out
      BY <1>8, <3>1
    <3> QED
      BY <2>3, <3>1, <3>3, <3>4
  <2> QED
    BY <2>10, <2>11
<1>9. Bad = {}
  <2> HIDE DEF Good
  <2>1. SUFFICES ASSUME Bad # {} PROVE FALSE
    OBVIOUS
  <2>2. PICK m \in Bad : \A x \in Bad : m <= x
    <3>1. Bad \in SUBSET Nat
      BY <1>1
    <3> HIDE DEF Bad
    <3> QED
      BY <2>1, <3>1, LeastExists
  <2>3. m \in 0..n /\ ~Good(n - m)
    OBVIOUS
  <2>4. m # 0
    <3>1. n - 0 = n
      BY <1>1
    <3> QED
      BY <1>7, <2>3, <3>1
  <2>5. m - 1 \in 0..n /\ ~(m <= m - 1)
    BY <1>1, <2>3, <2>4
  <2>6. PICK k \in 1..n : k = n - (m - 1) /\ k - 1 = n - m
    <3>1. n - (m - 1) \in 1..n /\ (n - (m - 1)) - 1 = n - m
      BY <1>1, <2>3, <2>4
    <3> QED
      BY <3>1
  <2>7. Good(k)
    BY <2>2, <2>5, <2>6
  <2>8. Good(k - 1)
    BY <1>8, <2>7
  <2> QED
    BY <2>3, <2>6, <2>8
<1>10. Good(0)
  <2> HIDE DEF Good
  <2>1. n \in 0..n /\ n - n = 0
    BY <1>1
  <2> QED
    BY <1>9, <2>1
<1>11. at(0) = rest[1]
  <2>1. Len(<<>>) = 0
    OBVIOUS
  <2> QED
    BY <1>5, <2>1
<1>12. rest[1].ok <=> \A i \in 1..n : ok(i)
  <2> HIDE DEF at
  <2>1. 0 + 1 = 1
    OBVIOUS
  <2> QED
    BY <1>10, <1>11, <2>1
<1>13. ASSUME rest[1].ok PROVE rest[1].out = out
  <2>1. rest[1].out \in Seq(A)
    <3>1. Len(text) \in Nat /\ 1 \in 1..(Len(text) + 1)
      BY <1>2
    <3> QED
      BY <1>6, <3>1 DEF Read
  <2>2. Pair(g[0], rest[1].out) = out
    BY <1>10, <1>11, <1>13
  <2>3. Pair(<<>>, rest[1].out) = rest[1].out
    BY <2>1, ConcatEmptySeq DEF Pair
  <2> QED
    BY <1>5, <2>2, <2>3
<1> QED
  BY <1>1, <1>12, <1>13 DEF ok, out, u

\* render_text_template() reads the pieces.
LEMMA RenderTextReads ==
  ASSUME NEW surface, NEW pieces, NEW params, NEW A, PiecesOk(pieces),
         Tokens(surface, pieces, params, A)
  PROVE  LET read == RenderText(surface, Spell(pieces), params)
             out == FlattenSeq(WorthSeq(surface, pieces, params))
         IN  /\ read.ok <=> /\ \A i \in DOMAIN pieces : PieceOk(surface, pieces[i], params)
                            /\ ~Has(out, CloseBrace)
             /\ read.ok => read.out = out
<1> DEFINE text == Spell(pieces)
           read == RenderText(surface, text, params)
           out == FlattenSeq(WorthSeq(surface, pieces, params))
           good == \A i \in DOMAIN pieces : PieceOk(surface, pieces[i], params)
<1>1. text \in Seq(A)
  BY PieceTypes, SpellIs, FlattenType
<1>2. PICK rest : /\ ScanFrom(surface, text, params, 1, rest)
                  /\ read = IF rest[1].ok /\ ~Has(rest[1].out, CloseBrace) THEN rest[1] ELSE Failed
  <2> HIDE DEF text
  <2> QED
    BY <1>1, RenderTextScans
<1>3. (rest[1].ok <=> good) /\ (rest[1].ok => rest[1].out = out)
  BY <1>2, ScanReads
<1> HIDE DEF read, out, good
<1>4. CASE rest[1].ok /\ ~Has(rest[1].out, CloseBrace)
  BY <1>2, <1>3, <1>4 DEF read, out, good
<1>5. CASE ~(rest[1].ok /\ ~Has(rest[1].out, CloseBrace))
  <2>1. ~read.ok
    BY <1>2, <1>5, ReadOrNot
  <2>2. ~(good /\ ~Has(out, CloseBrace))
    BY <1>3, <1>5
  <2> QED
    BY <2>1, <2>2 DEF read, out, good
<1> QED
  BY <1>4, <1>5

-----------------------------------------------------------------------------
\* The parameters of a command, the texts among them sequences.
ParamsOk(params) ==
  \A k \in DOMAIN params : params[k][1] = "string" => params[k][2] \in Seq(ToSet(params[k][2]))
Scalar(key, params) == key \in DOMAIN params /\ params[key][1] \in {"string", "number", "bool"}

\* A scalar as a text.
LEMMA ScalarTexts ==
  ASSUME NEW params, ParamsOk(params), NEW key, Scalar(key, params)
  PROVE  ScalarText(params[key]) \in Seq(ToSet(ScalarText(params[key])))
<1> DEFINE v == params[key]
<1>1. \A x : <<x>> \in Seq(ToSet(<<x>>))
  BY DEF ToSet
<1>2. CASE v[1] = "string"
  <2>1. ScalarText(v) = v[2]
    BY <1>2 DEF ScalarText
  <2> QED
    BY <1>2, <2>1 DEF ParamsOk, Scalar
<1>3. CASE v[1] = "number"
  <2>1. ScalarText(v) = <<Digits[v[2]]>>
    BY <1>3 DEF ScalarText
  <2> QED
    BY <1>1, <2>1
<1>4. CASE v[1] = "bool"
  <2>1. ScalarText(v) = <<IF v[2] THEN "true" ELSE "false">>
    BY <1>4 DEF ScalarText
  <2> QED
    BY <1>1, <2>1
<1> QED
  BY <1>2, <1>3, <1>4 DEF Scalar

\* What scalar_param() and topic_param() answer.
LEMMA ParamAnswers ==
  ASSUME NEW surface, NEW key, NEW params
  PROVE  LET v == ParamValue(surface, key, params)
         IN  /\ v.ok <=>
                  /\ Scalar(key, params)
                  /\ surface = "topic" =>
                       /\ ScalarText(params[key]) # <<>>
                       /\ \A t \in {"/", "+", "#", "ctl"} : ~Has(ScalarText(params[key]), t)
             /\ v.ok => v.out = ScalarText(params[key])
             /\ ~v.ok => v.out = <<>>
<1> DEFINE p == ScalarParam(key, params)
           fits(x) == x # <<>> /\ \A t \in {"/", "+", "#", "ctl"} : ~Has(x, t)
<1>1. ~Failed.ok /\ Failed.out = <<>> /\ \A out : Rendered(out).ok /\ Rendered(out).out = out
  BY DEF Failed, Rendered
<1>2. /\ p.ok <=> Scalar(key, params)
      /\ p.ok => p.out = ScalarText(params[key])
      /\ ~p.ok => p.out = <<>>
  BY <1>1 DEF ScalarParam, Scalar
<1>3. TopicParam(key, params) = IF p.ok /\ fits(p.out) THEN p ELSE Failed
  BY DEF TopicParam
<1>4. ParamValue(surface, key, params) = IF surface = "topic" THEN TopicParam(key, params) ELSE p
  BY DEF ParamValue
<1> HIDE DEF p, fits
<1>5. CASE surface = "topic"
  <2>1. ParamValue(surface, key, params) = IF p.ok /\ fits(p.out) THEN p ELSE Failed
    BY <1>3, <1>4, <1>5
  <2> QED
    BY <1>1, <1>2, <1>5, <2>1 DEF fits
<1>6. CASE surface # "topic"
  BY <1>2, <1>4, <1>6
<1> QED
  BY <1>5, <1>6

\* The tokens of the pieces and of the parameters.
Alphabet(pieces, params) ==
  {OpenBrace, CloseBrace} \cup (UNION {ToSet(pieces[i][2]) : i \in DOMAIN pieces})
    \cup (UNION {ToSet(ScalarText(params[k])) : k \in DOMAIN params})

\* They are enough for what is read.
LEMMA AlphabetOk ==
  ASSUME NEW pieces, NEW params, PiecesOk(pieces), ParamsOk(params), NEW surface
  PROVE  LET A == Alphabet(pieces, params)
         IN  /\ Tokens(surface, pieces, params, A)
             /\ \A key : Scalar(key, params) => ScalarText(params[key]) \in Seq(A)
<1> DEFINE A == Alphabet(pieces, params)
<1>1. OpenBrace \in A /\ CloseBrace \in A
  BY DEF Alphabet
<1>2. ASSUME NEW i \in DOMAIN pieces PROVE pieces[i][2] \in Seq(A)
  <2> DEFINE c == pieces[i][2]
  <2>1. c \in Seq(ToSet(c))
    BY DEF PiecesOk
  <2>2. ToSet(c) \subseteq A
    BY DEF Alphabet
  <2> HIDE DEF c, A
  <2> QED
    BY <2>1, <2>2 DEF c
<1>3. ASSUME NEW key, Scalar(key, params) PROVE ScalarText(params[key]) \in Seq(A)
  <2> DEFINE c == ScalarText(params[key])
  <2>1. c \in Seq(ToSet(c))
    BY <1>3, ScalarTexts
  <2>2. ToSet(c) \subseteq A
    <3>1. key \in DOMAIN params
      BY <1>3 DEF Scalar
    <3> DEFINE U == {ToSet(ScalarText(params[k])) : k \in DOMAIN params}
    <3>2. ToSet(c) \in U
      BY <3>1
    <3> DEFINE W == {OpenBrace, CloseBrace} \cup (UNION {ToSet(pieces[i][2]) : i \in DOMAIN pieces})
    <3>3. A = W \cup (UNION U)
      BY DEF Alphabet
    <3> HIDE DEF c, U, A, W
    <3> QED
      BY <3>2, <3>3
  <2> HIDE DEF c, A
  <2> QED
    BY <2>1, <2>2 DEF c
<1>4. ASSUME NEW key PROVE ParamValue(surface, key, params).out \in Seq(A)
  <2> HIDE DEF A
  <2>1. CASE ParamValue(surface, key, params).ok
    <3>1. Scalar(key, params) /\ ParamValue(surface, key, params).out = ScalarText(params[key])
      BY <2>1, ParamAnswers
    <3> QED
      BY <1>3, <3>1
  <2>2. CASE ~ParamValue(surface, key, params).ok
    <3>1. ParamValue(surface, key, params).out = <<>>
      BY <2>2, ParamAnswers
    <3> QED
      BY <3>1
  <2> QED
    BY <2>1, <2>2
<1> HIDE DEF A
<1>5. Tokens(surface, pieces, params, A)
  BY <1>1, <1>2, <1>4 DEF Tokens, ValuesIn
<1> QED
  BY <1>3, <1>5 DEF A

-----------------------------------------------------------------------------
SubstSeq(pieces, params) ==
  [i \in DOMAIN pieces |->
    IF pieces[i][1] = "text" THEN pieces[i][2] ELSE ScalarText(params[pieces[i][2]])]
LitSeq(pieces) ==
  [i \in DOMAIN pieces |-> IF pieces[i][1] = "text" THEN pieces[i][2] ELSE <<>>]

\* Every placeholder has a scalar.
Scalars(pieces, params) ==
  \A i \in DOMAIN pieces : pieces[i][1] # "text" => Scalar(pieces[i][2], params)

\* The texts of the pieces, with and without the values.
LEMMA PartTypes ==
  ASSUME NEW pieces, NEW params, PiecesOk(pieces), ParamsOk(params), Scalars(pieces, params)
  PROVE  LET A == Alphabet(pieces, params)
             s == SubstSeq(pieces, params)
             l == LitSeq(pieces)
         IN  /\ Len(pieces) \in Nat /\ DOMAIN pieces = 1..Len(pieces)
             /\ s \in Seq(Seq(A)) /\ Len(s) = Len(pieces)
             /\ l \in Seq(Seq(A)) /\ Len(l) = Len(pieces)
             /\ \A i \in 1..Len(pieces) :
                  /\ pieces[i][1] = "text" => s[i] = pieces[i][2] /\ l[i] = pieces[i][2]
                  /\ pieces[i][1] # "text" => s[i] = ScalarText(params[pieces[i][2]]) /\ l[i] = <<>>
<1> DEFINE n == Len(pieces)
           A == Alphabet(pieces, params)
           sub(i) == IF pieces[i][1] = "text" THEN pieces[i][2] ELSE ScalarText(params[pieces[i][2]])
           lit(i) == IF pieces[i][1] = "text" THEN pieces[i][2] ELSE <<>>
<1>1. n \in Nat /\ DOMAIN pieces = 1..n
  BY DEF PiecesOk
<1>2. /\ \A i \in DOMAIN pieces : pieces[i][2] \in Seq(A)
      /\ \A key : Scalar(key, params) => ScalarText(params[key]) \in Seq(A)
  BY AlphabetOk DEF Tokens
<1> HIDE DEF A, n
<1>3. ASSUME NEW i \in 1..n PROVE sub(i) \in Seq(A) /\ lit(i) \in Seq(A)
  <2>1. pieces[i][1] # "text" => Scalar(pieces[i][2], params)
    BY <1>1 DEF Scalars
  <2>2. pieces[i][2] \in Seq(A) /\ <<>> \in Seq(A)
    BY <1>1, <1>2
  <2> QED
    BY <1>2, <2>1, <2>2
<1>4. SubstSeq(pieces, params) = [i \in 1..n |-> sub(i)] /\ LitSeq(pieces) = [i \in 1..n |-> lit(i)]
  BY <1>1 DEF SubstSeq, LitSeq
<1>5. /\ \A i \in 1..n : pieces[i][1] = "text" => sub(i) = pieces[i][2] /\ lit(i) = pieces[i][2]
      /\ \A i \in 1..n : pieces[i][1] # "text" =>
           sub(i) = ScalarText(params[pieces[i][2]]) /\ lit(i) = <<>>
  OBVIOUS
<1> HIDE DEF sub, lit
<1> DEFINE s == [i \in 1..n |-> sub(i)]
           l == [i \in 1..n |-> lit(i)]
<1>6. s \in Seq(Seq(A)) /\ Len(s) = n /\ \A i \in 1..n : s[i] = sub(i)
  BY <1>1, <1>3
<1>7. l \in Seq(Seq(A)) /\ Len(l) = n /\ \A i \in 1..n : l[i] = lit(i)
  BY <1>1, <1>3
<1>8. SubstSeq(pieces, params) = s /\ LitSeq(pieces) = l
  BY <1>4
<1> HIDE DEF s, l
<1> QED
  BY <1>1, <1>5, <1>6, <1>7, <1>8 DEF n, A

\* Pieces that can be read are worth what replaces them.
LEMMA WorthIs ==
  ASSUME NEW surface, NEW pieces, NEW params, PiecesOk(pieces), ParamsOk(params),
         \A i \in DOMAIN pieces : PieceOk(surface, pieces[i], params)
  PROVE  /\ Scalars(pieces, params)
         /\ FlattenSeq(WorthSeq(surface, pieces, params)) = Substitute(pieces, params)
<1>1. ASSUME NEW i \in DOMAIN pieces
      PROVE  /\ pieces[i][1] # "text" => Scalar(pieces[i][2], params)
             /\ Worth(surface, pieces[i], params) =
                  IF pieces[i][1] = "text" THEN pieces[i][2] ELSE ScalarText(params[pieces[i][2]])
  <2>1. CASE pieces[i][1] = "text"
    BY <2>1 DEF Worth
  <2>2. CASE pieces[i][1] # "text"
    <3>1. ParamValue(surface, pieces[i][2], params).ok
      BY <2>2 DEF PieceOk
    <3>2. Scalar(pieces[i][2], params)
          /\ ParamValue(surface, pieces[i][2], params).out = ScalarText(params[pieces[i][2]])
      BY <3>1, ParamAnswers
    <3> QED
      BY <2>2, <3>2 DEF Worth
  <2> QED
    BY <2>1, <2>2
<1>2. WorthSeq(surface, pieces, params) = SubstSeq(pieces, params)
  BY <1>1 DEF WorthSeq, SubstSeq
<1>3. Substitute(pieces, params) = FlattenSeq(SubstSeq(pieces, params))
  BY DEF Substitute, SubstSeq
<1> QED
  BY <1>1, <1>2, <1>3 DEF Scalars

\* A token of a text or of a value is a token of what is sent.
LEMMA HasPiece ==
  ASSUME NEW pieces, NEW params, PiecesOk(pieces), ParamsOk(params), Scalars(pieces, params),
         NEW i \in DOMAIN pieces, NEW x
  PROVE  /\ pieces[i][1] = "text" /\ Has(pieces[i][2], x) => Has(Substitute(pieces, params), x)
         /\ pieces[i][1] # "text" /\ Has(ScalarText(params[pieces[i][2]]), x)
              => Has(Substitute(pieces, params), x)
<1> DEFINE s == SubstSeq(pieces, params)
           A == Alphabet(pieces, params)
<1>1. /\ i \in 1..Len(s) /\ s \in Seq(Seq(A))
      /\ pieces[i][1] = "text" => s[i] = pieces[i][2]
      /\ pieces[i][1] # "text" => s[i] = ScalarText(params[pieces[i][2]])
  <2>1. /\ DOMAIN pieces = 1..Len(pieces) /\ s \in Seq(Seq(A)) /\ Len(s) = Len(pieces)
        /\ \A j \in 1..Len(pieces) :
             /\ pieces[j][1] = "text" => s[j] = pieces[j][2]
             /\ pieces[j][1] # "text" => s[j] = ScalarText(params[pieces[j][2]])
    BY PartTypes
  <2> HIDE DEF s, A
  <2> QED
    BY <2>1
<1>2. Substitute(pieces, params) = FlattenSeq(s)
  BY DEF Substitute, SubstSeq
<1> HIDE DEF s, A
<1>3. Has(s[i], x) => Has(FlattenSeq(s), x)
  BY <1>1, HasPart
<1> QED
  BY <1>1, <1>2, <1>3

-----------------------------------------------------------------------------
\* Two sequences of sequences, place by place.
FewerHits(l, s, T) == \A i \in 1..Len(s) : Hits(l[i], T) <= Hits(s[i], T)
SameHits(l, s, T) == \A i \in 1..Len(s) : Hits(l[i], T) = Hits(s[i], T)

\* Two sequences of sequences, the second with no more hits at any place than
\* the first: they have as many in all if they have as many everywhere.
LEMMA HitsFlatten ==
  ASSUME NEW A, NEW s \in Seq(Seq(A)), NEW l \in Seq(Seq(A)), Len(l) = Len(s), NEW T,
         FewerHits(l, s, T)
  PROVE  Hits(FlattenSeq(l), T) = Hits(FlattenSeq(s), T) <=> SameHits(l, s, T)
<1> DEFINE n == Len(s)
<1>1. n \in Nat /\ Len(l) = n
  OBVIOUS
<1>2. PICK f : Flattens(s, A, f)
  BY PrefixesExist
<1>3. PICK g : Flattens(l, A, g)
  BY PrefixesExist
<1>4. f[0] = <<>> /\ g[0] = <<>> /\ f[n] = FlattenSeq(s) /\ g[n] = FlattenSeq(l)
  BY <1>2, <1>3 DEF Flattens
<1> DEFINE d(k) == Hits(f[k], T)
           e(k) == Hits(g[k], T)
           x(k) == Hits(s[k], T)
           y(k) == Hits(l[k], T)
           same(k) == \A i \in 1..k : y(i) = x(i)
           Good(k) == e(k) \in Nat /\ d(k) \in Nat /\ e(k) <= d(k) /\ (e(k) = d(k) <=> same(k))
           Bad == {k \in 0..n : ~Good(k)}
<1>5. ASSUME NEW k \in 1..n
      PROVE  /\ d(k - 1) \in Nat /\ x(k) \in Nat /\ d(k) = d(k - 1) + x(k)
             /\ e(k - 1) \in Nat /\ y(k) \in Nat /\ e(k) = e(k - 1) + y(k)
             /\ y(k) <= x(k)
  <2>1. f[k - 1] \in Seq(A) /\ s[k] \in Seq(A) /\ f[k] = f[k - 1] \o s[k]
    BY <1>2, PrefixGrows
  <2>2. g[k - 1] \in Seq(A) /\ l[k] \in Seq(A) /\ g[k] = g[k - 1] \o l[k]
    <3>1. k \in 1..Len(l)
      BY <1>1
    <3> QED
      BY <1>3, <3>1, PrefixGrows
  <2>a. \A a, b \in Seq(A) :
          Hits(a, T) \in Nat /\ Hits(a \o b, T) = Hits(a, T) + Hits(b, T)
    BY HitsFinite, HitsConcat
  <2>3. d(k - 1) \in Nat /\ x(k) \in Nat /\ d(k) = d(k - 1) + x(k)
    BY <2>1, <2>a
  <2>4. e(k - 1) \in Nat /\ y(k) \in Nat /\ e(k) = e(k - 1) + y(k)
    BY <2>2, <2>a
  <2>5. y(k) <= x(k)
    BY DEF FewerHits
  <2> QED
    BY <2>3, <2>4, <2>5
<1>6. Good(0)
  <2>1. Hits(<<>>, T) \in Nat
    <3>1. <<>> \in Seq(A)
      OBVIOUS
    <3> QED
      BY <3>1, HitsFinite
  <2>2. 1..0 = {}
    OBVIOUS
  <2> QED
    BY <1>4, <2>1, <2>2
<1> HIDE DEF d, e, x, y
<1>7. ASSUME NEW k \in 1..n, Good(k - 1) PROVE Good(k)
  <2>1. same(k) <=> same(k - 1) /\ y(k) = x(k)
    <3>1. 1..k = (1..(k - 1)) \cup {k}
      OBVIOUS
    <3> QED
      BY <3>1
  <2> HIDE DEF same
  <2> QED
    BY <1>5, <1>7, <2>1, SMTT(30)
<1> HIDE DEF Good, n
<1>8. Bad = {}
  <2>1. SUFFICES ASSUME Bad # {} PROVE FALSE
    OBVIOUS
  <2>2. PICK m \in Bad : \A k \in Bad : m <= k
    <3>1. Bad \in SUBSET Nat
      BY <1>1
    <3> HIDE DEF Bad
    <3> QED
      BY <2>1, <3>1, LeastExists
  <2>3. m \in 1..n /\ m - 1 \in 0..n /\ ~(m <= m - 1) /\ ~Good(m)
    BY <1>1, <1>6
  <2>4. Good(m - 1)
    BY <2>2, <2>3
  <2> QED
    BY <1>7, <2>3, <2>4
<1>9. Good(n)
  BY <1>1, <1>8
<1> QED
  BY <1>4, <1>9 DEF Good, d, e, x, y, n, SameHits

\* The topic has the levels of the template if no value has a separator.
LEMMA LevelsKept ==
  ASSUME NEW pieces, NEW params, PiecesOk(pieces), ParamsOk(params), Scalars(pieces, params)
  PROVE  Slashes(Substitute(pieces, params)) = Slashes(Literals(pieces)) <=>
           \A i \in DOMAIN pieces :
             pieces[i][1] # "text" => ~Has(ScalarText(params[pieces[i][2]]), "/")
<1> DEFINE s == SubstSeq(pieces, params)
           l == LitSeq(pieces)
           A == Alphabet(pieces, params)
           n == Len(pieces)
           T == {"/"}
           v(i) == ScalarText(params[pieces[i][2]])
<1>1. /\ DOMAIN pieces = 1..n /\ n \in Nat
      /\ s \in Seq(Seq(A)) /\ Len(s) = n /\ l \in Seq(Seq(A)) /\ Len(l) = n
      /\ \A i \in 1..n : /\ pieces[i][1] = "text" => s[i] = pieces[i][2] /\ l[i] = pieces[i][2]
                         /\ pieces[i][1] # "text" => s[i] = v(i) /\ l[i] = <<>>
  BY PartTypes
<1>2. Substitute(pieces, params) = FlattenSeq(s) /\ Literals(pieces) = FlattenSeq(l)
  BY DEF Substitute, SubstSeq, Literals, LitSeq
<1>3. \A text : Slashes(text) = Hits(text, T)
  BY DEF Slashes, Hits
<1> HIDE DEF s, l, A, n, T, v
<1>4. Hits(<<>>, T) = 0
  <2>1. {i \in DOMAIN <<>> : <<>>[i] \in T} = {}
    OBVIOUS
  <2> QED
    BY <2>1, FS_EmptySet DEF Hits
<1>5. ASSUME NEW u \in Seq(A)
      PROVE  Hits(u, T) \in Nat /\ (Hits(u, T) = 0 <=> ~Has(u, "/"))
  <2> DEFINE H == {i \in DOMAIN u : u[i] \in T}
  <2>1. IsFiniteSet(H) /\ Hits(u, T) \in Nat /\ Hits(u, T) = Cardinality(H)
    BY HitsFinite DEF Hits
  <2>2. H = {} <=> ~Has(u, "/")
    BY DEF Has, T
  <2> HIDE DEF H
  <2> QED
    BY <2>1, <2>2, FS_EmptySet
<1>6. ASSUME NEW i \in 1..n
      PROVE  /\ Hits(l[i], T) <= Hits(s[i], T)
             /\ Hits(l[i], T) = Hits(s[i], T) <=> (pieces[i][1] # "text" => ~Has(v(i), "/"))
  <2>1. s[i] \in Seq(A)
    BY <1>1
  <2>2. Hits(s[i], T) \in Nat /\ (Hits(s[i], T) = 0 <=> ~Has(s[i], "/"))
    BY <1>5, <2>1
  <2>3. CASE pieces[i][1] = "text"
    <3>1. l[i] = s[i]
      BY <1>1, <2>3
    <3> QED
      BY <2>2, <2>3, <3>1
  <2>4. CASE pieces[i][1] # "text"
    <3>1. s[i] = v(i) /\ Hits(l[i], T) = 0
      BY <1>1, <1>4, <2>4
    <3> QED
      BY <2>2, <2>4, <3>1
  <2> QED
    BY <2>3, <2>4
<1>7. Hits(FlattenSeq(l), T) = Hits(FlattenSeq(s), T)
        <=> \A i \in 1..n : Hits(l[i], T) = Hits(s[i], T)
  <2>1. FewerHits(l, s, T)
    BY <1>1, <1>6 DEF FewerHits
  <2>2. Len(l) = Len(s)
    BY <1>1
  <2>3. Hits(FlattenSeq(l), T) = Hits(FlattenSeq(s), T) <=> SameHits(l, s, T)
    BY <1>1, <2>1, <2>2, HitsFlatten
  <2> QED
    BY <1>1, <2>3 DEF SameHits
<1>8. Slashes(Substitute(pieces, params)) = Slashes(Literals(pieces))
        <=> \A i \in 1..n : (pieces[i][1] # "text" => ~Has(v(i), "/"))
  BY <1>2, <1>3, <1>6, <1>7
<1> QED
  BY <1>1, <1>8 DEF v

\* A placeholder is read if its text can be read and its value fits.
LEMMA MeaningfulOk ==
  ASSUME NEW surface, NEW pieces, NEW params, PiecesOk(pieces), ParamsOk(params),
         Meaningful(pieces, params),
         surface = "topic" =>
           \A i \in DOMAIN pieces : pieces[i][1] # "text" =>
             /\ ScalarText(params[pieces[i][2]]) # <<>>
             /\ \A t \in {"/", "+", "#", "ctl"} : ~Has(ScalarText(params[pieces[i][2]]), t)
  PROVE  \A i \in DOMAIN pieces : PieceOk(surface, pieces[i], params)
<1>1. SUFFICES ASSUME NEW i \in DOMAIN pieces PROVE PieceOk(surface, pieces[i], params)
  OBVIOUS
<1>2. CASE pieces[i][1] = "text"
  BY <1>2 DEF PieceOk, Meaningful
<1>3. CASE pieces[i][1] # "text"
  <2>1. ~BlankText(pieces[i][2]) /\ Scalar(pieces[i][2], params)
    BY <1>3 DEF Meaningful, Scalar
  <2>2. ParamValue(surface, pieces[i][2], params).ok
    BY <1>3, <2>1, ParamAnswers
  <2> QED
    BY <1>3, <2>1, <2>2 DEF PieceOk
<1> QED
  BY <1>2, <1>3

\* A template that says something has scalars for its placeholders.
LEMMA MeaningfulScalars ==
  ASSUME NEW pieces, NEW params, Meaningful(pieces, params)
  PROVE  Scalars(pieces, params)
BY DEF Meaningful, Scalars, Scalar

\* The topic that is rendered.
LEMMA TopicRendered ==
  ASSUME NEW pieces, NEW params, PiecesOk(pieces), ParamsOk(params),
         RenderText("topic", Spell(pieces), params).ok
  PROVE  LET topic == RenderText("topic", Spell(pieces), params).out
         IN  topic = Substitute(pieces, params) /\ Slashes(topic) = Slashes(Literals(pieces))
<1> DEFINE A == Alphabet(pieces, params)
           topic == RenderText("topic", Spell(pieces), params).out
<1>1. Tokens("topic", pieces, params, A)
  BY AlphabetOk
<1>2. /\ \A i \in DOMAIN pieces : PieceOk("topic", pieces[i], params)
      /\ topic = FlattenSeq(WorthSeq("topic", pieces, params))
  BY <1>1, RenderTextReads
<1>3. Scalars(pieces, params) /\ topic = Substitute(pieces, params)
  BY <1>2, WorthIs
<1> HIDE DEF topic, A
<1>4. ASSUME NEW i \in DOMAIN pieces, pieces[i][1] # "text"
      PROVE  ~Has(ScalarText(params[pieces[i][2]]), "/")
  <2>1. ParamValue("topic", pieces[i][2], params).ok
    BY <1>2, <1>4 DEF PieceOk
  <2> QED
    BY <2>1, ParamAnswers
<1>5. Slashes(Substitute(pieces, params)) = Slashes(Literals(pieces))
  BY <1>3, <1>4, LevelsKept
<1> QED
  BY <1>3, <1>5 DEF topic

\* What may be wrong with the topic.
TopicRefused(pieces, params) ==
  \/ ~Meaningful(pieces, params)
  \/ \E i \in DOMAIN pieces :
       pieces[i][1] = "param" /\ ScalarText(params[pieces[i][2]]) = <<>>
  \/ Slashes(Substitute(pieces, params)) # Slashes(Literals(pieces))
  \/ BlankText(Substitute(pieces, params)) \/ Len(Substitute(pieces, params)) > MaxTopic
  \/ \E x \in {"+", "#", "ctl", CloseBrace} : Has(Substitute(pieces, params), x)

\* What is meant by a template that says something has a length.
LEMMA TopicLength ==
  ASSUME NEW pieces, NEW params, PiecesOk(pieces), ParamsOk(params),
         ~TopicRefused(pieces, params)
  PROVE  Len(Substitute(pieces, params)) \in Nat
<1>1. Scalars(pieces, params)
  BY MeaningfulScalars DEF TopicRefused
<1>2. SubstSeq(pieces, params) \in Seq(Seq(Alphabet(pieces, params)))
  BY <1>1, PartTypes
<1>3. FlattenSeq(SubstSeq(pieces, params)) \in Seq(Alphabet(pieces, params))
  BY <1>2, FlattenType
<1>4. Substitute(pieces, params) = FlattenSeq(SubstSeq(pieces, params))
  BY DEF Substitute, SubstSeq
<1> QED
  BY <1>3, <1>4

\* Otherwise it is rendered.
LEMMA TopicRenders ==
  ASSUME NEW pieces, NEW params, PiecesOk(pieces), ParamsOk(params),
         ~TopicRefused(pieces, params)
  PROVE  /\ RenderText("topic", Spell(pieces), params).ok
         /\ RenderText("topic", Spell(pieces), params).out = Substitute(pieces, params)
<1> DEFINE A == Alphabet(pieces, params)
           topic == Substitute(pieces, params)
           v(i) == ScalarText(params[pieces[i][2]])
<1>1. /\ Meaningful(pieces, params) /\ Slashes(topic) = Slashes(Literals(pieces))
      /\ \A x \in {"+", "#", "ctl", CloseBrace} : ~Has(topic, x)
      /\ \A i \in DOMAIN pieces : pieces[i][1] = "param" => v(i) # <<>>
  BY DEF TopicRefused
<1>2. Scalars(pieces, params)
  BY <1>1, MeaningfulScalars
<1>3. \A i \in DOMAIN pieces : pieces[i][1] # "text" => ~Has(v(i), "/")
  BY <1>1, <1>2, LevelsKept
<1>4. ASSUME NEW i \in DOMAIN pieces, pieces[i][1] # "text",
             NEW t \in {"/", "+", "#", "ctl"}
      PROVE  ~Has(v(i), t)
  <2>1. CASE t = "/"
    BY <1>3, <1>4, <2>1
  <2>2. CASE t # "/"
    <3>1. ~Has(topic, t)
      BY <1>1, <2>2
    <3> QED
      BY <1>2, <1>4, <3>1, HasPiece
  <2> QED
    BY <2>1, <2>2
<1>5. \A i \in DOMAIN pieces : pieces[i][1] # "text" => v(i) # <<>>
  BY <1>1 DEF PiecesOk
<1>6. \A i \in DOMAIN pieces : PieceOk("topic", pieces[i], params)
  BY <1>1, <1>4, <1>5, MeaningfulOk
<1>7. FlattenSeq(WorthSeq("topic", pieces, params)) = topic
  BY <1>6, WorthIs
<1>8. Tokens("topic", pieces, params, A)
  BY AlphabetOk
<1>9. ~Has(topic, CloseBrace)
  BY <1>1
<1> HIDE DEF topic, A
<1> QED
  BY <1>6, <1>7, <1>8, <1>9, RenderTextReads DEF topic

-----------------------------------------------------------------------------
\* A placeholder that is alone is the whole text.
LEMMA AloneText ==
  ASSUME NEW pieces, NEW params, PiecesOk(pieces), ParamsOk(params), Alone(pieces)
  PROVE  Spell(pieces) = Quoted(pieces[1][2])
<1> DEFINE A == Alphabet(pieces, params)
           s == SpelledSeq(pieces)
<1>1. Tokens("payload", pieces, params, A)
  BY AlphabetOk
<1>2. /\ s \in Seq(Seq(A)) /\ Len(s) = Len(pieces)
      /\ \A i \in 1..Len(pieces) : s[i] = Spelled(pieces[i])
  BY <1>1, PieceTypes
<1>3. Len(pieces) = 1 /\ pieces[1][1] = "param"
  BY DEF Alone
<1>4. Spelled(pieces[1]) = Quoted(pieces[1][2])
  BY <1>3 DEF Spelled
<1> HIDE DEF s, A
<1>5. PICK f : Flattens(s, A, f)
  BY <1>2, PrefixesExist
<1>6. f[0] = <<>> /\ f[1] = FlattenSeq(s)
  BY <1>2, <1>3, <1>5 DEF Flattens
<1>7. s[1] \in Seq(A) /\ f[1] = f[0] \o s[1]
  <2>1. PICK k \in 1..Len(s) : k = 1 /\ k - 1 = 0
    BY <1>2, <1>3
  <2>2. s[k] \in Seq(A) /\ f[k] = f[k - 1] \o s[k]
    BY <1>2, <1>5, PrefixGrows
  <2> QED
    BY <2>1, <2>2
<1>8. <<>> \o s[1] = s[1]
  BY <1>7, ConcatEmptySeq
<1>9. s[1] = Quoted(pieces[1][2])
  BY <1>2, <1>3, <1>4
<1>10. FlattenSeq(s) = s[1]
  BY <1>6, <1>7, <1>8
<1> QED
  BY <1>9, <1>10, SpellIs DEF s

\* exact_placeholder_key() takes it for one, and keeps the parameter.
LEMMA AloneRenders ==
  ASSUME NEW pieces, NEW params, PiecesOk(pieces), ParamsOk(params), Alone(pieces),
         ~BlankText(pieces[1][2]), pieces[1][2] \in DOMAIN params
  PROVE  RenderPayloadString(Spell(pieces), params) = Rendered(params[pieces[1][2]])
<1> DEFINE A == Alphabet(pieces, params)
           key == pieces[1][2]
           text == Quoted(key)
<1>1. Spell(pieces) = text
  BY AloneText
<1>2. key \in Seq(A) /\ OpenBrace \in A /\ CloseBrace \in A
  <2>1. 1 \in DOMAIN pieces
    BY DEF Alone, PiecesOk
  <2> QED
    BY <2>1, AlphabetOk DEF Tokens
<1> HIDE DEF A, key
<1>3. /\ text \in Seq(A) /\ Len(text) = Len(key) + 2 /\ text[1] = OpenBrace
      /\ text[Len(key) + 2] = CloseBrace /\ \A j \in 1..Len(key) : text[j + 1] = key[j]
  BY <1>2, QuotedTokens
<1> HIDE DEF text
<1>4. Len(key) \in Nat
  BY <1>2
<1>5. Lies(text, key, 1)
  <2>1. \A j \in 1..Len(key) : text[1 + j] = key[j]
    <3>1. SUFFICES ASSUME NEW j \in 1..Len(key) PROVE text[1 + j] = key[j]
      OBVIOUS
    <3>2. 1 + j = j + 1
      BY <1>4
    <3> QED
      BY <1>3, <3>2
  <2>2. 1 + Len(key) <= Len(text)
    BY <1>3, <1>4
  <2> QED
    BY <2>1, <2>2 DEF Lies
<1>6. SubSeq(text, 2, Len(text) - 1) = key
  <2>1. SubSeq(text, 1 + 1, 1 + Len(key)) = key
    BY <1>2, <1>3, <1>5, LiesSub
  <2>2. 1 + 1 = 2 /\ 1 + Len(key) = Len(text) - 1
    BY <1>3, <1>4
  <2> QED
    BY <2>1, <2>2
<1>7. Len(text) >= 2 /\ text[1] = OpenBrace /\ text[Len(text)] = CloseBrace
  BY <1>3, <1>4
<1>8. ~BlankText(key) /\ key \in DOMAIN params
  BY DEF key
<1> QED
  BY <1>1, <1>6, <1>7, <1>8 DEF RenderPayloadString, key

\* A text whose first or last piece is a text is not taken for a placeholder.
LEMMA NotExact ==
  ASSUME NEW pieces, NEW params, PiecesOk(pieces), ParamsOk(params), ~Alone(pieces),
         Meaningful(pieces, params),
         Len(pieces) > 1 => pieces[1][1] = "text" \/ pieces[Len(pieces)][1] = "text"
  PROVE  LET text == Spell(pieces)
         IN  ~(Len(text) >= 2 /\ text[1] = OpenBrace /\ text[Len(text)] = CloseBrace)
<1> DEFINE A == Alphabet(pieces, params)
           s == SpelledSeq(pieces)
           n == Len(pieces)
           text == FlattenSeq(s)
<1>1. Tokens("payload", pieces, params, A)
  BY AlphabetOk
<1>2. /\ n \in Nat /\ DOMAIN pieces = 1..n /\ s \in Seq(Seq(A)) /\ Len(s) = n
      /\ \A i \in 1..n : s[i] = Spelled(pieces[i])
  BY <1>1, PieceTypes
<1>3. ASSUME NEW i \in 1..n, pieces[i][1] = "text"
      PROVE  /\ s[i] \in Seq(A) /\ s[i] # <<>>
             /\ \A j \in 1..Len(s[i]) : s[i][j] # OpenBrace /\ s[i][j] # CloseBrace
  <2>1. s[i] = pieces[i][2]
    BY <1>2, <1>3 DEF Spelled
  <2>2. s[i] \in Seq(A)
    <3> HIDE DEF s, A
    <3> QED
      BY <1>2
  <2>3. pieces[i][2] # <<>>
    BY <1>2, <1>3 DEF PiecesOk
  <2>4. ~Has(pieces[i][2], OpenBrace) /\ ~Has(pieces[i][2], CloseBrace)
    BY <1>2, <1>3 DEF Meaningful
  <2> HIDE DEF s, A
  <2> QED
    BY <2>1, <2>2, <2>3, <2>4 DEF Has
<1>4. n > 0 => pieces[1][1] = "text" \/ pieces[n][1] = "text"
  <2>1. n = 1 => pieces[1][1] # "param"
    BY DEF Alone
  <2>2. n = 1 => pieces[1][1] \in {"text", "param"}
    BY <1>2 DEF PiecesOk
  <2>3. n = 0 \/ n = 1 \/ n > 1
    BY <1>2
  <2> QED
    BY <2>1, <2>2, <2>3
<1>5. Spell(pieces) = text
  BY SpellIs
<1> HIDE DEF s, A, n
<1>6. PICK f : Flattens(s, A, f)
  BY <1>2, PrefixesExist
<1>7. f[0] = <<>> /\ f[n] = text
  BY <1>2, <1>6 DEF Flattens
<1>a. s \in Seq(Seq(A))
  BY <1>2
<1>8. text \in Seq(A)
  BY <1>2, FlattenType
<1> HIDE DEF text
<1>9. ASSUME n > 0, pieces[1][1] = "text" PROVE text[1] # OpenBrace
  <2>1. 1 \in 1..n
    BY <1>2, <1>9
  <2>2. \A j \in 1..Len(s[1]) : text[Len(f[0]) + j] = s[1][j]
    <3>1. PICK k \in 1..Len(s) : k = 1 /\ k - 1 = 0
      BY <1>2, <2>1
    <3>2. \A j \in 1..Len(s[k]) : text[Len(f[k - 1]) + j] = s[k][j]
      BY <1>a, <1>6, PartInWhole DEF text
    <3> QED
      BY <3>1, <3>2
  <2>3. s[1] \in Seq(A) /\ s[1] # <<>> /\ \A j \in 1..Len(s[1]) : s[1][j] # OpenBrace
    BY <1>3, <1>9, <2>1
  <2>4. 1 \in 1..Len(s[1])
    BY <2>3
  <2>5. Len(f[0]) + 1 = 1
    BY <1>7
  <2> QED
    BY <2>2, <2>3, <2>4, <2>5
<1>10. ASSUME n > 0, pieces[n][1] = "text" PROVE text[Len(text)] # CloseBrace
  <2>1. n \in 1..n
    BY <1>2, <1>10
  <2>2. \A j \in 1..Len(s[n]) : text[Len(f[n - 1]) + j] = s[n][j]
    <3>1. n \in 1..Len(s)
      BY <1>2, <2>1
    <3> QED
      BY <1>a, <1>6, <3>1, PartInWhole, SMTT(30) DEF text
  <2>3. s[n] \in Seq(A) /\ s[n] # <<>> /\ \A j \in 1..Len(s[n]) : s[n][j] # CloseBrace
    BY <1>3, <1>10, <2>1
  <2>4. Len(s[n]) \in 1..Len(s[n])
    BY <2>3
  <2>5. Len(f[n]) = Len(f[n - 1]) + Len(s[n])
    <3>1. n \in 1..Len(s)
      BY <1>2, <2>1
    <3> QED
      BY <1>a, <1>6, <3>1, PrefixGrows, ZenonT(40)
  <2> QED
    BY <1>7, <2>2, <2>3, <2>4, <2>5
<1>11. n = 0 => Len(text) = 0
  <2>1. Len(<<>>) = 0
    OBVIOUS
  <2> QED
    BY <1>7, <2>1
<1>12. n = 0 \/ n > 0
  BY <1>2
<1> QED
  BY <1>4, <1>5, <1>9, <1>10, <1>11, <1>12

\* What a text of the payload stands for.
TextMeaning(pieces, params) ==
  IF Alone(pieces) THEN params[pieces[1][2]] ELSE <<"string", Substitute(pieces, params)>>

\* render_payload_string() gives that for a text it reads piece by piece.
LEMMA PayloadRenders ==
  ASSUME NEW pieces, NEW params, PiecesOk(pieces), ParamsOk(params),
         PieceByPiece(pieces, params)
  PROVE  RenderPayloadString(Spell(pieces), params) = Rendered(TextMeaning(pieces, params))
<1>1. CASE Alone(pieces)
  <2>1. ~BlankText(pieces[1][2]) /\ pieces[1][2] \in DOMAIN params
    BY <1>1 DEF PieceByPiece
  <2> QED
    BY <1>1, <2>1, AloneRenders DEF TextMeaning
<1>2. CASE ~Alone(pieces)
  <2> DEFINE out == Substitute(pieces, params)
             read == RenderText("payload", Spell(pieces), params)
  <2>1. /\ Meaningful(pieces, params) /\ ~Has(out, CloseBrace)
        /\ Len(pieces) > 1 => pieces[1][1] = "text" \/ pieces[Len(pieces)][1] = "text"
    BY <1>2 DEF PieceByPiece
  <2>2. \A i \in DOMAIN pieces : PieceOk("payload", pieces[i], params)
    BY <2>1, MeaningfulOk
  <2>3. FlattenSeq(WorthSeq("payload", pieces, params)) = out
    BY <2>2, WorthIs
  <2>4. Tokens("payload", pieces, params, Alphabet(pieces, params))
    BY AlphabetOk
  <2>5. read.ok /\ read.out = out
    <3> HIDE DEF out
    <3> QED
      BY <2>1, <2>2, <2>3, <2>4, RenderTextReads
  <2>6. LET text == Spell(pieces)
        IN  ~(Len(text) >= 2 /\ text[1] = OpenBrace /\ text[Len(text)] = CloseBrace)
    BY <1>2, <2>1, NotExact
  <2>7. RenderPayloadString(Spell(pieces), params) =
          IF read.ok THEN Rendered(<<"string", read.out>>) ELSE Failed
    BY <2>6 DEF RenderPayloadString
  <2> HIDE DEF read, out
  <2>8. RenderPayloadString(Spell(pieces), params) = Rendered(<<"string", out>>)
    BY <2>5, <2>7
  <2> QED
    BY <1>2, <2>8 DEF TextMeaning, out
<1> QED
  BY <1>1, <1>2

-----------------------------------------------------------------------------
\* What becomes of a leaf of the payload.
LeafOut(leaf, params) ==
  IF leaf[1] = "string" THEN RenderPayloadString(leaf[2], params) ELSE Rendered(leaf)

\* A leaf and its pieces.
LeafOk(leaf, pieces) ==
  leaf[1] = "string" => PiecesOk(pieces) /\ leaf = <<"string", Spell(pieces)>>
Readable(leaf, pieces, params) == leaf[1] = "string" => PieceByPiece(pieces, params)

\* It becomes what it stands for.
LEMMA LeafRenders ==
  ASSUME NEW leaf, NEW pieces, NEW params, ParamsOk(params), LeafOk(leaf, pieces),
         Readable(leaf, pieces, params)
  PROVE  LeafOut(leaf, params) = Rendered(Meaning(leaf, pieces, params))
<1>1. CASE leaf[1] # "string"
  BY <1>1 DEF LeafOut, Meaning
<1>2. CASE leaf[1] = "string"
  <2>1. PiecesOk(pieces) /\ PieceByPiece(pieces, params) /\ leaf[2] = Spell(pieces)
    BY <1>2 DEF LeafOk, Readable
  <2>2. LeafOut(leaf, params) = RenderPayloadString(Spell(pieces), params)
    BY <1>2, <2>1 DEF LeafOut
  <2>3. RenderPayloadString(Spell(pieces), params) = Rendered(TextMeaning(pieces, params))
    BY <2>1, PayloadRenders
  <2>4. Meaning(leaf, pieces, params) = TextMeaning(pieces, params)
    BY <1>2 DEF Meaning, TextMeaning
  <2> QED
    BY <2>2, <2>3, <2>4
<1> QED
  BY <1>1, <1>2

\* What a leaf stands for, if it is a string, is a text.
LEMMA MeaningType ==
  ASSUME NEW leaf, NEW pieces, NEW params, ParamsOk(params), LeafOk(leaf, pieces),
         Readable(leaf, pieces, params), Meaning(leaf, pieces, params)[1] = "string"
  PROVE  LET text == Meaning(leaf, pieces, params)[2] IN text \in Seq(ToSet(text))
<1>1. leaf[1] = "string"
  BY DEF Meaning
<1>2. PiecesOk(pieces) /\ PieceByPiece(pieces, params)
  BY <1>1 DEF LeafOk, Readable
<1>3. CASE Alone(pieces)
  <2>1. pieces[1][2] \in DOMAIN params
    BY <1>2, <1>3 DEF PieceByPiece
  <2>2. Meaning(leaf, pieces, params) = params[pieces[1][2]]
    BY <1>1, <1>3 DEF Meaning
  <2> QED
    BY <2>1, <2>2 DEF ParamsOk
<1>4. CASE ~Alone(pieces)
  <2> DEFINE text == Substitute(pieces, params)
             A == Alphabet(pieces, params)
             s == SubstSeq(pieces, params)
  <2>1. Meaning(leaf, pieces, params) = <<"string", text>>
    BY <1>1, <1>4 DEF Meaning
  <2>2. Scalars(pieces, params)
    BY <1>2, <1>4, MeaningfulScalars DEF PieceByPiece
  <2>3. s \in Seq(Seq(A)) /\ text = FlattenSeq(s)
    BY <1>2, <2>2, PartTypes DEF Substitute, SubstSeq
  <2> HIDE DEF s, A, text
  <2>4. text \in Seq(A)
    BY <2>3, FlattenType
  <2>5. text \in Seq(ToSet(text))
    BY <2>4 DEF ToSet
  <2> QED
    BY <2>1, <2>5
<1> QED
  BY <1>3, <1>4

\* The size of a payload is a number.
LEMMA SizeType ==
  ASSUME NEW n \in Nat, NEW values, DOMAIN values = 1..n,
         \A i \in 1..n : values[i][1] = "string" => values[i][2] \in Seq(ToSet(values[i][2]))
  PROVE  SizeOf(values) \in Nat
<1> DEFINE part(i) == IF values[i][1] = "string" THEN values[i][2] ELSE <<values[i][1]>>
           s == [i \in 1..n |-> part(i)]
           B == UNION {ToSet(part(i)) : i \in 1..n}
<1>1. SizeOf(values) = Len(FlattenSeq(s))
  BY DEF SizeOf
<1>2. ASSUME NEW i \in 1..n PROVE part(i) \in Seq(ToSet(part(i)))
  <2>1. \A x : <<x>> \in Seq(ToSet(<<x>>))
    BY DEF ToSet
  <2>2. CASE values[i][1] = "string"
    BY <2>2
  <2>3. CASE values[i][1] # "string"
    BY <2>1, <2>3
  <2> QED
    BY <2>2, <2>3
<1> HIDE DEF part
<1>3. ASSUME NEW i \in 1..n PROVE part(i) \in Seq(B)
  <2>1. ToSet(part(i)) \subseteq B
    OBVIOUS
  <2> HIDE DEF B
  <2> QED
    BY <1>2, <2>1
<1> HIDE DEF B
<1>4. s \in Seq(Seq(B))
  BY <1>3
<1> HIDE DEF s
<1>5. FlattenSeq(s) \in Seq(B)
  BY <1>4, FlattenType
<1> QED
  BY <1>1, <1>5

\* render_payload_value(), leaf by leaf.
LEMMA PayloadLeaves ==
  ASSUME NEW leaves, NEW params
  PROVE  LET read == RenderPayload(leaves, params)
         IN  /\ read.ok <=> \A i \in DOMAIN leaves : LeafOut(leaves[i], params).ok
             /\ read.ok => read.out = [i \in DOMAIN leaves |-> LeafOut(leaves[i], params).out]
<1> DEFINE out == [i \in DOMAIN leaves |-> LeafOut(leaves[i], params)]
           values == [i \in DOMAIN leaves |-> LeafOut(leaves[i], params).out]
           good == \A i \in DOMAIN leaves : LeafOut(leaves[i], params).ok
<1>1. RenderPayload(leaves, params) =
        IF \A i \in DOMAIN out : out[i].ok
        THEN Rendered([i \in DOMAIN out |-> out[i].out]) ELSE Failed
  BY DEF RenderPayload, LeafOut
<1>2. (\A i \in DOMAIN out : out[i].ok) <=> good
  OBVIOUS
<1>3. [i \in DOMAIN out |-> out[i].out] = values
  OBVIOUS
<1> HIDE DEF out, values, good
<1>4. RenderPayload(leaves, params) = IF good THEN Rendered(values) ELSE Failed
  BY <1>1, <1>2, <1>3
<1> QED
  BY <1>4, ReadOrNot DEF good, values

-----------------------------------------------------------------------------
\* A template, as the configurations have them.
TemplateOk(t) ==
  /\ PiecesOk(t.topicPieces) /\ t.topic = Spell(t.topicPieces)
  /\ t.payload \in Seq(ToSet(t.payload))
  /\ \A i \in DOMAIN t.payload : LeafOk(t.payload[i], t.payloadPieces[i])

\* What a payload stands for.
Payload(t, p) == [i \in DOMAIN t.payload |-> Meaning(t.payload[i], t.payloadPieces[i], p)]

\* A draft that was rendered is the template with its placeholders replaced.
Substituted(t, p, out) ==
  /\ out.topic = Substitute(t.topicPieces, p)
  /\ Slashes(out.topic) = Slashes(Literals(t.topicPieces))
  /\ \A i \in DOMAIN t.payload :
       Readable(t.payload[i], t.payloadPieces[i], p) =>
         out.payload[i] = Meaning(t.payload[i], t.payloadPieces[i], p)

\* Why a template may not be rendered.
Unrendered(t, p) ==
  \/ TopicRefused(t.topicPieces, p)
  \/ \E i \in DOMAIN t.payload : ~Readable(t.payload[i], t.payloadPieces[i], p)
  \/ SizeOf(Payload(t, p)) > MaxPayload

\* The first case of render_draft().
LEMMA DraftSubstituted ==
  ASSUME NEW t, NEW p, TemplateOk(t), ParamsOk(p), RenderDraft(t, p).ok
  PROVE  Substituted(t, p, RenderDraft(t, p))
<1> DEFINE out == RenderDraft(t, p)
           topic == RenderText("topic", t.topic, p)
           payload == RenderPayload(t.payload, p)
<1>1. topic.ok /\ payload.ok /\ out.topic = topic.out /\ out.payload = payload.out
  BY DEF RenderDraft
<1>2. PiecesOk(t.topicPieces) /\ t.topic = Spell(t.topicPieces)
      /\ \A i \in DOMAIN t.payload : LeafOk(t.payload[i], t.payloadPieces[i])
  BY DEF TemplateOk
<1>3. /\ topic.out = Substitute(t.topicPieces, p)
      /\ Slashes(topic.out) = Slashes(Literals(t.topicPieces))
  BY <1>1, <1>2, TopicRendered
<1>4. payload.out = [i \in DOMAIN t.payload |-> LeafOut(t.payload[i], p).out]
  BY <1>1, PayloadLeaves
<1> HIDE DEF topic, payload, out
<1>5. ASSUME NEW i \in DOMAIN t.payload, Readable(t.payload[i], t.payloadPieces[i], p)
      PROVE  out.payload[i] = Meaning(t.payload[i], t.payloadPieces[i], p)
  <2>1. LeafOut(t.payload[i], p) = Rendered(Meaning(t.payload[i], t.payloadPieces[i], p))
    BY <1>2, <1>5, LeafRenders
  <2>2. out.payload[i] = LeafOut(t.payload[i], p).out
    BY <1>1, <1>4
  <2> QED
    BY <2>1, <2>2, ReadOrNot
<1>6. Substituted(t, p, out)
  BY <1>1, <1>3, <1>5 DEF Substituted
<1> QED
  BY <1>6 DEF out

\* The second one.
LEMMA DraftRefused ==
  ASSUME NEW t, NEW p, TemplateOk(t), ParamsOk(p), ~RenderDraft(t, p).ok
  PROVE  Unrendered(t, p)
<1>1. SUFFICES ASSUME ~TopicRefused(t.topicPieces, p),
                      \A i \in DOMAIN t.payload : Readable(t.payload[i], t.payloadPieces[i], p)
      PROVE  SizeOf(Payload(t, p)) > MaxPayload
  BY DEF Unrendered
<1> DEFINE topic == RenderText("topic", t.topic, p)
           payload == RenderPayload(t.payload, p)
           fits == TopicTextOk(topic.out) /\ \A x \in {"+", "#"} : ~Has(topic.out, x)
<1>2. PiecesOk(t.topicPieces) /\ t.topic = Spell(t.topicPieces)
      /\ t.payload \in Seq(ToSet(t.payload))
      /\ \A i \in DOMAIN t.payload : LeafOk(t.payload[i], t.payloadPieces[i])
  BY DEF TemplateOk
<1>3. topic.ok /\ topic.out = Substitute(t.topicPieces, p)
  BY <1>1, <1>2, TopicRenders
<1>4. fits
  <2>1. /\ ~BlankText(topic.out) /\ ~(Len(topic.out) > MaxTopic)
        /\ \A x \in {"+", "#", "ctl"} : ~Has(topic.out, x)
    BY <1>1, <1>3 DEF TopicRefused
  <2>2. Len(topic.out) \in Nat
    BY <1>1, <1>2, <1>3, TopicLength
  <2>3. Len(topic.out) <= MaxTopic
    <3> HIDE DEF topic
    <3> QED
      BY <2>1, <2>2, MaxPayloadAssumption
  <2> QED
    BY <2>1, <2>3 DEF TopicTextOk
<1>5. ASSUME NEW i \in DOMAIN t.payload
      PROVE  /\ LeafOut(t.payload[i], p).ok
             /\ LeafOut(t.payload[i], p).out = Meaning(t.payload[i], t.payloadPieces[i], p)
  <2>1. LeafOut(t.payload[i], p) = Rendered(Meaning(t.payload[i], t.payloadPieces[i], p))
    BY <1>1, <1>2, LeafRenders
  <2> QED
    BY <2>1, ReadOrNot
<1>6. payload.ok /\ payload.out = Payload(t, p)
  <2>1. payload.ok /\ payload.out = [i \in DOMAIN t.payload |-> LeafOut(t.payload[i], p).out]
    BY <1>5, PayloadLeaves
  <2>2. [i \in DOMAIN t.payload |-> LeafOut(t.payload[i], p).out] = Payload(t, p)
    BY <1>5 DEF Payload
  <2> QED
    BY <2>1, <2>2
<1>7. RenderDraft(t, p).ok <=>
        topic.ok /\ fits /\ payload.ok /\ SizeOf(payload.out) <= MaxPayload
  BY DEF RenderDraft
<1> HIDE DEF topic, payload, fits
<1>8. ~(SizeOf(Payload(t, p)) <= MaxPayload)
  BY <1>3, <1>4, <1>6, <1>7
<1>9. SizeOf(Payload(t, p)) \in Nat
  <2>1. Len(t.payload) \in Nat /\ DOMAIN t.payload = 1..Len(t.payload)
    BY <1>2
  <2>2. DOMAIN Payload(t, p) = 1..Len(t.payload)
    BY <2>1 DEF Payload
  <2>3. ASSUME NEW i \in 1..Len(t.payload), Payload(t, p)[i][1] = "string"
        PROVE  Payload(t, p)[i][2] \in Seq(ToSet(Payload(t, p)[i][2]))
    <3>1. Payload(t, p)[i] = Meaning(t.payload[i], t.payloadPieces[i], p)
      BY <2>1 DEF Payload
    <3>2. LeafOk(t.payload[i], t.payloadPieces[i]) /\ Readable(t.payload[i], t.payloadPieces[i], p)
      BY <1>1, <1>2, <2>1
    <3> QED
      BY <2>3, <3>1, <3>2, MeaningType
  <2> QED
    BY <2>1, <2>2, <2>3, SizeType
<1>10. MaxPayload \in Nat
  BY MaxPayloadAssumption
<1> QED
  BY <1>8, <1>9, <1>10

-----------------------------------------------------------------------------
\* What is said of the last command.
RightResult(r) ==
  /\ r.route = "published" => Substituted(r.template, r.params, r.draft)
  /\ r.route = "Render" => Unrendered(r.template, r.params)

\* It is the property.
LEMMA RightResultForm == RenderingSubstitutes <=> RightResult(processed)
BY Zenon
DEF RenderingSubstitutes, RightResult, Substituted, Unrendered, TopicRefused, Readable, Payload

\* The templates and parameters of a configuration.
LEMMA CommandTypes ==
  ASSUME NEW c \in Configs
  PROVE  /\ \A i \in DOMAIN c.templates : TemplateOk(c.templates[i])
         /\ \A r \in Requests(c) : ParamsOk(r.params)
<1>1. ASSUME NEW i \in DOMAIN c.templates PROVE TemplateOk(c.templates[i])
  BY TemplatesAssumption DEF TemplateOk, LeafOk
<1>2. ASSUME NEW r \in Requests(c) PROVE ParamsOk(r.params)
  <2>1. PICK a \in RuleActions(c, "command") : r = [template |-> a[2], params |-> a[3]]
    BY DEF Requests
  <2>2. PICK i \in Enabled(c.rules) : a \in ToSet(c.rules[i].actions)
    BY DEF RuleActions
  <2>3. a[1] = "command" /\ i \in DOMAIN c.rules
    BY DEF RuleActions, Enabled
  <2>4. \A k \in DOMAIN a[3] : a[3][k][1] = "string" => a[3][k][2] \in Seq(ToSet(a[3][k][2]))
    BY <2>2, <2>3, TemplatesAssumption
  <2>5. r.params = a[3]
    BY <2>1
  <2> QED
    BY <2>4, <2>5 DEF ParamsOk
<1> QED
  BY <1>1, <1>2

\* process_command_request() gives the right one.
LEMMA ResultRight ==
  ASSUME config \in Configs, NEW r \in Requests(config)
  PROVE  RightResult(CommandResult(r))
<1> DEFINE at == {i \in DOMAIN config.templates : config.templates[i].id = r.template}
           found == Find(config.templates, r.template)
           t == found[1]
           p == r.params
           draft == RenderDraft(t, p)
           result == CommandResult(r)
<1>1. ASSUME found # <<>> PROVE TemplateOk(t)
  <2>1. at # {} /\ found = <<config.templates[Min(at)]>>
    BY <1>1 DEF Find
  <2>2. Min(at) \in DOMAIN config.templates
    <3>1. DOMAIN config.templates \subseteq Nat
      BY ConfigsAssumption
    <3> QED
      BY <2>1, <3>1, MinIsLeast
  <2>3. t = config.templates[Min(at)]
    BY <2>1
  <2> QED
    BY <2>2, <2>3, CommandTypes
<1>2. ParamsOk(p)
  BY CommandTypes
<1>3. /\ result.route = "published" =>
           found # <<>> /\ draft.ok /\ result.template = t /\ result.params = p
             /\ result.draft = draft
      /\ result.route = "Render" =>
           found # <<>> /\ ~draft.ok /\ result.template = t /\ result.params = p
  <2> HIDE DEF found
  <2>1. CASE found = <<>>
    <3>1. result = [Nothing EXCEPT !.route = "CommandTemplateNotFound"]
      BY <2>1 DEF CommandResult, found
    <3>2. result.route = "CommandTemplateNotFound"
      BY <3>1 DEF Nothing
    <3> QED
      BY <3>2
  <2>2. CASE found # <<>>
    <3> DEFINE on == t.enabled
               up == t.broker \in EnabledIds(config.brokers)
    <3> HIDE DEF draft
    <3>1. result = IF ~on THEN [Nothing EXCEPT !.route = "CommandTemplateDisabled"]
                   ELSE IF ~draft.ok
                   THEN [route |-> "Render", ok |-> FALSE, template |-> t, params |-> p]
                   ELSE IF ~up THEN [Nothing EXCEPT !.route = "BrokerUnavailable"]
                   ELSE [route |-> "published", ok |-> TRUE, template |-> t,
                         params |-> p, draft |-> draft]
      BY <2>2 DEF CommandResult, found, draft
    <3> HIDE DEF on, up, result, t, p
    <3> QED
      BY <2>2, <3>1 DEF Nothing
  <2> QED
    BY <2>1, <2>2
<1> HIDE DEF found, t, p, result
<1>4. result.route = "published" => Substituted(result.template, result.params, result.draft)
  BY <1>1, <1>2, <1>3, DraftSubstituted
<1>5. result.route = "Render" => Unrendered(result.template, result.params)
  BY <1>1, <1>2, <1>3, DraftRefused
<1> QED
  BY <1>4, <1>5 DEF RightResult, result

\* A command that process_command_request() has published is its template with
\* every placeholder replaced by its parameter, on as many topic levels as the
\* template has, and one it has refused gave it one of the named reasons: the
\* scanner of render_text_template() and the pieces of a template agree, for
\* every template and all parameters.
THEOREM RenderingSubstitutesHolds == Spec => []RenderingSubstitutes
<1>1. Init => RenderingSubstitutes
  BY DEF Init, Nothing, RenderingSubstitutes
<1>2. ASSUME IInv, RenderingSubstitutes, [Next]_vars PROVE RenderingSubstitutes'
  <2>1. GateInv /\ ShapeInv
    BY <1>2 DEF IInv
  <2>2. (RenderingSubstitutes <=> RightResult(processed))'
    BY RightResultForm, PTL
  <2>3. CASE ProcessCommand
    <3>1. commands # <<>> /\ processed' = CommandResult(Head(commands))
      BY <2>3 DEF ProcessCommand
    <3>2. Head(commands) \in Requests(config) /\ config \in Configs
      BY <2>1, <3>1 DEF ShapeInv, GateInv
    <3>3. RightResult(CommandResult(Head(commands)))
      BY <3>2, ResultRight
    <3>4. RightResult(processed')
      BY <3>1, <3>3
    <3> QED
      BY <2>2, <3>4
  <2>4. CASE UNCHANGED processed
    <3>1. RightResult(processed)
      BY <1>2, RightResultForm
    <3>2. RightResult(processed')
      BY <2>4, <3>1
    <3> QED
      BY <2>2, <3>2
  <2>5. ProcessCommand \/ UNCHANGED processed
    BY <1>2, ZenonT(40)
    DEF Next, Dispatch, Validate, Start, Receive, SkipAfterDrop, StreamToUi, ForwardToSink,
        ExecuteCommand, AddMetadata, DropEvent, FinishDispatch, TakeForward,
        CloseQueue, ToggleViewers, outside, vars
  <2> QED
    BY <2>3, <2>4, <2>5
<1> QED
  BY <1>1, <1>2, Invariance, PTL DEF Spec

-----------------------------------------------------------------------------
(* Every text has pieces.                                                 *)

\* A part put before the others.
LEMMA FlattenCons ==
  ASSUME NEW A, NEW c \in Seq(A), NEW s \in Seq(Seq(A))
  PROVE  /\ <<c>> \o s \in Seq(Seq(A))
         /\ FlattenSeq(<<c>> \o s) = Pair(c, FlattenSeq(s))
<1> DEFINE n == Len(s)
           t == <<c>> \o s
<1>1. /\ t \in Seq(Seq(A)) /\ n \in Nat /\ Len(t) = n + 1 /\ t[1] = c
      /\ \A k \in 1..n : t[k + 1] = s[k]
  <2>1. <<c>> \in Seq(Seq(A)) /\ Len(<<c>>) = 1 /\ n \in Nat
    OBVIOUS
  <2>2. /\ t \in Seq(Seq(A)) /\ Len(t) = Len(<<c>>) + Len(s)
        /\ \A i \in 1..(Len(<<c>>) + Len(s)) :
             t[i] = IF i <= Len(<<c>>) THEN <<c>>[i] ELSE s[i - Len(<<c>>)]
    BY <2>1, ConcatProperties
  <2> HIDE DEF t
  <2>3. t[1] = c
    BY <2>1, <2>2
  <2>4. ASSUME NEW k \in 1..n PROVE t[k + 1] = s[k]
    <3>1. k + 1 \in 1..(1 + n) /\ ~(k + 1 <= 1) /\ (k + 1) - 1 = k
      BY <2>1
    <3> QED
      BY <2>1, <2>2, <3>1
  <2> QED
    BY <2>1, <2>2, <2>3, <2>4
<1> HIDE DEF t
<1>2. PICK f : Flattens(s, A, f)
  BY PrefixesExist
<1>3. PICK g : Flattens(t, A, g)
  BY <1>1, PrefixesExist
<1>4. f[0] = <<>> /\ f[n] = FlattenSeq(s) /\ g[0] = <<>> /\ g[n + 1] = FlattenSeq(t)
  BY <1>1, <1>2, <1>3 DEF Flattens
<1> DEFINE Good(k) == g[k + 1] = Pair(c, f[k])
           Bad == {k \in 0..n : ~Good(k)}
<1>5. Good(0)
  <2>1. PICK k \in 1..Len(t) : k = 1 /\ k - 1 = 0
    BY <1>1
  <2>2. g[k] = g[k - 1] \o t[k]
    BY <1>1, <1>3, PrefixGrows, ZenonT(40)
  <2>3. g[1] = <<>> \o c
    BY <1>1, <1>4, <2>1, <2>2
  <2>4. <<>> \o c = c /\ c \o <<>> = c
    BY ConcatEmptySeq
  <2>5. 0 + 1 = 1
    OBVIOUS
  <2> QED
    BY <1>4, <2>3, <2>4, <2>5 DEF Pair
<1>6. ASSUME NEW k \in 1..n, Good(k - 1) PROVE Good(k)
  <2>1. f[k - 1] \in Seq(A) /\ s[k] \in Seq(A) /\ f[k] = Pair(f[k - 1], s[k])
    BY <1>2, PrefixGrows DEF Pair
  <2>2. PICK j \in 1..Len(t) : j = k + 1 /\ j - 1 = k /\ (k - 1) + 1 = k
    BY <1>1
  <2>3. g[j] = Pair(g[j - 1], t[j])
    <3>1. t \in Seq(Seq(A))
      BY <1>1
    <3>2. g[j] = g[j - 1] \o t[j]
      BY <1>3, <3>1, PrefixGrows
    <3> QED
      BY <3>2 DEF Pair
  <2>4. g[k] = Pair(c, f[k - 1])
    BY <1>6, <2>2
  <2>5. t[j] = s[k]
    BY <1>1, <2>2
  <2>6. Pair(Pair(c, f[k - 1]), s[k]) = Pair(c, Pair(f[k - 1], s[k]))
    BY <2>1, PairSplits
  <2> QED
    BY <2>1, <2>2, <2>3, <2>4, <2>5, <2>6
<1> HIDE DEF Good
<1>7. Bad = {}
  <2>1. SUFFICES ASSUME Bad # {} PROVE FALSE
    OBVIOUS
  <2>2. PICK m \in Bad : \A k \in Bad : m <= k
    <3>1. Bad \in SUBSET Nat
      BY <1>1
    <3> HIDE DEF Bad
    <3> QED
      BY <2>1, <3>1, LeastExists
  <2>3. m \in 1..n /\ m - 1 \in 0..n /\ ~(m <= m - 1) /\ ~Good(m)
    BY <1>1, <1>5
  <2>4. Good(m - 1)
    BY <2>2, <2>3
  <2> QED
    BY <1>6, <2>3, <2>4
<1>8. Good(n)
  BY <1>1, <1>7
<1> QED
  BY <1>1, <1>4, <1>8 DEF Good, t

\* The pieces of a text over A.
PiecesOf(pieces, text, A) ==
  /\ PiecesOk(pieces) /\ Spell(pieces) = text
  /\ \A i \in DOMAIN pieces : pieces[i][2] \in Seq(A)

\* A text is a sequence of its own tokens.
LEMMA OwnTokens ==
  ASSUME NEW A, NEW s \in Seq(A)
  PROVE  s \in Seq(ToSet(s))
BY DEF ToSet

\* The empty text has no pieces.
LEMMA NoPieces ==
  ASSUME NEW A
  PROVE  PiecesOf(<<>>, <<>>, A)
<1>1. SpelledSeq(<<>>) = <<>>
  BY DEF SpelledSeq
<1>2. FlattenSeq(<<>>) = <<>>
  BY DEF FlattenSeq
<1>3. Spell(<<>>) = <<>>
  BY <1>1, <1>2, SpellIs
<1>4. PiecesOk(<<>>)
  BY DEF PiecesOk
<1> QED
  BY <1>3, <1>4 DEF PiecesOf

\* A piece that may stand before others.
Leads(piece, A) ==
  /\ piece[1] \in {"text", "param"} /\ piece[2] \in Seq(A)
  /\ piece[1] = "param" => ~Has(piece[2], CloseBrace)
  /\ piece[1] = "text" => piece[2] # <<>> /\ ~Has(piece[2], OpenBrace)

\* It can be put before the pieces of a text.
LEMMA PiecesCons ==
  ASSUME NEW A, OpenBrace \in A, CloseBrace \in A, NEW text \in Seq(A),
         NEW pieces, PiecesOf(pieces, text, A), NEW piece, Leads(piece, A)
  PROVE  PiecesOf(<<piece>> \o pieces, Pair(Spelled(piece), text), A)
<1> DEFINE n == Len(pieces)
           all == <<piece>> \o pieces
           B == ToSet(pieces) \cup {piece}
<1>1. pieces \in Seq(B) /\ <<piece>> \in Seq(B) /\ n \in Nat /\ DOMAIN pieces = 1..n
  <2>1. pieces \in Seq(ToSet(pieces))
    BY DEF PiecesOf, PiecesOk
  <2> QED
    BY <2>1
<1> HIDE DEF B
<1>2. /\ all \in Seq(B) /\ Len(all) = n + 1 /\ all[1] = piece /\ DOMAIN all = 1..(n + 1)
      /\ \A k \in 1..n : all[k + 1] = pieces[k]
  <2>1. Len(<<piece>>) = 1
    OBVIOUS
  <2>2. /\ all \in Seq(B) /\ Len(all) = Len(<<piece>>) + Len(pieces)
        /\ \A i \in 1..(Len(<<piece>>) + Len(pieces)) :
             all[i] = IF i <= Len(<<piece>>) THEN <<piece>>[i] ELSE pieces[i - Len(<<piece>>)]
    BY <1>1, ConcatProperties
  <2> HIDE DEF all
  <2>3. all[1] = piece
    BY <1>1, <2>1, <2>2
  <2>4. ASSUME NEW k \in 1..n PROVE all[k + 1] = pieces[k]
    <3>1. k + 1 \in 1..(1 + n) /\ ~(k + 1 <= 1) /\ (k + 1) - 1 = k
      BY <1>1
    <3> QED
      BY <2>1, <2>2, <3>1
  <2>5. Len(all) = n + 1 /\ DOMAIN all = 1..(n + 1)
    BY <1>1, <2>1, <2>2
  <2> QED
    BY <2>2, <2>3, <2>4, <2>5
<1> HIDE DEF all
<1>3. \A i \in 1..(n + 1) : i = 1 \/ \E k \in 1..n : i = k + 1
  <2>1. ASSUME NEW i \in 1..(n + 1), i # 1 PROVE i - 1 \in 1..n /\ i = (i - 1) + 1
    BY <1>1, <2>1
  <2> QED
    BY <2>1
<1>4. all \in Seq(ToSet(all))
  BY <1>2, OwnTokens
<1>5. PiecesOk(pieces) /\ Spell(pieces) = text /\ \A i \in 1..n : pieces[i][2] \in Seq(A)
  BY <1>1 DEF PiecesOf
<1>6. \A i \in 1..(n + 1) : all[i][2] \in Seq(A)
  BY <1>2, <1>3, <1>5 DEF Leads
<1> DEFINE fits(i, final, p) ==
             LET c == p[2]
             IN  /\ p[1] \in {"text", "param"} /\ c \in Seq(ToSet(c))
                 /\ p[1] = "param" => ~Has(c, CloseBrace)
                 /\ p[1] = "text" =>
                      /\ c # <<>>
                      /\ Has(c, OpenBrace) =>
                           /\ i = final
                           /\ \A j, k \in DOMAIN c : c[j] = OpenBrace /\ c[k] = CloseBrace => k < j
<1>7. \A p : PiecesOk(p) <=>
               p \in Seq(ToSet(p)) /\ \A i \in DOMAIN p : fits(i, Len(p), p[i])
  BY DEF PiecesOk
<1>8. fits(1, n + 1, piece)
  <2>1. piece[2] \in Seq(ToSet(piece[2]))
    BY OwnTokens DEF Leads
  <2> QED
    BY <2>1 DEF Leads
<1>9. ASSUME NEW k \in 1..n PROVE fits(k + 1, n + 1, pieces[k])
  <2>1. fits(k, n, pieces[k])
    <3> HIDE DEF fits
    <3> QED
      BY <1>1, <1>5, <1>7
  <2>2. k = n => k + 1 = n + 1
    OBVIOUS
  <2> QED
    BY <2>1, <2>2
<1> HIDE DEF fits
<1>10. PiecesOk(all)
  <2>1. ASSUME NEW i \in 1..(n + 1) PROVE fits(i, n + 1, all[i])
    BY <1>2, <1>3, <1>8, <1>9
  <2> QED
    BY <1>2, <1>4, <1>7, <2>1
<1> DEFINE s == SpelledSeq(pieces)
           u == SpelledSeq(all)
<1>11. Spelled(piece) \in Seq(A) /\ \A i \in 1..n : Spelled(pieces[i]) \in Seq(A)
  <2>1. \A key \in Seq(A) : Quoted(key) \in Seq(A)
    BY QuotedTokens
  <2> QED
    BY <1>5, <2>1 DEF Spelled, Leads
<1>12. s \in Seq(Seq(A)) /\ Len(s) = n /\ \A i \in 1..n : s[i] = Spelled(pieces[i])
  <2>1. s = [i \in 1..n |-> Spelled(pieces[i])]
    BY <1>1 DEF SpelledSeq
  <2> HIDE DEF n
  <2> QED
    BY <1>1, <1>11, <2>1
<1>13. u = <<Spelled(piece)>> \o s
  <2> DEFINE v == <<Spelled(piece)>> \o s
             Q == Seq(A)
  <2>1. u = [i \in 1..(n + 1) |-> Spelled(all[i])]
    BY <1>2 DEF SpelledSeq
  <2>2. \A i \in 1..(n + 1) : Spelled(all[i]) \in Q
    BY <1>2, <1>3, <1>11
  <2>3. u \in Seq(Q) /\ Len(u) = n + 1 /\ \A i \in 1..(n + 1) : u[i] = Spelled(all[i])
    <3> HIDE DEF Q, n
    <3> QED
      BY <1>1, <2>1, <2>2
  <2>4. <<Spelled(piece)>> \in Seq(Q) /\ Len(<<Spelled(piece)>>) = 1
    BY <1>11
  <2> HIDE DEF s, u
  <2>5. /\ v \in Seq(Q) /\ Len(v) = 1 + n
        /\ \A i \in 1..(1 + n) : v[i] = IF i <= 1 THEN <<Spelled(piece)>>[i] ELSE s[i - 1]
    BY <1>12, <2>4, ConcatProperties
  <2> HIDE DEF v, Q
  <2>6. ASSUME NEW i \in 1..(n + 1) PROVE u[i] = v[i]
    <3>1. CASE i = 1
      BY <1>1, <1>2, <2>3, <2>5, <3>1
    <3>2. ASSUME NEW k \in 1..n, i = k + 1 PROVE u[i] = v[i]
      <4>1. i \in 1..(1 + n) /\ ~(i <= 1) /\ i - 1 = k
        BY <1>1, <3>2
      <4>2. v[i] = s[k]
        BY <2>5, <4>1
      <4> QED
        BY <1>2, <1>12, <2>3, <3>2, <4>2
    <3> QED
      BY <1>3, <3>1, <3>2
  <2>7. Len(u) = Len(v) /\ \A i \in 1..Len(u) : u[i] = v[i]
    BY <1>1, <2>3, <2>5, <2>6
  <2>8. u = v
    BY <2>3, <2>5, <2>7, SeqEqual
  <2> QED
    BY <2>8 DEF v
<1>14. Spell(all) = Pair(Spelled(piece), text)
  <2>1. Spell(all) = FlattenSeq(u) /\ text = FlattenSeq(s)
    BY <1>5, SpellIs
  <2> HIDE DEF s, u
  <2>2. FlattenSeq(<<Spelled(piece)>> \o s) = Pair(Spelled(piece), FlattenSeq(s))
    BY <1>11, <1>12, FlattenCons
  <2> QED
    BY <1>13, <2>1, <2>2
<1>15. PiecesOf(all, Pair(Spelled(piece), text), A)
  BY <1>2, <1>6, <1>10, <1>14 DEF PiecesOf
<1> QED
  BY <1>15 DEF all

\* A text is a piece by itself if a "}" never follows a "{".
LEMMA PieceAlone ==
  ASSUME NEW A, NEW text \in Seq(A), text # <<>>,
         \A j, k \in DOMAIN text : text[j] = OpenBrace /\ text[k] = CloseBrace => k < j
  PROVE  PiecesOf(<< <<"text", text>> >>, text, A)
<1> DEFINE p == <<"text", text>>
<1>1. p[1] = "text" /\ p[2] = text
  OBVIOUS
<1> HIDE DEF p
<1>2. <<p>> \in Seq(ToSet(<<p>>)) /\ Len(<<p>>) = 1 /\ DOMAIN <<p>> = {1} /\ <<p>>[1] = p
  BY DEF ToSet
<1>3. text \in Seq(ToSet(text))
  BY OwnTokens
<1>4. PiecesOk(<<p>>)
  BY <1>1, <1>2, <1>3 DEF PiecesOk
<1>5. SpelledSeq(<<p>>) = <<text>> \o <<>>
  <2>1. Spelled(p) = text
    BY <1>1 DEF Spelled
  <2>2. SpelledSeq(<<p>>) = <<text>>
    <3>1. SpelledSeq(<<p>>) = [i \in {1} |-> Spelled(<<p>>[i])]
      BY <1>2 DEF SpelledSeq
    <3>2. [i \in {1} |-> Spelled(<<p>>[i])] = [i \in {1} |-> text]
      BY <1>2, <2>1
    <3>3. <<text>> = [i \in {1} |-> text]
      OBVIOUS
    <3> QED
      BY <3>1, <3>2, <3>3
  <2>3. <<text>> \in Seq(Seq(A))
    OBVIOUS
  <2>4. <<text>> \o <<>> = <<text>>
    BY <2>3, ConcatEmptySeq
  <2> QED
    BY <2>2, <2>4
<1>6. FlattenSeq(<<text>> \o <<>>) = Pair(text, FlattenSeq(<<>>))
  <2>1. <<>> \in Seq(Seq(A))
    OBVIOUS
  <2> QED
    BY <2>1, FlattenCons
<1>7. FlattenSeq(<<>>) = <<>>
  BY DEF FlattenSeq
<1>8. Pair(text, <<>>) = text
  BY ConcatEmptySeq DEF Pair
<1>9. Spell(<<p>>) = text
  BY <1>5, <1>6, <1>7, <1>8, SpellIs
<1>10. PiecesOf(<<p>>, text, A)
  BY <1>1, <1>2, <1>4, <1>9 DEF PiecesOf
<1> QED
  BY <1>10 DEF p

\* A part of a text, and where its tokens are.
PartAt(u, text, m, n, A) ==
  /\ u \in Seq(A) /\ Len(u) \in Nat /\ DOMAIN u = 1..Len(u)
  /\ m <= n => Len(u) = (n - m) + 1 /\ u # <<>>
  /\ ~(m <= n) => u = <<>>
  /\ \A j \in 1..Len(u) : (m + j) - 1 \in m..n /\ u[j] = text[(m + j) - 1]

\* SubSeq() cuts it out.
LEMMA PartOf ==
  ASSUME NEW A, NEW text \in Seq(A), NEW m \in 1..(Len(text) + 1), NEW n \in 0..Len(text)
  PROVE  PartAt(SubSeq(text, m, n), text, m, n, A)
<1> DEFINE u == SubSeq(text, m, n)
<1>1. Len(text) \in Nat /\ m \in Int /\ n \in Int /\ \A i \in m..n : text[i] \in A
  OBVIOUS
<1>2. /\ u \in Seq(A) /\ Len(u) = IF m <= n THEN n - m + 1 ELSE 0
      /\ \A i \in 1..(n - m + 1) : u[i] = text[m + i - 1]
  BY <1>1, SubSeqProperties
<1>3. ~(m <= n) => u = <<>>
  BY <1>1, SubSeqEmpty
<1> HIDE DEF u
<1>4. Len(u) \in Nat /\ DOMAIN u = 1..Len(u)
  BY <1>2
<1>5. m <= n => Len(u) = (n - m) + 1 /\ u # <<>>
  <2>1. Len(<<>>) = 0
    OBVIOUS
  <2>2. m <= n => Len(u) = (n - m) + 1 /\ Len(u) # 0
    BY <1>1, <1>2
  <2> QED
    BY <2>1, <2>2
<1>6. ASSUME NEW j \in 1..Len(u) PROVE (m + j) - 1 \in m..n /\ u[j] = text[(m + j) - 1]
  <2>1. j \in 1..(n - m + 1) /\ (m + j) - 1 \in m..n /\ (m + j) - 1 = m + j - 1
    BY <1>1, <1>2
  <2> QED
    BY <1>2, <2>1
<1> QED
  BY <1>2, <1>3, <1>4, <1>5, <1>6 DEF u, PartAt

\* A placeholder as it stands in a text.
LEMMA QuotedPart ==
  ASSUME NEW A, NEW text \in Seq(A), NEW start \in 1..Len(text), text[start] = OpenBrace,
         NEW end \in (start + 1)..Len(text), text[end] = CloseBrace
  PROVE  SubSeq(text, start, end) = Quoted(SubSeq(text, start + 1, end - 1))
<1>1. Len(text) \in Nat /\ start \in Nat /\ end \in Nat
  OBVIOUS
<1>2. PICK m \in 1..Len(text), final \in 0..Len(text) : m = start + 1 /\ final = end - 1
  <2>1. start + 1 \in 1..Len(text) /\ end - 1 \in 0..Len(text)
    BY <1>1
  <2> QED
    BY <2>1
<1> DEFINE key == SubSeq(text, m, final)
<1>3. key \in Seq(A)
  <2>1. m \in 1..(Len(text) + 1)
    BY <1>1
  <2> QED
    BY <2>1, PartOf DEF PartAt
<1>4. SubSeq(text, start, end) = <<OpenBrace>> \o SubSeq(text, start + 1, end)
  <2>1. end \in start..Len(text)
    BY <1>1
  <2> QED
    BY <2>1, SubSeqRecursiveFirst
<1>5. SubSeq(text, m, end) = SubSeq(text, m, end - 1) \o <<CloseBrace>>
  <2>1. end \in m..Len(text)
    BY <1>1, <1>2
  <2> QED
    BY <2>1, SubSeqRecursiveSecond
<1>6. SubSeq(text, start, end) = Pair(<<OpenBrace>>, Pair(key, <<CloseBrace>>))
  BY <1>2, <1>4, <1>5 DEF Pair
<1> HIDE DEF key
<1>7. <<OpenBrace>> \in Seq(A) /\ <<CloseBrace>> \in Seq(A)
  <2>1. text[start] \in A /\ text[end] \in A
    BY <1>1
  <2>2. OpenBrace \in A /\ CloseBrace \in A
    BY <2>1
  <2> QED
    BY <2>2
<1>8. Pair(Pair(<<OpenBrace>>, key), <<CloseBrace>>) = Pair(<<OpenBrace>>, Pair(key, <<CloseBrace>>))
  <2> DEFINE o == <<OpenBrace>>
             c == <<CloseBrace>>
  <2> HIDE DEF o, c
  <2>1. o \in Seq(A) /\ c \in Seq(A)
    BY <1>7 DEF o, c
  <2>2. Pair(Pair(o, key), c) = Pair(o, Pair(key, c))
    BY <1>3, <2>1, PairSplits
  <2> QED
    BY <2>2 DEF o, c
<1>9. Quoted(key) = Pair(Pair(<<OpenBrace>>, key), <<CloseBrace>>)
  BY DEF Quoted, Pair
<1> QED
  BY <1>2, <1>6, <1>8, <1>9 DEF key

\* A text read as the scanner reads it, from one place: its next placeholder,
\* the text before it, and the pieces of what follows.
LEMMA PiecesFrom ==
  ASSUME NEW A, OpenBrace \in A, CloseBrace \in A, NEW text \in Seq(A),
         NEW from \in 1..(Len(text) + 1),
         \A j \in (from + 1)..(Len(text) + 1) :
           \E q : PiecesOf(q, SubSeq(text, j, Len(text)), A)
  PROVE  \E q : PiecesOf(q, SubSeq(text, from, Len(text)), A)
<1> DEFINE n == Len(text)
           rest(k) == SubSeq(text, k, n)
<1>1. n \in Nat /\ from \in Nat /\ n \in 0..n
  OBVIOUS
<1>2. CASE from = n + 1
  <2>1. rest(from) = <<>>
    <3>1. ~(from <= n)
      BY <1>1, <1>2
    <3> QED
      BY <1>1, <3>1, PartOf DEF PartAt
  <2> QED
    BY <2>1, NoPieces
<1>3. ASSUME from <= n,
             \A j, k \in from..n : text[j] = OpenBrace /\ text[k] = CloseBrace => k < j
      PROVE  \E q : PiecesOf(q, rest(from), A)
  <2> DEFINE u == rest(from)
  <2>1. /\ u \in Seq(A) /\ u # <<>> /\ DOMAIN u = 1..Len(u) /\ Len(u) \in Nat
        /\ \A j \in 1..Len(u) : (from + j) - 1 \in from..n /\ u[j] = text[(from + j) - 1]
    <3>1. PartAt(u, text, from, n, A)
      BY <1>1, PartOf
    <3> HIDE DEF u
    <3> QED
      BY <1>3, <3>1 DEF PartAt
  <2> HIDE DEF u
  <2>2. ASSUME NEW j \in DOMAIN u, NEW k \in DOMAIN u, u[j] = OpenBrace, u[k] = CloseBrace
        PROVE  k < j
    <3>1. j \in 1..Len(u) /\ k \in 1..Len(u)
      BY <2>1
    <3>2. (from + k) - 1 < (from + j) - 1
      BY <1>3, <2>1, <2>2, <3>1
    <3> QED
      BY <1>1, <2>1, <3>1, <3>2
  <2>3. PiecesOf(<< <<"text", u>> >>, u, A)
    BY <2>1, <2>2, PieceAlone
  <2> QED
    BY <2>3 DEF u
<1>4. CASE from <= n /\ NoneFrom(text, OpenBrace, from)
  BY <1>3, <1>4 DEF NoneFrom
<1>5. ASSUME NEW start \in from..n, At(text, OpenBrace, from, start),
             NoneFrom(text, CloseBrace, start + 1)
      PROVE  \E q : PiecesOf(q, rest(from), A)
  <2>1. from <= n /\ start \in Nat
    BY <1>1
  <2>2. ASSUME NEW j \in from..n, NEW k \in from..n, text[j] = OpenBrace, text[k] = CloseBrace
        PROVE  k < j
    <3>1. ~(j \in from..(start - 1)) /\ ~(k \in (start + 1)..n)
      BY <1>5, <2>2 DEF At, NoneFrom
    <3>2. start <= j /\ k <= start
      BY <1>1, <2>1, <3>1
    <3>3. CASE k # start
      BY <1>1, <2>1, <3>2, <3>3
    <3>4. CASE j # start
      BY <1>1, <2>1, <3>2, <3>4
    <3>5. OpenBrace # CloseBrace
      BY Zenon DEF OpenBrace, CloseBrace
    <3> QED
      BY <2>2, <3>3, <3>4, <3>5
  <2> QED
    BY <1>3, <2>1, <2>2
<1>6. ASSUME NEW start \in from..n, At(text, OpenBrace, from, start),
             NEW end \in (start + 1)..n, At(text, CloseBrace, start + 1, end)
      PROVE  \E q : PiecesOf(q, rest(from), A)
  <2>1. /\ start \in 1..n /\ end + 1 \in (from + 1)..(n + 1) /\ start \in 1..(n + 1)
        /\ end \in (start - 1)..n /\ n \in end..n /\ end + 1 \in 1..(n + 1)
        /\ start + 1 \in 1..(n + 1) /\ end - 1 \in 0..n
    BY <1>1
  <2>2. PICK q : PiecesOf(q, rest(end + 1), A)
    BY <2>1
  <2> DEFINE key == SubSeq(text, start + 1, end - 1)
             param == <<"param", key>>
  <2>3. text[start] = OpenBrace /\ text[end] = CloseBrace
    BY <1>6 DEF At
  <2>4. SubSeq(text, start, end) = Quoted(key)
    BY <2>1, <2>3, QuotedPart
  <2>5. /\ key \in Seq(A) /\ DOMAIN key = 1..Len(key)
        /\ \A j \in 1..Len(key) :
             (start + 1 + j) - 1 \in (start + 1)..(end - 1) /\ key[j] = text[(start + 1 + j) - 1]
    <3>1. PartAt(key, text, start + 1, end - 1, A)
      BY <2>1, PartOf
    <3> HIDE DEF key
    <3> QED
      BY <3>1 DEF PartAt
  <2> HIDE DEF key
  <2>6. ~Has(key, CloseBrace)
    BY <1>6, <2>5 DEF Has, At
  <2>7. Leads(param, A) /\ Spelled(param) = Quoted(key)
    BY <2>5, <2>6 DEF Leads, Spelled
  <2> HIDE DEF param
  <2>8. rest(end + 1) \in Seq(A) /\ rest(start) \in Seq(A)
    BY <1>1, <2>1, PartOf DEF PartAt
  <2>9. Pair(SubSeq(text, start, end), rest(end + 1)) = rest(start)
    BY <2>1, ConcatAdjacentSubSeq DEF Pair
  <2>10. PiecesOf(<<param>> \o q, rest(start), A)
    <3> HIDE DEF rest
    <3>1. PiecesOf(<<param>> \o q, Pair(Spelled(param), rest(end + 1)), A)
      BY <2>2, <2>7, <2>8, PiecesCons
    <3> QED
      BY <2>4, <2>7, <2>9, <3>1
  <2>11. CASE start = from
    BY <2>10, <2>11
  <2>12. CASE start # from
    <3> DEFINE u == SubSeq(text, from, start - 1)
               before == <<"text", u>>
    <3>1. /\ start - 1 \in 0..n /\ from <= start - 1 /\ start - 1 \in (from - 1)..n
          /\ n \in (start - 1)..n /\ (start - 1) + 1 = start
      BY <1>1, <2>1, <2>12
    <3>2. /\ u \in Seq(A) /\ u # <<>> /\ DOMAIN u = 1..Len(u)
          /\ \A j \in 1..Len(u) :
               (from + j) - 1 \in from..(start - 1) /\ u[j] = text[(from + j) - 1]
      <4>1. PartAt(u, text, from, start - 1, A)
        BY <3>1, PartOf
      <4> HIDE DEF u
      <4> QED
        BY <3>1, <4>1 DEF PartAt
    <3>3. Pair(u, rest((start - 1) + 1)) = rest(from)
      BY <3>1, ConcatAdjacentSubSeq DEF Pair
    <3>4. Pair(u, rest(start)) = rest(from)
      BY <3>1, <3>3
    <3> HIDE DEF u, rest
    <3>5. ~Has(u, OpenBrace)
      BY <1>6, <3>2 DEF Has, At
    <3>6. Leads(before, A) /\ Spelled(before) = u
      BY <3>2, <3>5 DEF Leads, Spelled
    <3> HIDE DEF before
    <3>7. PiecesOf(<<before>> \o (<<param>> \o q), Pair(Spelled(before), rest(start)), A)
      BY <2>8, <2>10, <3>6, PiecesCons
    <3> QED
      BY <3>4, <3>6, <3>7
  <2> QED
    BY <2>11, <2>12
<1>7. from = n + 1 \/ from <= n
  BY <1>1
<1> QED
  BY <1>2, <1>4, <1>5, <1>6, <1>7, ScanCases

\* Every text has pieces: what TemplatesAssumption asks of a template can be
\* had for each.
THEOREM PiecesExist ==
  ASSUME NEW A, NEW text \in Seq(A)
  PROVE  \E pieces : PiecesOk(pieces) /\ Spell(pieces) = text
<1> DEFINE n == Len(text)
           B == A \cup {OpenBrace, CloseBrace}
           P(k) == \E q : PiecesOf(q, SubSeq(text, k, n), B)
           Bad == {m \in 0..n : ~P((n + 1) - m)}
<1>1. n \in Nat /\ OpenBrace \in B /\ CloseBrace \in B /\ text \in Seq(B)
  OBVIOUS
<1> HIDE DEF B
<1>2. ASSUME NEW k \in 1..(n + 1), \A j \in (k + 1)..(n + 1) : P(j) PROVE P(k)
  BY <1>1, <1>2, PiecesFrom
<1> HIDE DEF P
<1>3. Bad = {}
  <2>1. SUFFICES ASSUME Bad # {} PROVE FALSE
    OBVIOUS
  <2>2. PICK m \in Bad : \A x \in Bad : m <= x
    <3>1. Bad \in SUBSET Nat
      BY <1>1
    <3> HIDE DEF Bad
    <3> QED
      BY <2>1, <3>1, LeastExists
  <2>3. m \in 0..n /\ ~P((n + 1) - m)
    OBVIOUS
  <2>4. PICK k \in 1..(n + 1) : k = (n + 1) - m
    BY <1>1, <2>3
  <2>5. ASSUME NEW j \in (k + 1)..(n + 1) PROVE P(j)
    <3>1. PICK x \in 0..n : j = (n + 1) - x /\ ~(m <= x)
      <4>1. (n + 1) - j \in 0..n /\ j = (n + 1) - ((n + 1) - j) /\ ~(m <= (n + 1) - j)
        BY <1>1, <2>3, <2>4
      <4> QED
        BY <4>1
    <3>2. x \notin Bad
      <4> HIDE DEF Bad
      <4> QED
        BY <2>2, <3>1
    <3> QED
      BY <3>1, <3>2
  <2> QED
    BY <1>2, <2>3, <2>4, <2>5
<1>4. P(1)
  <2>1. n \in 0..n /\ (n + 1) - n = 1
    BY <1>1
  <2> QED
    BY <1>3, <2>1
<1>5. SubSeq(text, 1, n) = text
  BY SubSeqFull
<1> QED
  BY <1>4, <1>5 DEF P, PiecesOf
=============================================================================
