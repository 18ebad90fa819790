----------------------------- MODULE MqttEngine -----------------------------
(***************************************************************************)
(* The three tasks of one MqttEngine and the channels between them:        *)
(*                                                                         *)
(*   broker -> mqtt worker -> ingress queue -> router worker -> telemetry  *)
(*   command queue -> command worker -> request channel -> mqtt worker     *)
(*                                                                         *)
(* The mqtt worker owns the event loop of rumqttc and is the only task     *)
(* that takes requests out of its bounded channel; after a ConnAck the     *)
(* same task puts the subscriptions into that channel.                     *)
(*                                                                         *)
(* The event loop itself is external code, modelled from how it is used:   *)
(* poll() connects when there is no network and returns the ConnAck, else  *)
(* sends a request or returns a packet; an error moves the requests of the *)
(* channel to its pending list, which is sent first after the next connect *)
(* and is cleared when the broker has kept no session.  Acknowledgements   *)
(* and retransmission of packets in flight are left out.                   *)
(***************************************************************************)
EXTENDS Naturals, Sequences, FiniteSets

CONSTANTS
  NFilters,          \* config.subscriptions.len()
  Messages,          \* packets the broker may publish to this client
  Invalid,           \* those that MqttMessage::from_publish refuses
  Commands,          \* commands other tasks hand to the bus
  Capacity,          \* config.request_channel_capacity
  IngressCapacity,   \* BusConfig.ingress_capacity
  CommandCapacity,   \* BusConfig.command_capacity
  MinDelay,          \* config.reconnect.min_delay
  MaxDelay,          \* config.reconnect.max_delay
  MaxFailures,       \* bound: errors of the event loop in a row
  MaxConnects,       \* bound: connections made
  None

ASSUME EngineAssumption ==
  /\ NFilters \in Nat
  /\ Invalid \subseteq Messages
  /\ None \notin Messages \cup Commands
  \* MqttClientConfig::validate(); tokio's channels refuse a capacity of zero.
  /\ Capacity \in Nat \ {0}
  /\ IngressCapacity \in Nat \ {0} /\ CommandCapacity \in Nat \ {0}
  \* MqttReconnectConfig::validate()
  /\ MinDelay \in Nat \ {0} /\ MaxDelay \in Nat /\ MinDelay <= MaxDelay
  /\ MaxFailures \in Nat /\ MaxConnects \in Nat

VARIABLES
  network,      \* the event loop has a connection
  connects,     \* number of connections made
  requests,     \* the request channel of the client
  pending,      \* requests the event loop kept over an error
  mqtt,         \* where run_mqtt_worker stands
  nextSub,      \* the subscription it is about to request
  packet,       \* the publish packet it is about to hand on
  delay,        \* ExponentialBackoff.current_delay
  failures,     \* history: errors since the last event
  slept,        \* the delay the last error asked for
  subscribed,   \* filters the broker has for this client's session
  executed,     \* commands the broker has
  arrived,      \* history: valid messages in the order they were received
  lost,         \* history: those that were dropped with a log line
  ingress,      \* ingress queue of the bus
  ingressOpen,  \* its receiver is alive
  router,       \* where run_router_worker stands
  routed,       \* history: messages given to MqttRouter::dispatch
  telemetry,    \* history: messages given to publish_telemetry
  commands,     \* command queue of the bus
  offered,      \* commands that some task has tried to enqueue
  outcome,      \* what the command worker reported of each command
  cmd,          \* where run_command_worker stands: "select", "stopped" or a command
  stopping,     \* shutdown_tx holds true
  joined        \* shutdown() has returned

busVars == <<ingress, ingressOpen, router, routed, telemetry>>
commandVars == <<commands, offered, outcome, cmd>>
loopVars == <<network, connects, pending, subscribed, executed>>
backoffVars == <<delay, failures, slept>>
historyVars == <<arrived, lost>>
vars == <<network, connects, requests, pending, mqtt, nextSub, packet, delay,
          failures, slept, subscribed, executed, arrived, lost, ingress,
          ingressOpen, router, routed, telemetry, commands, offered, outcome,
          cmd, stopping, joined>>

Filters == 1..NFilters
Subscribe(f) == [kind |-> "subscribe", filter |-> f]
Publish(c) == [kind |-> "publish", command |-> c]
Items(s) == {s[i] : i \in DOMAIN s}
Smaller(a, b) == IF a <= b THEN a ELSE b

-----------------------------------------------------------------------------
\* spawn_with_bus_and_outcomes(): empty channels, three tasks.
Init ==
  /\ network = FALSE /\ connects = 0
  /\ requests = <<>> /\ pending = <<>>
  /\ mqtt = "select" /\ nextSub = 1 /\ packet = None
  /\ delay = MinDelay /\ failures = 0 /\ slept = 0
  /\ subscribed = {} /\ executed = {}
  /\ arrived = <<>> /\ lost = {}
  /\ ingress = <<>> /\ ingressOpen = TRUE
  /\ router = "select" /\ routed = <<>> /\ telemetry = <<>>
  /\ commands = <<>> /\ offered = {} /\ cmd = "select"
  /\ outcome = [c \in Commands |-> None]
  /\ stopping = FALSE /\ joined = FALSE

\* Mutant: an event leaves the delay as it is.
ResetForgotten == failures' = 0 /\ UNCHANGED <<delay, slept>>

\* ExponentialBackoff::reset, on every event that is not an error.
Reset == delay' = MinDelay /\ failures' = 0 /\ UNCHANGED slept

\* ExponentialBackoff::next_delay: the current delay is the answer, the next
\* one is twice as long.
NextDelay ==
  /\ slept' = delay
  /\ delay' = Smaller(2 * delay, MaxDelay)
  /\ failures' = failures + 1

\* The select of run_mqtt_worker is biased: once the shutdown is signalled no
\* further event is taken.
Polling == mqtt = "select" /\ ~stopping

\* Mutant: the subscriptions are requested on the first connection only.
AfterConnAckOnce ==
  mqtt' = IF NFilters = 0 \/ connects > 0 THEN "select" ELSE "subscribe"

\* handle_mqtt_event(), ConnAck: the loop over config.subscriptions begins.
AfterConnAck == mqtt' = IF NFilters = 0 THEN "select" ELSE "subscribe"

\* poll() connects; the broker says whether it has kept the session.  The
\* worker goes on to the subscriptions.
Connect(present) ==
  /\ Polling /\ ~network
  /\ connects < MaxConnects
  /\ network' = TRUE /\ connects' = connects + 1
  /\ present => connects > 0
  /\ pending' = IF present THEN pending ELSE <<>>
  /\ subscribed' = IF present THEN subscribed ELSE {}
  /\ Reset
  /\ AfterConnAck
  /\ nextSub' = 1
  /\ UNCHANGED <<requests, packet, executed, stopping, joined>>
  /\ UNCHANGED <<historyVars, busVars, commandVars>>

\* poll() cannot connect: the channel and the pending list stay as they are.
ConnectFails ==
  /\ Polling /\ ~network
  /\ failures < MaxFailures
  /\ NextDelay
  /\ mqtt' = "sleep"
  /\ UNCHANGED <<loopVars, requests, nextSub, packet, stopping, joined>>
  /\ UNCHANGED <<historyVars, busVars, commandVars>>

\* poll() finds the connection broken: the requests of the channel move to the
\* pending list.
LinkLost ==
  /\ Polling /\ network
  /\ network' = FALSE
  /\ pending' = pending \o requests /\ requests' = <<>>
  /\ NextDelay
  /\ mqtt' = "sleep"
  /\ UNCHANGED <<connects, subscribed, executed, nextSub, packet>>
  /\ UNCHANGED <<stopping, joined, historyVars, busVars, commandVars>>

\* poll() sends a request, the pending ones first.
Transmit ==
  /\ Polling /\ network
  /\ \/ /\ pending # <<>>
        /\ pending' = Tail(pending) /\ UNCHANGED requests
     \/ /\ pending = <<>> /\ requests # <<>>
        /\ requests' = Tail(requests) /\ UNCHANGED pending
  /\ LET r == Head(pending \o requests) IN
       IF r.kind = "subscribe"
       THEN subscribed' = subscribed \cup {r.filter} /\ UNCHANGED executed
       ELSE executed' = executed \cup {r.command} /\ UNCHANGED subscribed
  /\ Reset
  /\ UNCHANGED <<network, connects, mqtt, nextSub, packet, stopping, joined>>
  /\ UNCHANGED <<historyVars, busVars, commandVars>>

\* poll() returns a message of a filter the broker knows.
Incoming(m) ==
  /\ Polling /\ network
  /\ subscribed # {}
  /\ m \notin Items(arrived)
  /\ Reset
  /\ IF m \in Invalid
     THEN UNCHANGED <<mqtt, packet, arrived>>
     ELSE /\ mqtt' = "publish" /\ packet' = m
          /\ arrived' = Append(arrived, m)
  /\ UNCHANGED <<loopVars, requests, nextSub, lost, stopping, joined>>
  /\ UNCHANGED <<busVars, commandVars>>

\* Mutant: a full queue gives up its oldest message, and counts the new one.
TryEnqueueIngressFront ==
  IF ~ingressOpen
  THEN lost' = lost \cup {packet} /\ UNCHANGED ingress
  ELSE IF Len(ingress) < IngressCapacity
       THEN ingress' = Append(ingress, packet) /\ UNCHANGED lost
       ELSE ingress' = Append(Tail(ingress), packet) /\ lost' = lost \cup {packet}

\* try_enqueue_ingress(): a full queue, or a router worker that is gone, costs
\* the message.
TryEnqueueIngress ==
  IF ingressOpen /\ Len(ingress) < IngressCapacity
  THEN ingress' = Append(ingress, packet) /\ UNCHANGED lost
  ELSE lost' = lost \cup {packet} /\ UNCHANGED ingress

EnqueueIngress ==
  /\ mqtt = "publish"
  /\ mqtt' = "select" /\ packet' = None
  /\ TryEnqueueIngress
  /\ UNCHANGED <<loopVars, requests, nextSub, backoffVars, arrived, stopping>>
  /\ UNCHANGED <<joined, ingressOpen, router, routed, telemetry, commandVars>>

\* The client's sends wait for this.
Room == Len(requests) < Capacity

\* client.subscribe().await: waits for room in the request channel.
SubscribeNext ==
  /\ mqtt = "subscribe"
  /\ Room
  /\ requests' = Append(requests, Subscribe(nextSub))
  /\ nextSub' = nextSub + 1
  /\ mqtt' = IF nextSub = NFilters THEN "select" ELSE "subscribe"
  /\ UNCHANGED <<loopVars, packet, backoffVars, stopping, joined>>
  /\ UNCHANGED <<historyVars, busVars, commandVars>>

\* wait_or_shutdown(): the sleep ends, or the signal ends it and the worker.
SleepEnds ==
  /\ mqtt = "sleep"
  /\ \/ mqtt' = "select"
     \/ stopping /\ mqtt' = "stopped"
  /\ UNCHANGED <<loopVars, requests, nextSub, packet, backoffVars, stopping>>
  /\ UNCHANGED <<joined, historyVars, busVars, commandVars>>

\* The worker sees the signal and drops the event loop with its channel.
WorkerStops ==
  /\ mqtt = "select" /\ stopping
  /\ mqtt' = "stopped"
  /\ UNCHANGED <<loopVars, requests, nextSub, packet, backoffVars, stopping>>
  /\ UNCHANGED <<joined, historyVars, busVars, commandVars>>

-----------------------------------------------------------------------------
\* run_router_worker: the handlers of the route run before the telemetry
\* fan-out.  Both end in a log line at worst.
RouterDispatch ==
  /\ router = "select" /\ ~stopping
  /\ ingress # <<>>
  /\ ingress' = Tail(ingress)
  /\ routed' = Append(routed, Head(ingress))
  /\ router' = "dispatch"
  /\ UNCHANGED <<loopVars, requests, mqtt, nextSub, packet, backoffVars>>
  /\ UNCHANGED <<historyVars, ingressOpen, telemetry, commandVars, stopping, joined>>

RouterTelemetry ==
  /\ router = "dispatch"
  /\ telemetry' = Append(telemetry, routed[Len(routed)])
  /\ router' = "select"
  /\ UNCHANGED <<loopVars, requests, mqtt, nextSub, packet, backoffVars>>
  /\ UNCHANGED <<historyVars, ingress, ingressOpen, routed, commandVars>>
  /\ UNCHANGED <<stopping, joined>>

\* Mutant: the router leaves only when its queue is empty.
RouterStopsDrained ==
  /\ router = "select" /\ stopping
  /\ ingress = <<>>
  /\ router' = "stopped"
  /\ ingressOpen' = FALSE
  /\ UNCHANGED <<loopVars, requests, mqtt, nextSub, packet, backoffVars, lost>>
  /\ UNCHANGED <<arrived, ingress, routed, telemetry, commandVars, stopping, joined>>

\* The receiver is dropped with what is in the queue.
RouterStops ==
  /\ router = "select" /\ stopping
  /\ router' = "stopped"
  /\ ingressOpen' = FALSE
  /\ ingress' = <<>>
  /\ lost' = lost \cup Items(ingress)
  /\ UNCHANGED <<loopVars, requests, mqtt, nextSub, packet, backoffVars>>
  /\ UNCHANGED <<arrived, routed, telemetry, commandVars, stopping, joined>>

-----------------------------------------------------------------------------
\* try_enqueue_command(), from the dispatcher of commands.
EnqueueCommand(c) ==
  /\ c \notin offered
  /\ offered' = offered \cup {c}
  /\ commands' = IF cmd # "stopped" /\ Len(commands) < CommandCapacity
                 THEN Append(commands, c) ELSE commands
  /\ UNCHANGED <<loopVars, requests, mqtt, nextSub, packet, backoffVars>>
  /\ UNCHANGED <<historyVars, busVars, outcome, cmd, stopping, joined>>

CommandReceive ==
  /\ cmd = "select" /\ ~stopping
  /\ commands # <<>>
  /\ cmd' = Head(commands)
  /\ commands' = Tail(commands)
  /\ UNCHANGED <<loopVars, requests, mqtt, nextSub, packet, backoffVars>>
  /\ UNCHANGED <<historyVars, busVars, offered, outcome, stopping, joined>>

\* publish_command(): client.publish().await waits for room, and fails once
\* the event loop is gone.
PublishCommand ==
  /\ cmd \in Commands
  /\ \/ /\ mqtt # "stopped" /\ Room
        /\ requests' = Append(requests, Publish(cmd))
        /\ outcome' = [outcome EXCEPT ![cmd] = "Published"]
     \/ /\ mqtt = "stopped"
        /\ outcome' = [outcome EXCEPT ![cmd] = "Failed"]
        /\ UNCHANGED requests
  /\ cmd' = "select"
  /\ UNCHANGED <<loopVars, mqtt, nextSub, packet, backoffVars, historyVars>>
  /\ UNCHANGED <<busVars, commands, offered, stopping, joined>>

CommandStops ==
  /\ cmd = "select" /\ stopping
  /\ cmd' = "stopped"
  /\ commands' = <<>>
  /\ UNCHANGED <<loopVars, requests, mqtt, nextSub, packet, backoffVars>>
  /\ UNCHANGED <<historyVars, busVars, offered, outcome, stopping, joined>>

\* shutdown(): the signal, and then the join of all three, with no timeout.
ShutdownBegins ==
  /\ ~stopping
  /\ stopping' = TRUE
  /\ UNCHANGED <<loopVars, requests, mqtt, nextSub, packet, backoffVars>>
  /\ UNCHANGED <<historyVars, busVars, commandVars, joined>>

Join ==
  /\ stopping /\ ~joined
  /\ mqtt = "stopped" /\ router = "stopped" /\ cmd = "stopped"
  /\ joined' = TRUE
  /\ UNCHANGED <<loopVars, requests, mqtt, nextSub, packet, backoffVars>>
  /\ UNCHANGED <<historyVars, busVars, commandVars, stopping>>

-----------------------------------------------------------------------------
MqttWorker ==
  \/ \E present \in BOOLEAN : Connect(present)
  \/ ConnectFails
  \/ LinkLost
  \/ Transmit
  \/ \E m \in Messages : Incoming(m)
  \/ EnqueueIngress
  \/ SubscribeNext
  \/ SleepEnds
  \/ WorkerStops

RouterWorker == RouterDispatch \/ RouterTelemetry \/ RouterStops
CommandWorker == CommandReceive \/ PublishCommand \/ CommandStops

Next ==
  \/ MqttWorker
  \/ RouterWorker
  \/ CommandWorker
  \/ \E c \in Commands : EnqueueCommand(c)
  \/ ShutdownBegins
  \/ Join

Spec == Init /\ [][Next]_vars

\* The runtime schedules every task that can run.  The broker takes a request
\* that waits on a live connection; it need not accept a connection or keep
\* one.
FairSpec ==
  /\ Spec
  /\ WF_vars(EnqueueIngress \/ SubscribeNext \/ SleepEnds \/ WorkerStops \/ Transmit)
  /\ WF_vars(RouterWorker) /\ WF_vars(CommandWorker) /\ WF_vars(Join)

-----------------------------------------------------------------------------
TypeOK ==
  /\ network \in BOOLEAN /\ connects \in 0..MaxConnects
  /\ \A r \in Items(requests) \cup Items(pending) :
       \/ r.kind = "subscribe" /\ r.filter \in Filters
       \/ r.kind = "publish" /\ r.command \in Commands
  /\ Len(requests) <= Capacity
  /\ mqtt \in {"select", "subscribe", "publish", "sleep", "stopped"}
  /\ nextSub \in 1..(NFilters + 1)
  /\ (mqtt = "publish") = (packet # None) /\ packet \in Messages \cup {None}
  /\ delay \in MinDelay..MaxDelay /\ slept \in 0..MaxDelay /\ failures \in Nat
  /\ subscribed \subseteq Filters /\ executed \subseteq Commands
  /\ Len(ingress) <= IngressCapacity /\ Items(ingress) \subseteq Messages
  /\ Len(commands) <= CommandCapacity /\ Items(commands) \subseteq offered
  /\ offered \subseteq Commands /\ cmd \in Commands \cup {"select", "stopped"}
  /\ outcome \in [Commands -> {None, "Published", "Failed"}]
  /\ router \in {"select", "dispatch", "stopped"}
  /\ ingressOpen \in BOOLEAN /\ stopping \in BOOLEAN /\ joined \in BOOLEAN

\* What the router's handlers have got, what is in the queue and what is on
\* its way into it.
Kept == routed \o ingress \o (IF packet = None THEN <<>> ELSE <<packet>>)

\* m was received before n.
ArrivedBefore(m, n) ==
  \E i, j \in DOMAIN arrived : i < j /\ arrived[i] = m /\ arrived[j] = n

\* Every message that was received is, in the order of reception, with the
\* router's handlers, in the queue, or on its way into it, unless it was
\* dropped; telemetry repeats what the handlers got, at most one behind.  So
\* drops at a full or closed queue (bus.rs:164) never reorder or repeat what
\* is left (a message is received once, so that none comes before itself).
IngressAccounted ==
  /\ Items(Kept) = Items(arrived) \ lost
  /\ \A i, j \in DOMAIN Kept : i < j => ArrivedBefore(Kept[i], Kept[j])
  /\ routed = telemetry \o (IF router = "dispatch"
                            THEN <<routed[Len(routed)]>> ELSE <<>>)

\* While the worker is connected and past the subscriptions, each filter is
\* known to the broker or on its way there, whatever connections were lost
\* between the requests and whatever the broker forgot.
NoFilterForgotten ==
  (network /\ mqtt \in {"select", "publish"}) =>
    \A f \in Filters :
      f \in subscribed \/ Subscribe(f) \in Items(pending \o requests)

\* The shortest delay doubled k times.
Doubled[k \in Nat] == IF k = 0 THEN MinDelay ELSE 2 * Doubled[k - 1]

\* The delay of the k-th error in a row is the shortest one doubled k - 1
\* times, cut at the longest: nothing but an event of a live connection starts
\* it over (ExponentialBackoff).
BackoffDoubles ==
  /\ delay = Smaller(Doubled[failures], MaxDelay)
  /\ failures > 0 => slept = Smaller(Doubled[failures - 1], MaxDelay)

\* A worker that waits in subscribe() for room which only it can make.
Stuck == mqtt = "subscribe" /\ Len(requests) = Capacity

\* shutdown() returns, except when the mqtt worker waits for itself: nothing
\* else in the three tasks can hold it up, a command that waits for room in
\* the request channel included.
ShutdownCompletes == stopping ~> (joined \/ Stuck)

\* "Subscription registered by the engine after each successful connection"
\* (config.rs:15): a connection that lasts gets all the filters.
SubscriptionsRegistered ==
  network ~> (subscribed = Filters \/ ~network \/ stopping)

=============================================================================
