-------------------------- MODULE MqttEngineProofs --------------------------
(***************************************************************************)
(* Proofs about the MQTT engine, for every number of filters, every set of *)
(* messages and commands and every capacity of the channels.               *)
(*                                                                         *)
(* SubInv follows the subscriptions through a connection: while they are   *)
(* being requested, those before nextSub are known to the broker or on     *)
(* their way; a request is never lost while the connection lasts.          *)
(* IngressInv lines up the places a message goes through in the order of   *)
(* reception.                                                              *)
(***************************************************************************)
EXTENDS MqttEngine, WellFoundedInduction, TLAPS

Request == {Subscribe(f) : f \in Filters} \cup {Publish(c) : c \in Commands}

SeqOK ==
  /\ requests \in Seq(Request) /\ pending \in Seq(Request)
  /\ commands \in Seq(Commands)
  /\ arrived \in Seq(Messages) /\ ingress \in Seq(Messages)
  /\ routed \in Seq(Messages) /\ telemetry \in Seq(Messages)

\* The broker knows the filter or is going to be told.
OnTheWay(f) ==
  f \in subscribed \/ Subscribe(f) \in Items(pending) \cup Items(requests)

SubInv ==
  /\ mqtt = "sleep" => ~network
  /\ mqtt = "subscribe" => nextSub \in Filters
  /\ network /\ mqtt = "subscribe" => \A f \in Filters : f < nextSub => OnTheWay(f)
  /\ network /\ mqtt \in {"select", "publish"} => \A f \in Filters : OnTheWay(f)

NoDup(s) == \A i, j \in DOMAIN s : s[i] = s[j] => i = j
Precede(A, B) == \A a \in A, b \in B : ArrivedBefore(a, b)
InOrder(s) == \A i, j \in DOMAIN s : i < j => ArrivedBefore(s[i], s[j])
InHand == {packet} \ {None}

IngressInv ==
  /\ NoDup(arrived) /\ lost \subseteq Items(arrived)
  /\ Items(routed) \cup Items(ingress) \cup InHand = Items(arrived) \ lost
  /\ InOrder(routed) /\ InOrder(ingress)
  /\ Precede(Items(routed), Items(ingress) \cup InHand)
  /\ Precede(Items(ingress), InHand)

\* The telemetry is at most one message behind the handlers.
TelemetryInv ==
  routed = telemetry \o (IF router = "dispatch" THEN <<routed[Len(routed)]>> ELSE <<>>)

IInv == TypeOK /\ SeqOK /\ SubInv /\ IngressInv /\ TelemetryInv

-----------------------------------------------------------------------------
(* The operations of the channels.                                         *)

\* What Append does to the items of a sequence.
LEMMA AppendItems ==
  ASSUME NEW S, NEW s \in Seq(S), NEW e \in S
  PROVE  /\ Append(s, e) \in Seq(S) /\ Items(Append(s, e)) = Items(s) \cup {e}
         /\ Len(Append(s, e)) = Len(s) + 1
<1>1. /\ Append(s, e) \in Seq(S) /\ Len(s) \in Nat /\ DOMAIN s = 1..Len(s)
      /\ DOMAIN Append(s, e) = 1..Len(s) + 1 /\ Len(Append(s, e)) = Len(s) + 1
      /\ \A i \in 1..Len(s) : Append(s, e)[i] = s[i]
      /\ Append(s, e)[Len(s) + 1] = e
  OBVIOUS
<1>2. Items(Append(s, e)) \subseteq Items(s) \cup {e}
  BY <1>1 DEF Items
<1>3. Items(s) \subseteq Items(Append(s, e)) /\ e \in Items(Append(s, e))
  BY <1>1 DEF Items
<1> QED
  BY <1>1, <1>2, <1>3

\* What Tail does to the items of a sequence.
LEMMA TailItems ==
  ASSUME NEW S, NEW s \in Seq(S), s # <<>>
  PROVE  /\ Head(s) \in S /\ Tail(s) \in Seq(S) /\ Len(Tail(s)) = Len(s) - 1
         /\ Items(s) = {Head(s)} \cup Items(Tail(s))
<1>1. /\ Len(s) \in Nat /\ Len(s) > 0 /\ Head(s) = s[1] /\ DOMAIN s = 1..Len(s)
      /\ DOMAIN Tail(s) = 1..Len(s) - 1 /\ Len(Tail(s)) = Len(s) - 1
      /\ Tail(s) \in Seq(S)
  OBVIOUS
<1>2. \A i \in 1..Len(s) : i = 1 \/ (i - 1 \in 1..Len(s) - 1
                                       /\ Tail(s)[i - 1] = s[i])
  BY <1>1
<1>3. \A i \in 1..Len(s) - 1 : i + 1 \in 1..Len(s) /\ Tail(s)[i] = s[i + 1]
  BY <1>1
<1>4. Items(s) \subseteq {Head(s)} \cup Items(Tail(s))
  <2>1. SUFFICES ASSUME NEW i \in 1..Len(s)
                 PROVE  s[i] \in {Head(s)} \cup Items(Tail(s))
    BY <1>1 DEF Items
  <2>2. CASE i = 1
    BY <1>1, <2>2
  <2>3. CASE i # 1
    BY <1>1, <1>2, <2>3 DEF Items
  <2> QED
    BY <2>2, <2>3
<1>5. {Head(s)} \cup Items(Tail(s)) \subseteq Items(s)
  BY <1>1, <1>3 DEF Items
<1> QED
  BY <1>1, <1>4, <1>5

\* What two channels hold together.
LEMMA ConcatItems ==
  ASSUME NEW S, NEW s \in Seq(S), NEW t \in Seq(S)
  PROVE  /\ s \o t \in Seq(S) /\ Len(s \o t) = Len(s) + Len(t)
         /\ Items(s \o t) = Items(s) \cup Items(t)
<1>1. /\ Len(s) \in Nat /\ Len(t) \in Nat /\ DOMAIN s = 1..Len(s) /\ DOMAIN t = 1..Len(t)
      /\ s \o t \in Seq(S) /\ Len(s \o t) = Len(s) + Len(t)
      /\ DOMAIN (s \o t) = 1..Len(s) + Len(t)
  OBVIOUS
<1>2. /\ \A i \in 1..Len(s) : (s \o t)[i] = s[i] /\ i \in 1..Len(s) + Len(t)
      /\ \A i \in 1..Len(t) : (s \o t)[Len(s) + i] = t[i]
                                /\ Len(s) + i \in 1..Len(s) + Len(t)
      /\ \A i \in 1..Len(s) + Len(t) :
           i \in 1..Len(s) \/ (i - Len(s) \in 1..Len(t) /\ (s \o t)[i] = t[i - Len(s)])
  BY <1>1
<1>3. Items(s) \subseteq Items(s \o t)
  BY <1>1, <1>2 DEF Items
<1>4. ASSUME NEW x \in Items(t)
      PROVE  x \in Items(s \o t)
  <2>1. PICK i \in 1..Len(t) : x = t[i]
    BY <1>1 DEF Items
  <2>2. Len(s) + i \in DOMAIN (s \o t) /\ x = (s \o t)[Len(s) + i]
    BY <1>1, <1>2, <2>1
  <2> QED
    BY <2>2 DEF Items
<1>5. ASSUME NEW x \in Items(s \o t)
      PROVE  x \in Items(s) \cup Items(t)
  <2>1. PICK i \in 1..Len(s) + Len(t) : x = (s \o t)[i]
    BY <1>1 DEF Items
  <2>2. CASE i \in 1..Len(s)
    BY <1>1, <1>2, <2>1, <2>2 DEF Items
  <2>3. CASE i - Len(s) \in 1..Len(t) /\ (s \o t)[i] = t[i - Len(s)]
    BY <1>1, <2>1, <2>3 DEF Items
  <2> QED
    BY <1>2, <2>2, <2>3
<1> QED
  BY <1>1, <1>3, <1>4, <1>5

\* The empty channel has no items.
LEMMA NoItems == Items(<<>>) = {} /\ NoDup(<<>>) /\ InOrder(<<>>)
BY DEF Items, NoDup, InOrder

\* A sequence is typed by its items.
LEMMA ItemsType ==
  ASSUME NEW S, NEW s \in Seq(S)
  PROVE  Items(s) \subseteq S /\ Len(s) \in Nat
BY DEF Items

\* A request says what it is.
LEMMA RequestKind ==
  ASSUME NEW r \in Request
  PROVE  \/ r.kind = "subscribe" /\ r.filter \in Filters /\ r = Subscribe(r.filter)
         \/ r.kind = "publish" /\ r.command \in Commands /\ r = Publish(r.command)
BY DEF Request, Subscribe, Publish

\* Requests of different kinds differ.
LEMMA SubscribeIsNotPublish ==
  /\ \A f, c : Subscribe(f) # Publish(c)
  /\ \A f, g : Subscribe(f) = Subscribe(g) => f = g
BY DEF Subscribe, Publish

-----------------------------------------------------------------------------
(* Types.                                                                  *)

\* The engine starts with the invariant.
LEMMA InitIInv == Init => IInv
<1> SUFFICES ASSUME Init PROVE IInv
  OBVIOUS
<1> USE EngineAssumption, NoItems DEF Init
<1>1. SeqOK
  BY DEF SeqOK
<1>2. TypeOK
  <2>1. Len(requests) <= Capacity /\ Len(ingress) <= IngressCapacity
        /\ Len(commands) <= CommandCapacity
    OBVIOUS
  <2>2. delay \in MinDelay..MaxDelay /\ slept \in 0..MaxDelay /\ nextSub \in 1..(NFilters + 1)
        /\ connects \in 0..MaxConnects
    OBVIOUS
  <2> QED
    BY <2>1, <2>2 DEF TypeOK
<1>3. SubInv
  BY DEF SubInv
<1>4. IngressInv
  BY DEF IngressInv, InHand, Precede
<1>5. TelemetryInv
  BY DEF TelemetryInv
<1> QED
  BY <1>1, <1>2, <1>3, <1>4, <1>5 DEF IInv

\* The delay stays between its bounds.
LEMMA DelayType ==
  ASSUME TypeOK, Reset \/ NextDelay
  PROVE  /\ delay' \in MinDelay..MaxDelay /\ slept' \in 0..MaxDelay
         /\ failures' \in Nat
BY EngineAssumption, SMTT(30) DEF TypeOK, Reset, NextDelay, Smaller

\* The requests are requests.
LEMMA RequestsTyped ==
  ASSUME requests \in Seq(Request), pending \in Seq(Request)
  PROVE  \A r \in Items(requests) \cup Items(pending) :
           \/ r.kind = "subscribe" /\ r.filter \in Filters
           \/ r.kind = "publish" /\ r.command \in Commands
<1>1. Items(requests) \cup Items(pending) \subseteq Request
  BY ItemsType
<1> QED
  BY <1>1, RequestKind

\* Every step leaves the channels sequences of what they carry.
LEMMA NextSeqOK ==
  ASSUME TypeOK, SeqOK, SubInv, TelemetryInv, Next
  PROVE  SeqOK'
<1> USE EngineAssumption
<1>1. CASE \E present \in BOOLEAN : Connect(present)
  BY <1>1 DEF Connect, SeqOK, historyVars, busVars, commandVars
<1>2. CASE ConnectFails \/ SleepEnds \/ WorkerStops \/ ShutdownBegins \/ Join
  BY <1>2 DEF ConnectFails, SleepEnds, WorkerStops, ShutdownBegins, Join, SeqOK,
              loopVars, historyVars, busVars, commandVars
<1>3. CASE LinkLost
  BY <1>3, ConcatItems DEF LinkLost, SeqOK, historyVars, busVars, commandVars
<1>4. CASE Transmit
  BY <1>4, TailItems DEF Transmit, SeqOK, historyVars, busVars, commandVars
<1>5. CASE \E m \in Messages : Incoming(m)
  <2>1. PICK m \in Messages : Incoming(m)
    BY <1>5
  <2>2. Append(arrived, m) \in Seq(Messages)
    BY AppendItems DEF SeqOK
  <2> QED
    BY <2>1, <2>2 DEF Incoming, SeqOK, loopVars, busVars, commandVars
<1>6. CASE EnqueueIngress
  <2>1. packet \in Messages
    BY <1>6 DEF EnqueueIngress, TypeOK
  <2>2. Append(ingress, packet) \in Seq(Messages)
    BY <2>1, AppendItems DEF SeqOK
  <2> QED
    BY <1>6, <2>2 DEF EnqueueIngress, TryEnqueueIngress, SeqOK, loopVars, commandVars
<1>7. CASE SubscribeNext
  <2>1. Subscribe(nextSub) \in Request
    BY <1>7 DEF SubscribeNext, SubInv, Request
  <2> QED
    BY <1>7, <2>1, AppendItems DEF SubscribeNext, SeqOK, loopVars, historyVars,
                                   busVars, commandVars
<1>8. CASE RouterDispatch
  BY <1>8, AppendItems, TailItems DEF RouterDispatch, SeqOK, loopVars, historyVars,
                                      commandVars
<1>9. CASE RouterTelemetry
  <2>1. routed[Len(routed)] \in Messages
    <3>1. routed = telemetry \o <<routed[Len(routed)]>>
      BY <1>9 DEF RouterTelemetry, TelemetryInv
    <3>2. Len(routed) > 0
      BY <3>1 DEF SeqOK
    <3> QED
      BY <3>2 DEF SeqOK
  <2> QED
    BY <1>9, <2>1, AppendItems DEF RouterTelemetry, SeqOK, loopVars, historyVars,
                                   commandVars
<1>10. CASE RouterStops
  BY <1>10 DEF RouterStops, SeqOK, loopVars, commandVars
<1>11. CASE CommandReceive \/ CommandStops
  <2>1. commands' \in Seq(Commands)
    <3>1. commands # <<>> => Tail(commands) \in Seq(Commands)
      BY TailItems DEF SeqOK
    <3> QED
      <4>1. CASE CommandReceive
        BY <3>1, <4>1 DEF CommandReceive
      <4>2. CASE CommandStops
        BY <4>2 DEF CommandStops
      <4> QED
        BY <1>11, <4>1, <4>2
  <2> QED
    BY <1>11, <2>1 DEF CommandReceive, CommandStops, SeqOK, loopVars, historyVars, busVars
<1>12. CASE PublishCommand
  <2>1. Publish(cmd) \in Request
    BY <1>12 DEF PublishCommand, Request
  <2> QED
    <3>1. Append(requests, Publish(cmd)) \in Seq(Request)
      BY <2>1, AppendItems DEF SeqOK
    <3> QED
      BY <1>12, <3>1 DEF PublishCommand, SeqOK, loopVars, historyVars, busVars
<1>13. CASE \E c \in Commands : EnqueueCommand(c)
  BY <1>13, AppendItems DEF EnqueueCommand, SeqOK, loopVars, historyVars, busVars
<1> QED
  BY <1>1, <1>2, <1>3, <1>4, <1>5, <1>6, <1>7, <1>8, <1>9, <1>10, <1>11, <1>12, <1>13
  DEF Next, MqttWorker, RouterWorker, CommandWorker

\* Every step keeps the types and the channels within their capacities.
LEMMA NextTypeOK ==
  ASSUME TypeOK, SeqOK, SubInv, Next, SeqOK'
  PROVE  TypeOK'
<1> USE EngineAssumption
<1>r. \A r \in Items(requests') \cup Items(pending') :
        \/ r.kind = "subscribe" /\ r.filter \in Filters
        \/ r.kind = "publish" /\ r.command \in Commands
  <2>1. Items(requests') \cup Items(pending') \subseteq Request
    BY ItemsType DEF SeqOK
  <2> QED
    BY <2>1, RequestKind
<1>i. Items(ingress') \subseteq Messages
  BY ItemsType DEF SeqOK
<1>1. CASE \E present \in BOOLEAN : Connect(present)
  BY <1>1, <1>r, DelayType
  DEF Connect, AfterConnAck, TypeOK, historyVars, busVars, commandVars, Polling
<1>2. CASE ConnectFails
  BY <1>2, DelayType DEF ConnectFails, TypeOK, loopVars, historyVars, busVars,
                         commandVars, Polling
<1>3. CASE LinkLost
  <2>1. Len(requests') <= Capacity
    BY <1>3 DEF LinkLost
  <2>2. /\ delay' \in MinDelay..MaxDelay /\ slept' \in 0..MaxDelay /\ failures' \in Nat
    BY <1>3, DelayType DEF LinkLost
  <2> QED
    BY <1>3, <1>r, <2>1, <2>2 DEF LinkLost, TypeOK, historyVars, busVars,
                                  commandVars, Polling
<1>4. CASE Transmit
  <2>1. Len(requests') <= Capacity
    <3>1. requests # <<>> => Len(Tail(requests)) = Len(requests) - 1
      BY TailItems DEF SeqOK
    <3>2. Len(requests) \in Nat /\ Len(requests) <= Capacity
      BY DEF SeqOK, TypeOK
    <3>3. requests' = requests \/ (requests # <<>> /\ requests' = Tail(requests))
      BY <1>4 DEF Transmit
    <3> QED
      BY <3>1, <3>2, <3>3
  <2>2. subscribed' \subseteq Filters /\ executed' \subseteq Commands
    <3>1. Head(pending \o requests) \in Items(requests) \cup Items(pending)
      <4>1. pending \o requests \in Seq(Request) /\ pending \o requests # <<>>
        BY <1>4 DEF Transmit, SeqOK
      <4>2. Items(pending \o requests) = Items(pending) \cup Items(requests)
        BY ConcatItems DEF SeqOK
      <4> QED
        BY <4>1, <4>2, TailItems
    <3> QED
      BY <1>4, <3>1 DEF Transmit, TypeOK
  <2> QED
    BY <1>4, <1>r, <2>1, <2>2, DelayType, SMTT(30) DEF Transmit, TypeOK, historyVars, busVars,
                                             commandVars
<1>5. CASE \E m \in Messages : Incoming(m)
  BY <1>5, <1>r, DelayType DEF Incoming, TypeOK, loopVars, busVars, commandVars, Polling
<1>6. CASE EnqueueIngress
  <2>1. Len(ingress') <= IngressCapacity
    BY <1>6, AppendItems, SMTT(60) DEF EnqueueIngress, TryEnqueueIngress, TypeOK, SeqOK
  <2> QED
    BY <1>6, <1>r, <1>i, <2>1 DEF EnqueueIngress, TypeOK, loopVars, backoffVars, commandVars
<1>7. CASE SubscribeNext
  <2>1. Len(requests') <= Capacity
    BY <1>7 DEF SubscribeNext, Room, TypeOK, SeqOK
  <2>2. nextSub' \in 1..(NFilters + 1)
    BY <1>7 DEF SubscribeNext, SubInv, Filters
  <2> QED
    BY <1>7, <1>r, <2>1, <2>2 DEF SubscribeNext, TypeOK, loopVars, backoffVars,
                                  historyVars, busVars, commandVars
<1>8. CASE SleepEnds \/ WorkerStops \/ ShutdownBegins \/ Join
  <2>1. /\ UNCHANGED <<loopVars, requests, nextSub, packet, backoffVars, historyVars,
                       busVars, commandVars>>
        /\ mqtt' \in {mqtt, "select", "stopped"} /\ (mqtt' # mqtt => mqtt # "publish")
        /\ stopping' \in BOOLEAN /\ joined' \in BOOLEAN
    BY <1>8 DEF SleepEnds, WorkerStops, ShutdownBegins, Join, TypeOK
  <2> QED
    BY <2>1 DEF TypeOK, loopVars, backoffVars, historyVars, busVars, commandVars
<1>9. CASE RouterDispatch \/ RouterTelemetry \/ RouterStops
  <2>1. Len(ingress') <= IngressCapacity
    <3>1. ingress # <<>> => Len(Tail(ingress)) = Len(ingress) - 1
      BY TailItems DEF SeqOK
    <3>2. Len(ingress) \in Nat /\ Len(ingress) <= IngressCapacity
      <4>1. ingress \in Seq(Messages)
        BY DEF SeqOK
      <4>2. Len(ingress) <= IngressCapacity
        BY DEF TypeOK
      <4> QED
        BY <4>1, <4>2
    <3>3. \/ ingress' = ingress \/ ingress' = <<>>
          \/ ingress # <<>> /\ ingress' = Tail(ingress)
      BY <1>9 DEF RouterDispatch, RouterTelemetry, RouterStops
    <3> QED
      BY <3>1, <3>2, <3>3
  <2>2. /\ UNCHANGED <<loopVars, requests, mqtt, nextSub, packet, backoffVars,
                       commandVars, stopping, joined>>
        /\ router' \in {"select", "dispatch", "stopped"} /\ ingressOpen' \in BOOLEAN
    BY <1>9 DEF RouterDispatch, RouterTelemetry, RouterStops, TypeOK
  <2> QED
    BY <1>i, <2>1, <2>2 DEF TypeOK, loopVars, backoffVars, commandVars
<1>10. CASE CommandReceive \/ CommandStops
  <2>1. Len(commands') <= CommandCapacity /\ Items(commands') \subseteq offered
    <3>1. commands # <<>> => /\ Len(Tail(commands)) = Len(commands) - 1
                             /\ Items(Tail(commands)) \subseteq Items(commands)
      BY TailItems DEF SeqOK
    <3>2. /\ Len(commands) \in Nat /\ Len(commands) <= CommandCapacity
          /\ Items(commands) \subseteq offered
      <4>1. commands \in Seq(Commands)
        BY DEF SeqOK
      <4>2. Len(commands) <= CommandCapacity /\ Items(commands) \subseteq offered
        BY DEF TypeOK
      <4> QED
        BY <4>1, <4>2
    <3>3. \/ commands' = <<>>
          \/ commands # <<>> /\ commands' = Tail(commands)
      BY <1>10 DEF CommandReceive, CommandStops
    <3> QED
      <4>1. CASE commands' = <<>>
        BY <4>1, NoItems
      <4>2. CASE commands # <<>> /\ commands' = Tail(commands)
        <5>1. Len(commands') = Len(commands) - 1 /\ Items(commands') \subseteq Items(commands)
          BY <3>1, <4>2
        <5> QED
          BY <3>2, <5>1
      <4> QED
        BY <3>3, <4>1, <4>2
  <2>2. cmd' \in Commands \cup {"select", "stopped"}
    BY <1>10, TailItems DEF CommandReceive, CommandStops, SeqOK
  <2> QED
    <3>1. UNCHANGED <<loopVars, requests, mqtt, nextSub, packet, backoffVars, historyVars,
                      busVars, offered, outcome, stopping, joined>>
      BY <1>10 DEF CommandReceive, CommandStops
    <3> QED
      BY <2>1, <2>2, <3>1 DEF TypeOK, loopVars, backoffVars, historyVars, busVars
<1>11. CASE PublishCommand
  <2>1. Len(requests') <= Capacity
    <3>1. /\ requests \in Seq(Request) /\ Len(requests) \in Nat
          /\ Publish(cmd) \in Request
      <4>1. cmd \in Commands
        BY <1>11 DEF PublishCommand
      <4>2. Publish(cmd) \in Request
        BY <4>1 DEF Request
      <4>3. requests \in Seq(Request) /\ Len(requests) \in Nat
        BY DEF SeqOK
      <4> QED
        BY <4>2, <4>3
    <3>2. Len(Append(requests, Publish(cmd))) = Len(requests) + 1
      BY <3>1, AppendItems
    <3> QED
      BY <1>11, <3>1, <3>2, SMTT(30) DEF PublishCommand, Room, TypeOK
  <2>2. outcome' \in [Commands -> {None, "Published", "Failed"}]
    BY <1>11 DEF PublishCommand, TypeOK
  <2> QED
    BY <1>11, <1>r, <2>1, <2>2 DEF PublishCommand, TypeOK, loopVars, backoffVars,
                                   historyVars, busVars
<1>12. CASE \E c \in Commands : EnqueueCommand(c)
  <2>1. PICK c \in Commands : EnqueueCommand(c)
    BY <1>12
  <2>2. Len(commands') <= CommandCapacity /\ Items(commands') \subseteq offered \cup {c}
    <3>1. /\ commands \in Seq(Commands) /\ Len(commands) \in Nat
          /\ Len(commands) <= CommandCapacity /\ Items(commands) \subseteq offered
      <4>1. commands \in Seq(Commands)
        BY DEF SeqOK
      <4>2. Len(commands) <= CommandCapacity /\ Items(commands) \subseteq offered
        BY DEF TypeOK
      <4> QED
        BY <4>1, <4>2
    <3>2. /\ Len(Append(commands, c)) = Len(commands) + 1
          /\ Items(Append(commands, c)) = Items(commands) \cup {c}
      BY <3>1, AppendItems
    <3>3. \/ commands' = commands
          \/ commands' = Append(commands, c) /\ Len(commands) < CommandCapacity
      BY <2>1 DEF EnqueueCommand
    <3>4. Len(commands') <= CommandCapacity
      BY <3>1, <3>2, <3>3, EngineAssumption
    <3>5. Items(commands') \subseteq offered \cup {c}
      BY <3>1, <3>2, <3>3
    <3> QED
      BY <3>4, <3>5
  <2> QED
    BY <2>1, <2>2 DEF EnqueueCommand, TypeOK, loopVars, backoffVars, historyVars, busVars
<1> QED
  BY <1>1, <1>2, <1>3, <1>4, <1>5, <1>6, <1>7, <1>8, <1>9, <1>10, <1>11, <1>12
  DEF Next, MqttWorker, RouterWorker, CommandWorker

-----------------------------------------------------------------------------
(* The subscriptions.                                                      *)

\* A step that takes nothing from the broker or the channel takes no filter.
LEMMA StillOnTheWay ==
  ASSUME subscribed \subseteq subscribed',
         Items(pending) \cup Items(requests) \subseteq Items(pending') \cup Items(requests')
  PROVE  \A f : OnTheWay(f) => OnTheWay(f)'
BY DEF OnTheWay

\* Every step keeps the filters on their way.
LEMMA NextSub ==
  ASSUME TypeOK, SeqOK, SubInv, Next
  PROVE  SubInv'
<1> USE EngineAssumption
<1>1. CASE \E present \in BOOLEAN : Connect(present)
  <2>1. PICK present \in BOOLEAN : Connect(present)
    BY <1>1
  <2>2. nextSub' = 1 /\ mqtt' = IF NFilters = 0 THEN "select" ELSE "subscribe"
    BY <2>1 DEF Connect, AfterConnAck
  <2>3. CASE NFilters = 0
    BY <2>2, <2>3 DEF SubInv, Filters
  <2>4. CASE NFilters # 0
    BY <2>2, <2>4 DEF SubInv, Filters
  <2> QED
    BY <2>3, <2>4
<1>2. CASE ConnectFails \/ LinkLost
  BY <1>2 DEF ConnectFails, LinkLost, SubInv, loopVars, Polling
<1>3. CASE Transmit
  <2>1. /\ mqtt = "select" /\ mqtt' = "select" /\ network /\ network'
        /\ pending \in Seq(Request) /\ requests \in Seq(Request)
    BY <1>3 DEF Transmit, Polling, SeqOK
  <2>2. \A f \in Filters : OnTheWay(f)
    BY <2>1 DEF SubInv
  <2> DEFINE r == Head(pending \o requests)
  <2>3. /\ r \in Request
        /\ Items(pending) \cup Items(requests) = {r} \cup Items(pending') \cup Items(requests')
    <3>1. CASE pending # <<>> /\ pending' = Tail(pending) /\ requests' = requests
      <4>1. Head(pending \o requests) = Head(pending)
        BY <2>1, <3>1
      <4>2. Head(pending) \in Request /\ Items(pending) = {Head(pending)} \cup Items(Tail(pending))
        BY <2>1, <3>1, TailItems
      <4> QED
        BY <3>1, <4>1, <4>2
    <3>2. CASE pending = <<>> /\ requests # <<>> /\ requests' = Tail(requests) /\ pending' = pending
      <4>1. Head(pending \o requests) = Head(requests)
        BY <2>1, <3>2
      <4>2. Head(requests) \in Request /\ Items(requests) = {Head(requests)} \cup Items(Tail(requests))
        BY <2>1, <3>2, TailItems
      <4> QED
        BY <3>2, <4>1, <4>2
    <3> QED
      BY <1>3, <3>1, <3>2 DEF Transmit
  <2>4. \/ r.kind = "subscribe" /\ subscribed' = subscribed \cup {r.filter}
        \/ r.kind # "subscribe" /\ subscribed' = subscribed
    BY <1>3 DEF Transmit
  <2> HIDE DEF r
  <2>5. ASSUME NEW f \in Filters PROVE OnTheWay(f)'
    <3>1. CASE f \in subscribed
      BY <2>4, <3>1 DEF OnTheWay
    <3>2. CASE Subscribe(f) = r
      <4>1. r.kind = "subscribe" /\ r.filter = f
        BY <3>2 DEF Subscribe
      <4> QED
        BY <2>4, <4>1 DEF OnTheWay
    <3>3. CASE Subscribe(f) \in Items(pending') \cup Items(requests')
      BY <3>3 DEF OnTheWay
    <3> QED
      BY <2>2, <2>3, <3>1, <3>2, <3>3 DEF OnTheWay
  <2> QED
    BY <2>1, <2>5 DEF SubInv
<1>4. CASE SubscribeNext
  <2>1. /\ mqtt = "subscribe" /\ nextSub \in 1..NFilters /\ nextSub' = nextSub + 1
        /\ mqtt' = IF nextSub = NFilters THEN "select" ELSE "subscribe"
        /\ requests' = Append(requests, Subscribe(nextSub))
        /\ UNCHANGED <<network, pending, subscribed>>
    BY <1>4 DEF SubscribeNext, SubInv, Filters, loopVars
  <2>2. Items(requests') = Items(requests) \cup {Subscribe(nextSub)}
    <3>1. Subscribe(nextSub) \in Request /\ requests \in Seq(Request)
      BY <2>1 DEF Request, Filters, SeqOK
    <3> QED
      BY <2>1, <3>1, AppendItems
  <2>3. /\ \A f : OnTheWay(f) => OnTheWay(f)'
        /\ \A f \in Filters : f = nextSub => OnTheWay(f)'
    BY <2>1, <2>2 DEF OnTheWay
  <2>4. ASSUME network', NEW f \in Filters, f < nextSub + 1
        PROVE  OnTheWay(f)'
    <3>1. f = nextSub \/ f < nextSub
      BY <2>1, <2>4 DEF Filters
    <3>2. CASE f = nextSub
      BY <2>3, <3>2
    <3>3. CASE f < nextSub
      BY <2>1, <2>3, <2>4, <3>3 DEF SubInv
    <3> QED
      BY <3>1, <3>2, <3>3
  <2>5. CASE nextSub = NFilters
    <3>1. \A f \in Filters : f < nextSub + 1
      BY <2>1, <2>5 DEF Filters
    <3> QED
      BY <2>1, <2>4, <2>5, <3>1 DEF SubInv
  <2>6. CASE nextSub # NFilters
    <3>1. nextSub' \in Filters
      BY <2>1, <2>6 DEF Filters
    <3> QED
      BY <2>1, <2>4, <2>6, <3>1 DEF SubInv
  <2> QED
    BY <2>5, <2>6
<1>5. ASSUME UNCHANGED <<network, mqtt, nextSub, subscribed>>,
             Items(pending) \cup Items(requests) \subseteq Items(pending') \cup Items(requests')
      PROVE  SubInv'
  BY <1>5, StillOnTheWay DEF SubInv
<1>6. ASSUME UNCHANGED <<network, nextSub, subscribed, pending, requests>>,
             mqtt' \in {"select", "publish"}, mqtt \in {"select", "publish"} \/ ~network
      PROVE  SubInv'
  <2>1. \A f : OnTheWay(f) => OnTheWay(f)'
    BY <1>6 DEF OnTheWay
  <2> QED
    BY <1>6, <2>1 DEF SubInv
<1>7. CASE \E m \in Messages : Incoming(m)
  BY <1>6, <1>7 DEF Incoming, Polling, loopVars
<1>8. CASE EnqueueIngress
  BY <1>6, <1>8 DEF EnqueueIngress, loopVars
<1>9. CASE SleepEnds
  <2>1. ~network /\ mqtt' \in {"select", "stopped"} /\ network' = network
    BY <1>9 DEF SleepEnds, SubInv, loopVars
  <2> QED
    BY <2>1 DEF SubInv
<1>10. CASE WorkerStops
  BY <1>10 DEF WorkerStops, SubInv
<1>11. CASE RouterWorker \/ CommandReceive \/ CommandStops
  BY <1>5, <1>11 DEF RouterWorker, RouterDispatch, RouterTelemetry, RouterStops,
                     CommandReceive, CommandStops, loopVars
<1>12. CASE (\E c \in Commands : EnqueueCommand(c)) \/ ShutdownBegins \/ Join
  BY <1>5, <1>12 DEF EnqueueCommand, ShutdownBegins, Join, loopVars
<1>13. CASE PublishCommand
  <2>1. Items(requests) \subseteq Items(requests')
    <3>1. cmd \in Commands /\ requests \in Seq(Request)
      BY <1>13 DEF PublishCommand, SeqOK
    <3>2. Publish(cmd) \in Request
      BY <3>1 DEF Request
    <3>3. Items(Append(requests, Publish(cmd))) = Items(requests) \cup {Publish(cmd)}
      BY <3>1, <3>2, AppendItems
    <3>4. requests' = requests \/ requests' = Append(requests, Publish(cmd))
      BY <1>13 DEF PublishCommand
    <3> QED
      BY <3>3, <3>4
  <2>2. UNCHANGED <<network, mqtt, nextSub, subscribed, pending>>
    BY <1>13 DEF PublishCommand, loopVars
  <2> QED
    BY <1>5, <2>1, <2>2
<1> QED
  BY <1>1, <1>2, <1>3, <1>4, <1>7, <1>8, <1>9, <1>10, <1>11, <1>12, <1>13
  DEF Next, MqttWorker, CommandWorker

-----------------------------------------------------------------------------
(* The messages.                                                           *)

\* What has arrived stays in order, and before what arrives now.
LEMMA ArrivalAppends ==
  ASSUME arrived \in Seq(Messages), NEW m \in Messages,
         arrived' = Append(arrived, m), m \notin Items(arrived), NoDup(arrived)
  PROVE  /\ \A a, b : ArrivedBefore(a, b) => ArrivedBefore(a, b)'
         /\ \A a \in Items(arrived) : ArrivedBefore(a, m)'
         /\ NoDup(arrived')
<1>1. /\ Len(arrived) \in Nat /\ DOMAIN arrived = 1..Len(arrived)
      /\ DOMAIN arrived' = 1..Len(arrived) + 1
      /\ \A i \in 1..Len(arrived) : arrived'[i] = arrived[i]
      /\ arrived'[Len(arrived) + 1] = m
  OBVIOUS
<1>2. ASSUME NEW a, NEW b, ArrivedBefore(a, b)
      PROVE  ArrivedBefore(a, b)'
  <2>1. PICK i, j \in 1..Len(arrived) : i < j /\ arrived[i] = a /\ arrived[j] = b
    BY <1>1, <1>2 DEF ArrivedBefore
  <2>2. i \in DOMAIN arrived' /\ j \in DOMAIN arrived' /\ arrived'[i] = a /\ arrived'[j] = b
    BY <1>1, <2>1
  <2> QED
    BY <2>1, <2>2 DEF ArrivedBefore
<1>3. ASSUME NEW a \in Items(arrived)
      PROVE  ArrivedBefore(a, m)'
  <2>1. PICK i \in 1..Len(arrived) : arrived[i] = a
    BY <1>1 DEF Items
  <2>2. /\ i \in DOMAIN arrived' /\ Len(arrived) + 1 \in DOMAIN arrived'
        /\ i < Len(arrived) + 1 /\ arrived'[i] = a
    BY <1>1, <2>1
  <2> QED
    BY <1>1, <2>2 DEF ArrivedBefore
<1>4. NoDup(arrived')
  <2> SUFFICES ASSUME NEW i \in 1..Len(arrived) + 1, NEW j \in 1..Len(arrived) + 1,
                      arrived'[i] = arrived'[j]
               PROVE  i = j
    BY <1>1 DEF NoDup
  <2>1. \A k \in 1..Len(arrived) : arrived[k] # m
    BY <1>1 DEF Items
  <2> QED
    BY <1>1, <2>1 DEF NoDup
<1> QED
  BY <1>2, <1>3, <1>4

\* No message arrives before itself.
LEMMA NotBeforeItself ==
  ASSUME arrived \in Seq(Messages), NoDup(arrived)
  PROVE  \A a : ~ArrivedBefore(a, a)
<1>1. Len(arrived) \in Nat /\ DOMAIN arrived = 1..Len(arrived)
  OBVIOUS
<1> QED
  BY <1>1 DEF ArrivedBefore, NoDup

\* A later message at the end keeps a sequence in order.
LEMMA InOrderAppend ==
  ASSUME NEW s \in Seq(Messages), NEW c \in Messages, InOrder(s), Precede(Items(s), {c})
  PROVE  InOrder(Append(s, c))
<1>1. /\ Len(s) \in Nat /\ DOMAIN s = 1..Len(s)
      /\ DOMAIN Append(s, c) = 1..Len(s) + 1
      /\ \A i \in 1..Len(s) : Append(s, c)[i] = s[i]
      /\ Append(s, c)[Len(s) + 1] = c
  OBVIOUS
<1> SUFFICES ASSUME NEW i \in 1..Len(s) + 1, NEW j \in 1..Len(s) + 1, i < j
             PROVE  ArrivedBefore(Append(s, c)[i], Append(s, c)[j])
  BY <1>1 DEF InOrder
<1>2. i \in 1..Len(s) /\ (j \in 1..Len(s) \/ j = Len(s) + 1)
  BY <1>1
<1>3. s[i] \in Items(s)
  BY <1>1, <1>2 DEF Items
<1> QED
  BY <1>1, <1>2, <1>3 DEF InOrder, Precede

\* The head of a sequence in order comes before its tail.
LEMMA InOrderTail ==
  ASSUME NEW s \in Seq(Messages), s # <<>>, InOrder(s)
  PROVE  InOrder(Tail(s)) /\ Precede({Head(s)}, Items(Tail(s)))
<1>1. /\ Len(s) \in Nat /\ Len(s) > 0 /\ Head(s) = s[1] /\ DOMAIN s = 1..Len(s)
      /\ DOMAIN Tail(s) = 1..Len(s) - 1
  OBVIOUS
<1>2. \A i \in 1..Len(s) - 1 : i + 1 \in 1..Len(s) /\ Tail(s)[i] = s[i + 1]
  BY <1>1
<1>3. InOrder(Tail(s))
  <2> SUFFICES ASSUME NEW i \in 1..Len(s) - 1, NEW j \in 1..Len(s) - 1, i < j
               PROVE  ArrivedBefore(Tail(s)[i], Tail(s)[j])
    BY <1>1 DEF InOrder
  <2>1. i + 1 < j + 1
    BY <1>1
  <2> QED
    BY <1>1, <1>2, <2>1 DEF InOrder
<1>4. ASSUME NEW b \in Items(Tail(s))
      PROVE  ArrivedBefore(Head(s), b)
  <2>1. PICK i \in 1..Len(s) - 1 : b = Tail(s)[i]
    BY <1>1 DEF Items
  <2>2. 1 \in 1..Len(s) /\ i + 1 \in 1..Len(s) /\ 1 < i + 1 /\ b = s[i + 1]
    BY <1>1, <1>2, <2>1
  <2> QED
    BY <1>1, <2>2 DEF InOrder
<1> QED
  BY <1>3, <1>4 DEF Precede

\* Two sequences in order, the one before the other, are in order together.
LEMMA InOrderConcat ==
  ASSUME NEW s \in Seq(Messages), NEW t \in Seq(Messages), InOrder(s), InOrder(t),
         Precede(Items(s), Items(t))
  PROVE  InOrder(s \o t)
<1>1. /\ Len(s) \in Nat /\ Len(t) \in Nat /\ DOMAIN s = 1..Len(s) /\ DOMAIN t = 1..Len(t)
      /\ DOMAIN (s \o t) = 1..Len(s) + Len(t)
  OBVIOUS
<1>2. \A i \in 1..Len(s) + Len(t) :
        \/ i \in 1..Len(s) /\ (s \o t)[i] = s[i]
        \/ i - Len(s) \in 1..Len(t) /\ (s \o t)[i] = t[i - Len(s)]
  BY <1>1
<1> SUFFICES ASSUME NEW i \in 1..Len(s) + Len(t), NEW j \in 1..Len(s) + Len(t), i < j
             PROVE  ArrivedBefore((s \o t)[i], (s \o t)[j])
  BY <1>1 DEF InOrder
<1>3. CASE i \in 1..Len(s) /\ j \in 1..Len(s)
  BY <1>1, <1>2, <1>3 DEF InOrder
<1>4. CASE i \in 1..Len(s) /\ j \notin 1..Len(s)
  <2>1. (s \o t)[i] \in Items(s) /\ (s \o t)[j] \in Items(t)
    BY <1>1, <1>2, <1>4 DEF Items
  <2> QED
    BY <2>1 DEF Precede
<1>5. CASE i \notin 1..Len(s)
  <2>1. /\ i - Len(s) \in 1..Len(t) /\ (s \o t)[i] = t[i - Len(s)]
        /\ j - Len(s) \in 1..Len(t) /\ (s \o t)[j] = t[j - Len(s)]
        /\ i - Len(s) < j - Len(s)
    BY <1>1, <1>2, <1>5
  <2> QED
    BY <1>1, <2>1 DEF InOrder
<1> QED
  BY <1>3, <1>4, <1>5

\* Every step keeps what is left of the messages in the order of reception.
LEMMA NextIngress ==
  ASSUME TypeOK, SeqOK, IngressInv, Next
  PROVE  IngressInv'
<1> USE EngineAssumption
<1>t. /\ arrived \in Seq(Messages) /\ routed \in Seq(Messages) /\ ingress \in Seq(Messages)
  BY DEF SeqOK
<1>i. /\ NoDup(arrived) /\ lost \subseteq Items(arrived)
      /\ Items(routed) \cup Items(ingress) \cup InHand = Items(arrived) \ lost
      /\ InOrder(routed) /\ InOrder(ingress)
      /\ Precede(Items(routed), Items(ingress) \cup InHand)
      /\ Precede(Items(ingress), InHand)
  BY DEF IngressInv
<1>n. \A a : ~ArrivedBefore(a, a)
  BY <1>t, <1>i, NotBeforeItself
<1>1. ASSUME UNCHANGED <<arrived, lost, routed, ingress, packet>>
      PROVE  IngressInv'
  BY <1>1 DEF IngressInv, InHand, NoDup, InOrder, Precede, ArrivedBefore
<1>2. ASSUME arrived' = arrived, lost' \subseteq Items(arrived),
             Items(routed') \cup Items(ingress') \cup InHand' = Items(arrived) \ lost',
             InOrder(routed'), InOrder(ingress'),
             Precede(Items(routed'), Items(ingress') \cup InHand'),
             Precede(Items(ingress'), InHand')
      PROVE  IngressInv'
  <2>1. \A a, b : ArrivedBefore(a, b)' <=> ArrivedBefore(a, b)
    BY <1>2 DEF ArrivedBefore
  <2>2. InOrder(routed)' /\ InOrder(ingress)'
    BY <1>2, <2>1 DEF InOrder
  <2>3. /\ Precede(Items(routed), Items(ingress) \cup InHand)'
        /\ Precede(Items(ingress), InHand)'
    BY <1>2, <2>1 DEF Precede
  <2> QED
    BY <1>i, <1>2, <2>2, <2>3 DEF IngressInv
<1>3. CASE \E m \in Messages : Incoming(m)
  <2>1. PICK m \in Messages : Incoming(m)
    BY <1>3
  <2>2. UNCHANGED <<lost, routed, ingress>>
    BY <2>1 DEF Incoming, busVars
  <2>3. CASE m \in Invalid
    BY <1>1, <2>1, <2>2, <2>3 DEF Incoming
  <2>4. CASE m \notin Invalid
    <3>1. /\ packet = None /\ packet' = m /\ m # None
          /\ arrived' = Append(arrived, m) /\ m \notin Items(arrived)
      BY <2>1, <2>4 DEF Incoming, Polling, TypeOK
    <3>2. InHand = {} /\ InHand' = {m}
      BY <3>1 DEF InHand
    <3>3. /\ \A a, b : ArrivedBefore(a, b) => ArrivedBefore(a, b)'
          /\ \A a \in Items(arrived) : ArrivedBefore(a, m)'
          /\ NoDup(arrived')
      BY <1>t, <1>i, <3>1, ArrivalAppends
    <3>4. Items(arrived') = Items(arrived) \cup {m}
      BY <1>t, <3>1, AppendItems
    <3>5. /\ lost' \subseteq Items(arrived')
          /\ Items(routed') \cup Items(ingress') \cup InHand' = Items(arrived') \ lost'
      BY <1>i, <2>2, <3>1, <3>2, <3>4
    <3>6. InOrder(routed)' /\ InOrder(ingress)'
      BY <1>i, <2>2, <3>3 DEF InOrder
    <3>7. Items(routed) \subseteq Items(arrived) /\ Items(ingress) \subseteq Items(arrived)
      BY <1>i
    <3>8. Precede(Items(routed), Items(ingress) \cup InHand)'
      <4>1. \A a \in Items(routed), b \in Items(ingress) \cup {m} : ArrivedBefore(a, b)'
        BY <1>i, <3>3, <3>7 DEF Precede
      <4> QED
        BY <2>2, <3>2, <4>1 DEF Precede
    <3>9. Precede(Items(ingress), InHand)'
      <4>1. \A a \in Items(ingress), b \in {m} : ArrivedBefore(a, b)'
        BY <3>3, <3>7
      <4> QED
        BY <2>2, <3>2, <4>1 DEF Precede
    <3> QED
      BY <3>3, <3>5, <3>6, <3>8, <3>9 DEF IngressInv
  <2> QED
    BY <2>3, <2>4
<1>4. CASE EnqueueIngress
  <2>1. /\ packet \in Messages /\ packet # None /\ packet' = None
        /\ UNCHANGED <<arrived, routed>>
    BY <1>4 DEF EnqueueIngress, TypeOK
  <2>2. InHand = {packet} /\ InHand' = {}
    BY <2>1 DEF InHand
  <2>3. CASE ingress' = Append(ingress, packet) /\ lost' = lost
    <3>1. Items(ingress') = Items(ingress) \cup {packet}
      BY <1>t, <2>1, <2>3, AppendItems
    <3>2. Precede(Items(ingress), {packet})
      BY <1>i, <2>2
    <3>3. InOrder(ingress')
      BY <1>t, <1>i, <2>1, <2>3, <3>2, InOrderAppend
    <3>4. Items(routed') \cup Items(ingress') \cup InHand' = Items(arrived) \ lost'
      BY <1>i, <2>1, <2>2, <2>3, <3>1
    <3>5. /\ Precede(Items(routed'), Items(ingress') \cup InHand')
          /\ Precede(Items(ingress'), InHand')
      BY <1>i, <2>1, <2>2, <3>1 DEF Precede
    <3> QED
      BY <1>2, <1>i, <2>1, <2>3, <3>3, <3>4, <3>5
  <2>4. CASE ingress' = ingress /\ lost' = lost \cup {packet}
    <3>1. packet \notin Items(routed) /\ packet \notin Items(ingress)
      BY <1>i, <1>n, <2>2 DEF Precede
    <3>2. Items(routed') \cup Items(ingress') \cup InHand' = Items(arrived) \ lost'
      BY <1>i, <2>1, <2>2, <2>4, <3>1
    <3>3. lost' \subseteq Items(arrived)
      BY <1>i, <2>2, <2>4
    <3>4. /\ Precede(Items(routed'), Items(ingress') \cup InHand')
          /\ Precede(Items(ingress'), InHand')
      BY <1>i, <2>1, <2>2, <2>4 DEF Precede
    <3> QED
      BY <1>2, <1>i, <2>1, <2>4, <3>2, <3>3, <3>4
  <2> QED
    BY <1>4, <2>3, <2>4 DEF EnqueueIngress, TryEnqueueIngress
<1>5. CASE RouterDispatch
  <2>1. /\ ingress # <<>> /\ ingress' = Tail(ingress)
        /\ routed' = Append(routed, Head(ingress))
        /\ UNCHANGED <<arrived, lost, packet>>
    BY <1>5 DEF RouterDispatch, historyVars
  <2>2. /\ Head(ingress) \in Messages
        /\ Items(ingress) = {Head(ingress)} \cup Items(Tail(ingress))
    BY <1>t, <2>1, TailItems
  <2>3. Items(routed') = Items(routed) \cup {Head(ingress)}
    BY <1>t, <2>1, <2>2, AppendItems
  <2>4. InHand' = InHand
    BY <2>1 DEF InHand
  <2>5. InOrder(ingress') /\ Precede({Head(ingress)}, Items(ingress'))
    BY <1>t, <1>i, <2>1, InOrderTail
  <2>6. Precede(Items(routed), {Head(ingress)})
    BY <1>i, <2>2 DEF Precede
  <2>7. InOrder(routed')
    BY <1>t, <1>i, <2>1, <2>2, <2>6, InOrderAppend
  <2>8. Items(routed') \cup Items(ingress') \cup InHand' = Items(arrived) \ lost'
    BY <1>i, <2>1, <2>2, <2>3, <2>4
  <2>9. /\ Precede(Items(routed'), Items(ingress') \cup InHand')
        /\ Precede(Items(ingress'), InHand')
    BY <1>i, <2>1, <2>2, <2>3, <2>4, <2>5 DEF Precede
  <2> QED
    BY <1>2, <1>i, <2>1, <2>5, <2>7, <2>8, <2>9
<1>6. CASE RouterStops
  <2>1. /\ ingress' = <<>> /\ lost' = lost \cup Items(ingress)
        /\ UNCHANGED <<arrived, routed, packet>>
    BY <1>6 DEF RouterStops
  <2>2. InHand' = InHand
    BY <2>1 DEF InHand
  <2>3. Items(ingress) \cap Items(routed) = {} /\ Items(ingress) \cap InHand = {}
    BY <1>i, <1>n DEF Precede
  <2>4. Items(ingress') = {} /\ InOrder(ingress')
    BY <2>1, NoItems
  <2>5. Items(routed') \cup Items(ingress') \cup InHand' = Items(arrived) \ lost'
    BY <1>i, <2>1, <2>2, <2>3, <2>4
  <2>6. lost' \subseteq Items(arrived)
    BY <1>i, <2>1
  <2>7. /\ Precede(Items(routed'), Items(ingress') \cup InHand')
        /\ Precede(Items(ingress'), InHand')
    BY <1>i, <2>1, <2>2, <2>4 DEF Precede
  <2> QED
    BY <1>2, <1>i, <2>1, <2>4, <2>5, <2>6, <2>7
<1>7. CASE \/ \E present \in BOOLEAN : Connect(present)
           \/ ConnectFails \/ LinkLost \/ Transmit \/ SubscribeNext \/ SleepEnds \/ WorkerStops
  BY <1>1, <1>7 DEF Connect, ConnectFails, LinkLost, Transmit, SubscribeNext, SleepEnds,
                    WorkerStops, historyVars, busVars
<1>8. CASE RouterTelemetry \/ CommandWorker \/ ShutdownBegins \/ Join
           \/ (\E c \in Commands : EnqueueCommand(c))
  BY <1>1, <1>8 DEF RouterTelemetry, CommandWorker, CommandReceive, PublishCommand,
                    CommandStops, EnqueueCommand, ShutdownBegins, Join, historyVars, busVars
<1> QED
  BY <1>3, <1>4, <1>5, <1>6, <1>7, <1>8 DEF Next, MqttWorker, RouterWorker

\* Every step keeps the telemetry at most one behind.
LEMMA NextTelemetry ==
  ASSUME SeqOK, TelemetryInv, Next
  PROVE  TelemetryInv'
<1>1. ASSUME UNCHANGED <<routed, telemetry, router>>
      PROVE  TelemetryInv'
  BY <1>1 DEF TelemetryInv
<1>2. CASE MqttWorker
  BY <1>1, <1>2 DEF MqttWorker, Connect, ConnectFails, LinkLost, Transmit, Incoming,
     EnqueueIngress, SubscribeNext, SleepEnds, WorkerStops, busVars
<1>3. CASE CommandWorker \/ ShutdownBegins \/ Join \/ (\E c \in Commands : EnqueueCommand(c))
  BY <1>1, <1>3 DEF CommandWorker, CommandReceive, PublishCommand, CommandStops,
                    EnqueueCommand, ShutdownBegins, Join, busVars
<1>4. CASE RouterDispatch
  <2>1. /\ router = "select" /\ router' = "dispatch" /\ telemetry' = telemetry
        /\ routed' = Append(routed, Head(ingress)) /\ ingress # <<>>
    BY <1>4 DEF RouterDispatch
  <2>2. routed \in Seq(Messages) /\ telemetry \in Seq(Messages) /\ Head(ingress) \in Messages
    BY <2>1, TailItems DEF SeqOK
  <2>3. routed = telemetry
    <3>1. routed = telemetry \o <<>>
      BY <2>1 DEF TelemetryInv
    <3> QED
      BY <2>2, <3>1
  <2>4. routed'[Len(routed')] = Head(ingress)
    BY <2>1, <2>2
  <2>5. Append(telemetry, Head(ingress)) = telemetry \o <<Head(ingress)>>
    BY <2>2
  <2> QED
    BY <2>1, <2>3, <2>4, <2>5 DEF TelemetryInv
<1>5. CASE RouterTelemetry
  <2>1. /\ router = "dispatch" /\ router' = "select" /\ routed' = routed
        /\ telemetry' = Append(telemetry, routed[Len(routed)])
    BY <1>5 DEF RouterTelemetry
  <2>2. routed \in Seq(Messages) /\ telemetry \in Seq(Messages)
    BY DEF SeqOK
  <2>3. routed = telemetry \o <<routed[Len(routed)]>>
    BY <2>1 DEF TelemetryInv
  <2>4. Len(routed) > 0
    BY <2>2, <2>3
  <2>5. routed[Len(routed)] \in Messages
    BY <2>2, <2>4
  <2>6. telemetry' = routed
    BY <2>1, <2>2, <2>3, <2>5
  <2>7. routed' = telemetry' \o <<>>
    BY <2>1, <2>2, <2>6
  <2> QED
    BY <2>1, <2>7 DEF TelemetryInv
<1>6. CASE RouterStops
  BY <1>6 DEF RouterStops, TelemetryInv
<1> QED
  BY <1>2, <1>3, <1>4, <1>5, <1>6 DEF Next, RouterWorker

-----------------------------------------------------------------------------
\* The invariant is inductive.
LEMMA NextIInv == IInv /\ [Next]_vars => IInv'
<1> SUFFICES ASSUME IInv, [Next]_vars PROVE IInv'
  OBVIOUS
<1>1. TypeOK /\ SeqOK /\ SubInv /\ IngressInv /\ TelemetryInv
  BY DEF IInv
<1>2. CASE Next
  <2>1. SeqOK'
    BY <1>1, <1>2, NextSeqOK
  <2> QED
    BY <1>1, <1>2, <2>1, NextTypeOK, NextSub, NextIngress, NextTelemetry DEF IInv
<1>3. CASE UNCHANGED vars
  <2> USE <1>1, <1>3 DEF vars
  <2>1. TypeOK' /\ SeqOK'
    BY DEF TypeOK, SeqOK
  <2>2. SubInv'
    BY DEF SubInv, OnTheWay
  <2>3. IngressInv'
    BY DEF IngressInv, InHand, NoDup, InOrder, Precede, ArrivedBefore
  <2>4. TelemetryInv'
    BY DEF TelemetryInv
  <2> QED
    BY <2>1, <2>2, <2>3, <2>4 DEF IInv
<1> QED
  BY <1>2, <1>3

\* The inductive invariant holds in every behaviour of the engine.
THEOREM Invariance == Spec => []IInv
BY InitIInv, NextIInv, PTL DEF Spec

\* The types and the capacities of the request channel, the ingress queue and
\* the command queue are kept, and so are the bounds of the reconnect delay.
THEOREM TypesHold == Spec => []TypeOK
<1>1. IInv => TypeOK
  BY DEF IInv
<1> QED
  BY <1>1, Invariance, PTL

\* A connected worker past its subscriptions has forgotten no filter: each is
\* known to the broker or in a request that is still to be sent.
THEOREM FiltersRemembered == Spec => []NoFilterForgotten
<1>1. IInv => NoFilterForgotten
  <2> SUFFICES ASSUME IInv, network, mqtt \in {"select", "publish"}, NEW f \in Filters
               PROVE  f \in subscribed \/ Subscribe(f) \in Items(pending \o requests)
    BY DEF NoFilterForgotten
  <2>1. OnTheWay(f)
    BY DEF IInv, SubInv
  <2>2. Items(pending \o requests) = Items(pending) \cup Items(requests)
    BY ConcatItems DEF IInv, SeqOK
  <2> QED
    BY <2>1, <2>2 DEF OnTheWay
<1> QED
  BY <1>1, Invariance, PTL

\* What is left of the messages is handled in the order of reception, each
\* once, and every other message was dropped with a log line.
THEOREM MessagesAccounted == Spec => []IngressAccounted
<1>1. IInv => IngressAccounted
  <2> SUFFICES ASSUME IInv PROVE IngressAccounted
    OBVIOUS
  <2> DEFINE P == IF packet = None THEN <<>> ELSE <<packet>>
  <2>1. /\ routed \in Seq(Messages) /\ ingress \in Seq(Messages)
        /\ packet \in Messages \cup {None}
    BY DEF IInv, SeqOK, TypeOK
  <2>2. P \in Seq(Messages) /\ Items(P) = InHand /\ InOrder(P)
    <3>1. CASE packet = None
      BY <3>1, NoItems DEF InHand
    <3>2. CASE packet # None
      <4>1. P = <<packet>> /\ packet \in Messages
        BY <2>1, <3>2
      <4>2. Len(P) = 1 /\ DOMAIN P = 1..1 /\ P[1] = packet /\ P \in Seq(Messages)
        BY <4>1
      <4>3. Items(P) = {packet}
        BY <4>2 DEF Items
      <4>4. InOrder(P)
        BY <4>2 DEF InOrder
      <4> QED
        BY <3>2, <4>2, <4>3, <4>4 DEF InHand
    <3> QED
      BY <3>1, <3>2
  <2> HIDE DEF P
  <2>3. /\ routed \o ingress \in Seq(Messages)
        /\ Items(routed \o ingress) = Items(routed) \cup Items(ingress)
    BY <2>1, ConcatItems
  <2>4. Items((routed \o ingress) \o P) = Items(routed) \cup Items(ingress) \cup InHand
    <3> DEFINE Q == routed \o ingress
    <3>1. Q \in Seq(Messages) /\ P \in Seq(Messages)
      BY <2>2, <2>3
    <3> HIDE DEF Q
    <3>2. Items(Q \o P) = Items(Q) \cup Items(P)
      BY <3>1, ConcatItems
    <3> QED
      BY <2>2, <2>3, <3>2 DEF Q
  <2>5. Precede(Items(routed), Items(ingress)) /\ Precede(Items(routed \o ingress), Items(P))
    BY <2>2, <2>3 DEF IInv, IngressInv, Precede
  <2>6. InOrder(routed \o ingress)
    BY <2>1, <2>5, InOrderConcat DEF IInv, IngressInv
  <2>7. InOrder((routed \o ingress) \o P)
    BY <2>2, <2>3, <2>5, <2>6, InOrderConcat
  <2>8. Kept = (routed \o ingress) \o P
    BY DEF Kept, P
  <2>9. \A i, j \in DOMAIN Kept : i < j => ArrivedBefore(Kept[i], Kept[j])
    BY <2>7, <2>8 DEF InOrder
  <2>10. Items(Kept) = Items(arrived) \ lost
    BY <2>4, <2>8 DEF IInv, IngressInv
  <2> QED
    BY <2>9, <2>10 DEF IngressAccounted, IInv, TelemetryInv
<1> QED
  BY <1>1, Invariance, PTL


-----------------------------------------------------------------------------
(* The reconnect delay.                                                    *)

\* A set of numbers that is not empty has a smallest one.
LEMMA LeastExists ==
  ASSUME NEW S \in SUBSET Nat, S # {}
  PROVE  \E m \in S : \A x \in S : m <= x
<1> DEFINE R == OpToRel(<, Nat)
<1>1. IsWellFoundedOn(R, Nat)
  BY NatLessThanWellFounded
<1>2. \A x, y \in Nat : x < y => <<x, y>> \in R
  BY DEF OpToRel
<1> HIDE DEF R
<1>3. PICK m \in S : \A y \in S : ~(<<y, m>> \in R)
  BY <1>1, WFMin
<1>4. ASSUME NEW y \in S PROVE m <= y
  <2>1. m \in Nat /\ y \in Nat /\ ~(<<y, m>> \in R)
    BY <1>3
  <2>2. ~(y < m)
    BY <1>2, <2>1
  <2> QED
    BY <2>1, <2>2
<1> QED
  BY <1>4

\* The first n doublings.
Doublings(n, g) ==
  /\ g \in [0..n -> Nat] /\ g[0] = MinDelay
  /\ \A i \in 1..n : g[i] = 2 * g[i - 1]

\* There are always such.
LEMMA DoublingsExist ==
  ASSUME NEW n \in Nat
  PROVE  \E g : Doublings(n, g)
<1> DEFINE Bad == {k \in Nat : ~\E g : Doublings(k, g)}
<1>1. SUFFICES ASSUME Bad # {} PROVE FALSE
  OBVIOUS
<1>2. PICK m \in Bad : \A x \in Bad : m <= x
  <2>1. Bad \in SUBSET Nat
    OBVIOUS
  <2> HIDE DEF Bad
  <2> QED
    BY <1>1, <2>1, LeastExists
<1>3. m \in Nat /\ ~\E g : Doublings(m, g)
  OBVIOUS
<1>4. m # 0
  <2>1. Doublings(0, [i \in 0..0 |-> MinDelay])
    BY EngineAssumption DEF Doublings
  <2> QED
    BY <1>3, <2>1
<1>5. m - 1 \in Nat /\ \E g : Doublings(m - 1, g)
  <2>1. m - 1 \in Nat /\ ~(m <= m - 1)
    BY <1>3, <1>4
  <2> QED
    BY <1>2, <2>1
<1> HIDE DEF Bad
<1>6. PICK g : Doublings(m - 1, g)
  BY <1>5
<1> DEFINE h == [i \in 0..m |-> IF i = m THEN 2 * g[m - 1] ELSE g[i]]
<1>7. Doublings(m, h)
  <2>1. g \in [0..m - 1 -> Nat] /\ g[0] = MinDelay /\ \A i \in 1..m - 1 : g[i] = 2 * g[i - 1]
    BY <1>6 DEF Doublings
  <2>2. \A i \in 0..m : i = m \/ i \in 0..m - 1
    BY <1>3
  <2>3. m - 1 \in 0..m - 1
    BY <1>5
  <2>4. g[m - 1] \in Nat /\ 2 * g[m - 1] \in Nat
    BY <2>1, <2>3
  <2>5. h \in [0..m -> Nat] /\ h[0] = MinDelay
    BY <1>3, <1>4, <2>1, <2>2, <2>4
  <2>6. ASSUME NEW i \in 1..m PROVE h[i] = 2 * h[i - 1]
    <3>1. i \in 0..m /\ i - 1 \in 0..m /\ i - 1 # m
      BY <1>3
    <3>2. h[i - 1] = g[i - 1]
      BY <3>1
    <3>3. CASE i = m
      BY <3>1, <3>2, <3>3
    <3>4. CASE i # m
      <4>1. i \in 1..m - 1
        BY <1>3, <3>4
      <4> QED
        BY <2>1, <3>1, <3>2, <3>4, <4>1
    <3> QED
      BY <3>3, <3>4
  <2> QED
    BY <2>5, <2>6 DEF Doublings
<1> QED
  BY <1>3, <1>7

\* And they agree with each other.
LEMMA DoublingsAgree ==
  ASSUME NEW n \in Nat, NEW g, NEW h, Doublings(n, g), Doublings(n + 1, h)
  PROVE  g[n] = h[n]
<1> DEFINE Bad == {k \in Nat : k <= n /\ g[k] # h[k]}
<1>1. SUFFICES ASSUME Bad # {} PROVE FALSE
  OBVIOUS
<1>2. PICK m \in Bad : \A x \in Bad : m <= x
  <2>1. Bad \in SUBSET Nat
    OBVIOUS
  <2> HIDE DEF Bad
  <2> QED
    BY <1>1, <2>1, LeastExists
<1>3. m \in Nat /\ m <= n /\ g[m] # h[m]
  OBVIOUS
<1>4. g[0] = h[0] /\ (\A i \in 1..n : g[i] = 2 * g[i - 1])
      /\ (\A i \in 1..n + 1 : h[i] = 2 * h[i - 1])
  BY DEF Doublings
<1>5. m # 0
  BY <1>3, <1>4
<1>6. m - 1 \in Nat /\ m - 1 <= n /\ ~(m <= m - 1)
  BY <1>3, <1>5
<1>7. g[m - 1] = h[m - 1]
  BY <1>2, <1>6
<1>8. m \in 1..n /\ m \in 1..n + 1
  BY <1>3, <1>5
<1> QED
  BY <1>3, <1>4, <1>7, <1>8

\* Doubled is what its equation says.
LEMMA DoubledIs ==
  /\ Doubled[0] = MinDelay
  /\ \A k \in Nat : Doubled[k] \in Nat /\ Doubled[k + 1] = 2 * Doubled[k]
<1> DEFINE g(n) == CHOOSE x : Doublings(n, x)
           f == [k \in Nat |-> g(k)[k]]
<1>1. \A n \in Nat : Doublings(n, g(n))
  BY DoublingsExist
<1> HIDE DEF g
<1>2. f[0] = MinDelay
  BY <1>1 DEF Doublings
<1>3. ASSUME NEW k \in Nat PROVE f[k] \in Nat /\ f[k + 1] = 2 * f[k]
  <2>1. Doublings(k, g(k)) /\ Doublings(k + 1, g(k + 1)) /\ k + 1 \in Nat
    BY <1>1
  <2>2. g(k)[k] = g(k + 1)[k]
    BY <2>1, DoublingsAgree
  <2>3. g(k)[k] \in Nat
    <3>1. g(k) \in [0..k -> Nat] /\ k \in 0..k
      BY <2>1 DEF Doublings
    <3> QED
      BY <3>1
  <2>4. g(k + 1)[k + 1] = 2 * g(k + 1)[k]
    <3>1. k + 1 \in 1..(k + 1) /\ (k + 1) - 1 = k
      OBVIOUS
    <3> QED
      BY <2>1, <3>1 DEF Doublings
  <2> QED
    BY <2>1, <2>2, <2>3, <2>4
<1>4. f = [k \in Nat |-> IF k = 0 THEN MinDelay ELSE 2 * f[k - 1]]
  <2>1. \A k \in Nat : f[k] = IF k = 0 THEN MinDelay ELSE 2 * f[k - 1]
    <3>1. SUFFICES ASSUME NEW k \in Nat, k # 0 PROVE f[k] = 2 * f[k - 1]
      BY <1>2
    <3>2. k - 1 \in Nat /\ (k - 1) + 1 = k
      BY <3>1
    <3> HIDE DEF f
    <3> QED
      BY <1>3, <3>2
  <2>2. f = [k \in Nat |-> f[k]]
    OBVIOUS
  <2> HIDE DEF f
  <2> QED
    BY <2>1, <2>2
<1> HIDE DEF f
<1>5. Doubled = [k \in Nat |-> IF k = 0 THEN MinDelay ELSE 2 * Doubled[k - 1]]
  BY <1>4 DEF Doubled
<1> DEFINE d == Doubled
<1>6. d = [k \in Nat |-> IF k = 0 THEN MinDelay ELSE 2 * d[k - 1]]
  BY <1>5
<1> HIDE DEF d
<1>7. d[0] = MinDelay
  BY <1>6
<1>8. ASSUME NEW k \in Nat PROVE d[k + 1] = 2 * d[k]
  <2>1. k + 1 \in Nat /\ k + 1 # 0 /\ (k + 1) - 1 = k
    OBVIOUS
  <2> QED
    BY <1>6, <2>1
<1>9. \A k \in Nat : d[k] = f[k]
  <2> DEFINE Bad == {k \in Nat : d[k] # f[k]}
  <2>1. SUFFICES ASSUME Bad # {} PROVE FALSE
    OBVIOUS
  <2>2. PICK m \in Bad : \A x \in Bad : m <= x
    <3>1. Bad \in SUBSET Nat
      OBVIOUS
    <3> HIDE DEF Bad
    <3> QED
      BY <2>1, <3>1, LeastExists
  <2>3. m \in Nat /\ d[m] # f[m]
    OBVIOUS
  <2>4. m # 0
    BY <1>2, <1>7, <2>3
  <2>5. m - 1 \in Nat /\ ~(m <= m - 1) /\ (m - 1) + 1 = m
    BY <2>3, <2>4
  <2>6. d[m - 1] = f[m - 1]
    BY <2>2, <2>5
  <2> QED
    BY <1>3, <1>8, <2>3, <2>5, <2>6
<1> QED
  BY <1>3, <1>7, <1>8, <1>9 DEF d

\* What a step does to the backoff.
LEMMA BackoffSteps == [Next]_vars => Reset \/ NextDelay \/ UNCHANGED backoffVars
<1> SUFFICES ASSUME [Next]_vars PROVE Reset \/ NextDelay \/ UNCHANGED backoffVars
  OBVIOUS
<1>1. CASE MqttWorker
  <2>1. CASE ConnectFails \/ LinkLost
    BY <2>1 DEF ConnectFails, LinkLost
  <2>2. CASE \/ \E present \in BOOLEAN : Connect(present)
             \/ Transmit \/ \E m \in Messages : Incoming(m)
    BY <2>2 DEF Connect, Transmit, Incoming
  <2>3. CASE EnqueueIngress \/ SubscribeNext \/ SleepEnds \/ WorkerStops
    BY <2>3 DEF EnqueueIngress, SubscribeNext, SleepEnds, WorkerStops, backoffVars
  <2> QED
    BY <1>1, <2>1, <2>2, <2>3 DEF MqttWorker
<1>2. CASE RouterWorker
  BY <1>2 DEF RouterWorker, RouterDispatch, RouterTelemetry, RouterStops, backoffVars
<1>3. CASE CommandWorker
  BY <1>3 DEF CommandWorker, CommandReceive, PublishCommand, CommandStops, backoffVars
<1>4. CASE (\E c \in Commands : EnqueueCommand(c)) \/ ShutdownBegins \/ Join
  BY <1>4 DEF EnqueueCommand, ShutdownBegins, Join, backoffVars
<1>5. CASE UNCHANGED vars
  BY <1>5 DEF vars, backoffVars
<1> QED
  BY <1>1, <1>2, <1>3, <1>4, <1>5 DEF Next

\* Twice a delay that was cut is cut where twice the whole one is.
LEMMA CutTwice ==
  ASSUME NEW a \in Nat, NEW b \in Nat
  PROVE  Smaller(2 * Smaller(a, b), b) = Smaller(2 * a, b)
BY DEF Smaller

\* A step keeps the delay in step with the number of errors.
LEMMA NextBackoff == TypeOK /\ BackoffDoubles /\ [Next]_vars => BackoffDoubles'
<1> SUFFICES ASSUME TypeOK, BackoffDoubles, [Next]_vars PROVE BackoffDoubles'
  OBVIOUS
<1>1. failures \in Nat /\ MinDelay \in Nat /\ MaxDelay \in Nat /\ MinDelay <= MaxDelay
  BY EngineAssumption DEF TypeOK
<1>2. CASE Reset
  <2>1. delay' = MinDelay /\ failures' = 0
    BY <1>2 DEF Reset
  <2> QED
    BY <1>1, <2>1, DoubledIs DEF BackoffDoubles, Smaller
<1>3. CASE NextDelay
  <2>1. slept' = delay /\ delay' = Smaller(2 * delay, MaxDelay) /\ failures' = failures + 1
    BY <1>3 DEF NextDelay
  <2>2. delay = Smaller(Doubled[failures], MaxDelay)
    BY DEF BackoffDoubles
  <2>3. Doubled[failures] \in Nat /\ Doubled[failures + 1] = 2 * Doubled[failures]
    BY <1>1, DoubledIs
  <2>4. delay' = Smaller(2 * Doubled[failures], MaxDelay)
    BY <1>1, <2>1, <2>2, <2>3, CutTwice
  <2>5. delay' = Smaller(Doubled[failures'], MaxDelay)
    BY <2>1, <2>3, <2>4
  <2>6. slept' = Smaller(Doubled[failures' - 1], MaxDelay)
    <3>1. failures' - 1 = failures
      BY <1>1, <2>1
    <3> QED
      BY <2>1, <2>2, <3>1
  <2> QED
    BY <2>5, <2>6 DEF BackoffDoubles
<1>4. CASE UNCHANGED backoffVars
  BY <1>4 DEF backoffVars, BackoffDoubles
<1> QED
  BY <1>2, <1>3, <1>4, BackoffSteps

\* The k-th error in a row waits for the shortest delay doubled k - 1 times, cut
\* at the longest, for every bound on errors and whatever happens in between
\* (ExponentialBackoff::next_delay and reset).
THEOREM DelaysDouble == Spec => []BackoffDoubles
<1>1. Init => BackoffDoubles
  BY DoubledIs, EngineAssumption DEF Init, BackoffDoubles, Smaller
<1>2. TypeOK /\ BackoffDoubles /\ [Next]_vars => BackoffDoubles'
  BY NextBackoff
<1> QED
  BY <1>1, <1>2, TypesHold, PTL DEF Spec
=============================================================================
