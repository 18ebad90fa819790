------------------------------ MODULE Realtime ------------------------------
(***************************************************************************)
(* One client of the realtime stream, over SSE or over a WebSocket, of the *)
(* management API (api/src/realtime.rs) or of the bridge of the core       *)
(* (core/src/web/realtime), which are written alike.                       *)
(*                                                                         *)
(*   broadcast channel -> SSE stream -> client                             *)
(*   broadcast channel -> telemetry task -> send queue -> socket loop      *)
(*                                                -> client                *)
(*                                                                         *)
(* The socket loop also handles what the client sends: it puts replies     *)
(* into the send queue and new filters into a watch channel that the       *)
(* telemetry task reads.  Clients share nothing but the broadcast channel, *)
(* which no receiver can hold up, so one client is enough.                 *)
(*                                                                         *)
(* A text is the sequence of levels that split('/') returns (Topics); <<>> *)
(* stands for a value that is absent.                                      *)
(***************************************************************************)
EXTENDS Topics, FiniteSets

CONSTANTS
  Events,             \* what may be published: topic, device, type, route
  Filters,            \* filters that a client may ask for
  Requests,           \* commands that a client of the bridge may send
  ChannelCapacity,    \* capacity of the broadcast channel
  ClientBuffer,       \* WEBSOCKET_CLIENT_BUFFER
  MaxCommandPayload,  \* DEFAULT_COMMAND_MAX_PAYLOAD_BYTES
  MaxInputs           \* bound: events published and messages of the client

ASSUME RealtimeAssumption ==
  /\ ChannelCapacity \in Nat \ {0} /\ ClientBuffer \in Nat \ {0}
  /\ MaxCommandPayload \in Nat
  /\ MaxInputs \in Nat

VARIABLES
  bridge,      \* the client is one of the bridge, not of the API
  transport,   \* "ws" or "sse"
  published,   \* every event given to the broadcast channel
  channel,     \* "open", or "closed" once the runtime has dropped its sender
  first,       \* how many events there were when the receiver was made
  cursor,      \* the last event that the receiver has taken or skipped
  asked,       \* filters asked for so far; the watch channel holds the last
  seen,        \* the telemetry task has seen the last value of the watch
  task,        \* where the telemetry task or the SSE stream stands
  held,        \* the frame it is about to send
  queue,       \* send queue of the socket
  socket,      \* "none", "refused", "open", "closing", "closed"
  written,     \* frames that were written to the client
  lost,        \* history: events whose frame found the send queue full
  messages     \* number of messages the client has sent

streamVars == <<published, channel>>
clientVars == <<bridge, transport, first>>
rtVars == <<bridge, transport, published, channel, first, cursor, asked, seen,
            task, held, queue, socket, written, lost, messages>>

-----------------------------------------------------------------------------
(* Filters *)

Absent == <<>>

\* normalize_optional()
NormalizeOptional(text) == IF Blank(text) THEN Absent ELSE text

Normalized(f) == [k \in DOMAIN f |-> NormalizeOptional(f[k])]

\* validate_topic_like() and validate_simple_filter_value()
TopicLikeOk(text) == ~Blank(text) /\ \A i \in DOMAIN text : ~Wild(text[i])
SimpleValueOk(text) == ~Blank(text) /\ Len(text) = 1 /\ ~Wild(text[1])

\* validate_filter() of the bridge, and of the API, which has a route too.
BridgeFilterOk(f) ==
  /\ \A k \in {"topic", "prefix"} : f[k] # Absent => TopicLikeOk(f[k])
  /\ \A k \in {"device", "type"} : f[k] # Absent => SimpleValueOk(f[k])
ApiFilterOk(f) ==
  BridgeFilterOk(f) /\ (f.route # Absent => SimpleValueOk(f.route))

\* parse_filter(): the API normalizes and validates, the bridge validates
\* what came and normalizes then, so a blank value is refused there.
ApiParseOk(f) == ApiFilterOk(Normalized(f))
BridgeParseOk(f) == BridgeFilterOk(f)

\* topic_matches_prefix(): equal, or followed by a '/'.
TopicMatchesPrefix(topic, prefix) ==
  Len(prefix) <= Len(topic) /\ SubSeq(topic, 1, Len(prefix)) = prefix

\* telemetry_device() and telemetry_event_type(): what the bridge reads from
\* the topic; the API has the values of the normalized event.
DeviceTopic(topic) == topic[1] \in {"devices", "device"} /\ Len(topic) > 1
TelemetryDevice(topic) ==
  IF DeviceTopic(topic) /\ topic[2] # "" THEN <<topic[2]>> ELSE Absent
TelemetryEventType(topic) ==
  IF DeviceTopic(topic) /\ Len(topic) > 2
  THEN CASE topic[3] \in {"telemetry", "status"} -> <<topic[3]>>
         [] topic[3] = "event" /\ Len(topic) > 3 ->
              NormalizeOptional(<<topic[4]>>)
         [] OTHER -> Absent
  ELSE Absent

Has(value, expected) == expected # Absent => value = expected

\* TelemetryFilter::matches() of the bridge.
BridgeMatches(f, e) ==
  /\ Has(TelemetryDevice(e.topic), f.device)
  /\ Has(e.topic, f.topic)
  /\ f.prefix # Absent => TopicMatchesPrefix(e.topic, f.prefix)
  /\ Has(TelemetryEventType(e.topic), f.type)

\* RealtimeFilter::matches() of the API.
ApiMatches(f, e) ==
  /\ Has(e.device, f.device)
  /\ Has(e.topic, f.topic)
  /\ f.prefix # Absent => TopicMatchesPrefix(e.topic, f.prefix)
  /\ Has(e.type, f.type)
  /\ Has(e.route, f.route)

Matches(f, e) == IF bridge THEN BridgeMatches(f, e) ELSE ApiMatches(f, e)

-----------------------------------------------------------------------------
(* The broadcast channel *)

\* The guards on the socket are bounds: nothing happens to a client that is
\* gone.
Publish ==
  /\ channel = "open" /\ Len(published) + messages < MaxInputs
  /\ socket \notin {"refused", "closed"}
  /\ \E e \in Events : published' = Append(published, e)
  /\ UNCHANGED <<bridge, transport, channel, first, cursor, asked, seen, task,
                 held, queue, socket, written, lost, messages>>

\* The runtime is shut down or replaced by a reload and drops its sender.
\* The bridge keeps a handle on the bus, and with it a sender, for each client.
CloseChannel ==
  /\ channel = "open" /\ ~bridge /\ socket \notin {"refused", "closed"}
  /\ channel' = "closed"
  /\ UNCHANGED <<bridge, transport, published, first, cursor, asked, seen,
                 task, held, queue, socket, written, lost, messages>>

\* The channel keeps the last events only.
Oldest == IF Len(published) > ChannelCapacity
          THEN Len(published) - ChannelCapacity ELSE 0

-----------------------------------------------------------------------------
(* Connecting *)

\* prepare_subscription(): the filter, then a receiver of the runtime; the
\* bridge has one at hand.
Subscribe(f) ==
  LET ok == /\ IF bridge THEN BridgeParseOk(f) ELSE ApiParseOk(f)
            /\ channel = "open"
  IN  /\ asked' = IF ok THEN <<Normalized(f)>> ELSE asked
      /\ socket' = IF ok THEN "open" ELSE "refused"
      /\ task' = IF ok THEN "start" ELSE task
      /\ first' = Len(published) /\ cursor' = Len(published)
      /\ UNCHANGED <<bridge, streamVars, seen, held, queue, written, lost,
                     messages>>

\* realtime_ws() and realtime_sse()
ConnectWs ==
  socket = "none" /\ transport' = "ws" /\ \E f \in Filters : Subscribe(f)

ConnectSse ==
  socket = "none" /\ transport' = "sse" /\ \E f \in Filters : Subscribe(f)

-----------------------------------------------------------------------------
(* Sending.  A frame has the filter it names, by its place in asked, the    *)
(* event it holds, or the number of events skipped and the last of them.    *)

Frame(kind, n, at) == [kind |-> kind, n |-> n, at |-> at]
ReadyFrame(version) == Frame("ready", version, 0)
FilterFrame(version) == Frame("filter", version, 0)
EventFrame(i) == Frame("event", 1, i)
LaggedFrame(skipped, at) == Frame("lagged", skipped, at)
ErrorFrame == Frame("error", 0, 0)
QueuedFrame == Frame("command_queue", 0, 0)
CloseFrame == Frame("close", 0, 0)
NoFrame == Frame("none", 0, 0)

\* The events that a frame tells the client about: the one it holds, or those
\* it says were skipped.
Told(frame) == IF frame.kind \in {"event", "lagged"}
               THEN (frame.at - frame.n + 1)..frame.at ELSE {}

Room == Len(queue) < ClientBuffer

\* send_json_message() of the telemetry task up to the first try_send(); an
\* SSE stream yields the frame.
Send ==
  /\ task = "send"
  /\ IF transport = "sse"
     THEN /\ written' = Append(written, held) /\ task' = "run"
          /\ UNCHANGED <<queue, lost>>
     ELSE IF Room
     THEN /\ queue' = Append(queue, held) /\ task' = "run"
          /\ UNCHANGED <<written, lost>>
     ELSE /\ task' = "overflow" /\ lost' = lost \cup Told(held)
          /\ UNCHANGED <<queue, written>>
  /\ held' = NoFrame
  /\ UNCHANGED <<clientVars, streamVars, cursor, asked, seen, socket, messages>>

\* The queue was full: the close message is tried on the same queue, in which
\* the socket loop may have made room, and the task ends either way.
SendClose ==
  /\ task = "overflow"
  /\ queue' = IF Room THEN Append(queue, CloseFrame) ELSE queue
  /\ task' = "ended"
  /\ UNCHANGED <<clientVars, streamVars, cursor, asked, seen, held, socket,
                 written, lost, messages>>

-----------------------------------------------------------------------------
(* The telemetry task, and the SSE stream, which never meets FilterChanged *)

\* The bridge makes the receiver of a WebSocket only now.
Start ==
  /\ task = "start"
  /\ IF bridge /\ transport = "ws"
     THEN first' = Len(published) /\ cursor' = Len(published)
     ELSE UNCHANGED <<first, cursor>>
  /\ task' = "send" /\ held' = ReadyFrame(1)
  /\ UNCHANGED <<bridge, transport, streamVars, asked, seen, queue, socket,
                 written, lost, messages>>

\* filter_rx.changed()
FilterChanged ==
  /\ task = "run" /\ ~seen
  /\ seen' = TRUE /\ task' = "changed"
  /\ UNCHANGED <<clientVars, streamVars, cursor, asked, held, queue, socket,
                 written, lost, messages>>

\* rx.recv() has an event.
RecvEvent ==
  /\ task = "run" /\ Oldest <= cursor /\ cursor < Len(published)
  /\ cursor' = cursor + 1 /\ task' = "event"
  /\ UNCHANGED <<clientVars, streamVars, asked, seen, held, queue, socket,
                 written, lost, messages>>

\* Mutant: the filter of the connection is used for ever.
InForceAtConnect == 1

\* filter_rx.borrow(): the last value, whether changed() has told of it or not.
InForce == Len(asked)

\* What changed() or recv() leads to; the socket loop may have set a filter
\* in between, and may set one before the frame is sent.
Judge ==
  /\ \/ /\ task = "changed"
        /\ task' = "send" /\ held' = FilterFrame(Len(asked))
     \/ /\ task = "event"
        /\ IF Matches(asked[InForce], published[cursor])
           THEN task' = "send" /\ held' = EventFrame(cursor)
           ELSE task' = "run" /\ UNCHANGED held
  /\ UNCHANGED <<clientVars, streamVars, cursor, asked, seen, queue, socket,
                 written, lost, messages>>

\* Mutant: a lagging receiver goes on without a word.
RecvLaggedSilent ==
  /\ task = "run" /\ cursor < Oldest
  /\ cursor' = Oldest
  /\ UNCHANGED <<clientVars, streamVars, asked, seen, task, held, queue, socket,
                 written, lost, messages>>

\* rx.recv() returns Lagged and moves on to the oldest event kept.
RecvLagged ==
  /\ task = "run" /\ cursor < Oldest
  /\ cursor' = Oldest
  /\ task' = "send" /\ held' = LaggedFrame(Oldest - cursor, Oldest)
  /\ UNCHANGED <<clientVars, streamVars, asked, seen, queue, socket, written,
                 lost, messages>>

\* Mutant: Closed is handled like Lagged.
RecvClosedContinue ==
  /\ task = "run" /\ channel = "closed" /\ cursor = Len(published)
  /\ UNCHANGED rtVars

\* rx.recv() returns Closed.  An SSE response ends with its stream; the
\* socket loop goes on.
RecvClosed ==
  /\ task = "run" /\ channel = "closed" /\ cursor = Len(published)
  /\ task' = "ended"
  /\ socket' = IF transport = "sse" THEN "closed" ELSE socket
  /\ UNCHANGED <<clientVars, streamVars, cursor, asked, seen, held, queue,
                 written, lost, messages>>

-----------------------------------------------------------------------------
(* The socket loop *)

\* The loop breaks: the telemetry task is aborted, the queue is dropped.  The
\* history is forgotten with the client.
Hangup ==
  /\ socket' = "closed" /\ task' = "ended" /\ held' = NoFrame /\ queue' = <<>>
  /\ written' = <<>> /\ lost' = {}

\* outbound = client_rx.recv(): there is always a sender, the loop's own.
\* After a close message nothing can be written.
WriteOut ==
  /\ transport = "ws" /\ socket \in {"open", "closing"} /\ queue # <<>>
  /\ IF socket = "closing" THEN Hangup
     ELSE /\ written' = Append(written, Head(queue))
          /\ queue' = Tail(queue)
          /\ socket' = IF Head(queue) = CloseFrame THEN "closing" ELSE socket
          /\ UNCHANGED <<task, held, lost>>
  /\ UNCHANGED <<clientVars, streamVars, cursor, asked, seen, messages>>

\* The socket takes nothing for WEBSOCKET_SEND_TIMEOUT, a frame or a ping; the
\* client closes, answers a close or is gone.  An SSE client goes away.
Disconnect ==
  /\ socket \in {"open", "closing"}
  /\ Hangup
  /\ UNCHANGED <<clientVars, streamVars, cursor, asked, seen, messages>>

\* send_json_message() of the socket loop; nobody else makes room.
Reply(frame) ==
  IF Room
  THEN queue' = Append(queue, frame) /\ UNCHANGED <<socket, task, held, written, lost>>
  ELSE Hangup

ClientSends ==
  /\ transport = "ws" /\ socket \in {"open", "closing"}
  /\ Len(published) + messages < MaxInputs
  /\ messages' = messages + 1

\* Subscribe: the API closes on an invalid filter, the bridge takes any; a
\* watch channel without a receiver refuses the value.
ClientSubscribe ==
  /\ ClientSends
  /\ \E f \in Filters :
       IF (~bridge /\ ~ApiFilterOk(Normalized(f))) \/ task = "ended"
       THEN Hangup /\ UNCHANGED <<asked, seen>>
       ELSE /\ asked' = Append(asked, Normalized(f)) /\ seen' = FALSE
            /\ UNCHANGED <<socket, task, held, queue, written, lost>>
  /\ UNCHANGED <<clientVars, streamVars, cursor>>

\* Ping is answered with the filter in the watch channel.
ClientPing ==
  /\ ClientSends
  /\ Reply(ReadyFrame(Len(asked)))
  /\ UNCHANGED <<clientVars, streamVars, cursor, asked, seen>>

\* Neither text, nor UTF-8, nor a known message.
ClientMalformed ==
  /\ ClientSends
  /\ Reply(ErrorFrame)
  /\ UNCHANGED <<clientVars, streamVars, cursor, asked, seen>>

\* normalize_segment(); over stands for a text that is too long.
SegmentOk(text) == SimpleValueOk(text) /\ text # <<"over">>

\* CommandRequest::validate()
RequestOk(r) ==
  SegmentOk(r.device) /\ SegmentOk(r.command) /\ r.size <= MaxCommandPayload

\* enqueue_command(): the command queue of the bus may be full or closed.
CommandReply(r, accepted) ==
  IF RequestOk(r) /\ accepted THEN QueuedFrame ELSE ErrorFrame

ClientCommand ==
  /\ bridge /\ ClientSends
  /\ \E r \in Requests, accepted \in BOOLEAN :
       Reply(CommandReply(r, accepted))
  /\ UNCHANGED <<clientVars, streamVars, cursor, asked, seen>>

-----------------------------------------------------------------------------
RealtimeInit ==
  /\ bridge \in BOOLEAN
  /\ transport = "ws"
  /\ published = <<>> /\ channel = "open"
  /\ first = 0 /\ cursor = 0 /\ asked = <<>> /\ seen = TRUE
  /\ task = "none" /\ held = NoFrame /\ queue = <<>> /\ socket = "none"
  /\ written = <<>> /\ lost = {} /\ messages = 0

Telemetry ==
  \/ Start \/ FilterChanged \/ RecvEvent \/ RecvLagged \/ RecvClosed
  \/ Judge \/ Send \/ SendClose

\* handle_client_message()
ClientMessage ==
  \/ ClientSubscribe \/ ClientPing \/ ClientMalformed \/ ClientCommand

\* The branches of the socket loop's select!.
SocketLoop == WriteOut \/ Disconnect \/ ClientMessage

RealtimeNext ==
  \/ Publish \/ CloseChannel \/ ConnectWs \/ ConnectSse
  \/ Telemetry \/ SocketLoop

\* The runtime polls the two tasks of a socket: an enabled step of the
\* telemetry task, which never waits for room, and the writing of a queued
\* frame, which ends or times out.  Nothing obliges a client to send, to close
\* or to hang up, except to answer a close, nor an SSE client to read: its
\* stream has no task of its own and no timeout, and is polled only while the
\* HTTP connection takes data.
RealtimeFairness ==
  /\ WF_rtVars(transport = "ws" /\ Telemetry)
  /\ WF_rtVars(WriteOut)
  /\ WF_rtVars(socket = "closing" /\ Disconnect)

RealtimeSpec == RealtimeInit /\ [][RealtimeNext]_rtVars /\ RealtimeFairness

-----------------------------------------------------------------------------
(* Properties *)

Sent == written \o queue
OfKind(kind) == {k \in DOMAIN Sent : Sent[k].kind = kind}

\* A client that is still connected can account for the stream: frames tell of
\* events in the order they were published and of no event twice, and every
\* event that the receiver has gone past was told of, was kept back by a filter
\* the client had asked for, or is the one that ended the stream when the send
\* queue was full (realtime.rs, telemetry task and SSE loop).
StreamAccounts ==
  /\ \A k, l \in DOMAIN Sent :
       k < l => \A i \in Told(Sent[k]), j \in Told(Sent[l]) : i < j
  /\ socket = "open" =>
       \A i \in (first + 1)..cursor :
         \/ \E k \in DOMAIN Sent : i \in Told(Sent[k])
         \/ \E v \in DOMAIN asked : ~Matches(asked[v], published[i])
         \/ i \in Told(held) \/ (i = cursor /\ task = "event")
         \/ i \in lost /\ task \in {"overflow", "ended"}

\* Once FilterUpdated has told the client of a filter, no event comes that
\* only an older filter lets through, although the socket loop changes filters
\* while the telemetry task judges or sends (realtime.rs, filter_rx.borrow()).
FilterHonoured ==
  \A k \in OfKind("filter"), l \in OfKind("event") :
    k < l => \E v \in DOMAIN asked :
               v >= Sent[k].n /\ Matches(asked[v], published[Sent[l].at])

\* The connection of an SSE client goes on taking data.
SseReads == WF_rtVars(transport = "sse" /\ Telemetry)

\* A runtime that has dropped its sender leaves no stream behind: the events
\* still in the channel are drained and the telemetry task ends, whatever the
\* client of a WebSocket does; so does an SSE response, if its client reads
\* (realtime.rs, RecvError::Closed).
StreamsEnd ==
  SseReads => ((channel = "closed") ~> (task \in {"none", "ended"}))

\* "Full queues are treated as slow clients and closed": a socket whose send
\* queue was full for the telemetry task does not stay open.
SlowClientClosed ==
  (task = "overflow") ~> (socket = "closed")
=============================================================================
