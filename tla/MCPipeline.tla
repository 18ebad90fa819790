----------------------------- MODULE MCPipeline -----------------------------
(* A configuration, variations of it that differ in one place each, and the *)
(* messages that tell its routes and rules apart.                           *)
EXTENDS Pipeline

Num(n) == <<"number", n>>
Str(text) == <<"string", text>>
Word(w) == <<"text", <<w>>>>
Param(name) == <<"param", <<name>>>>

Temp == <<"extracted", "temp">>
Hot == <<"gt", <<"field", Temp>>, <<"literal", Num(3)>>>>
HasTemp == <<"exists", Temp>>
IsX == <<"eq", <<"field", <<"device">>>>, <<"literal", Str(<<"x">>)>>>>
Tagged == <<"contains", <<"field", <<"payload", <<"tag">>>>>>, <<"literal", Str(<<"on">>)>>>>
NotX == <<"not", IsX>>
HotOrX == <<"or", <<IsX, Hot>>>>
HotAndNotX == <<"and", <<HasTemp, NotX, HotOrX>>>>
Hollow == <<"and", <<>>>>
Deep == <<"not", HotAndNotX>>
MCConditions == {Hot, HasTemp, IsX, Tagged, NotX, HotOrX, HotAndNotX, Hollow, Deep}

Broker(id, on) == [id |-> id, enabled |-> on, named |-> TRUE, port |-> 1883,
                   keepAlive |-> 30, minDelay |-> 1, maxDelay |-> 60]
Route(id, filter, codec, mapping, device, qos, on) ==
  [id |-> id, broker |-> "b1", filter |-> filter, codec |-> codec, mapping |-> mapping,
   device |-> device, qos |-> qos, enabled |-> on, backpressure |-> "reject", named |-> TRUE]
Rule(id, trigger, condition, actions) ==
  [id |-> id, enabled |-> TRUE, trigger |-> trigger, condition |-> condition,
   actions |-> actions]
Template(id, topic, payload) ==
  [id |-> id, broker |-> "b1", enabled |-> TRUE, named |-> TRUE,
   topic |-> Spell(topic), topicPieces |-> topic,
   payload |-> [i \in DOMAIN payload |-> <<"string", Spell(payload[i])>>],
   payloadPieces |-> payload]
Sink(id, url) == [id |-> id, enabled |-> TRUE, kind |-> "webhook", url |-> url,
                  headersOk |-> TRUE, timeout |-> 5]
MapField(source, type, required, default) ==
  [source |-> <<source>>, target |-> source, type |-> type, required |-> required,
   default |-> default]

Topic1 == <<Word("d"), <<"text", <<"/">>>>, Param("id"), <<"text", <<"/", "set">>>>>>
Plain == Template("t1", Topic1, << <<Param("v")>>, <<Word("v="), Param("v"), Word(";")>> >>)
Between == Template("t1", Topic1, << <<Param("v"), Word("-"), Param("id")>> >>)
Twice == Template("t1", <<Param("id"), <<"text", <<"/">>>>, Param("id")>>,
                  << <<Word("v="), Param("v")>>, <<Param("v"), Word("!")>> >>)
Unclosed == Template("t1", <<Word("d"), <<"text", <<"{", "id">>>>>>, <<>>)
Alike == [Template("t1", <<Param("id"), <<"param", <<"a", "/", "{">>>>>>, << <<Param("v")>>, <<>> >>)
            EXCEPT !.payload = Append(@, Num(1))]
Bare == Template("t1", <<Param("id")>>, <<>>)
Endless == Template("t1", Append(Topic1, <<"text", <<"/", "now">>>>), <<>>)

Params(id, v) == (<<"id">> :> id) @@ (<<"v">> :> v) @@ (<<"a", "/", "{">> :> Num(1))

Alarm == Rule("alarm", <<"event">>, Hot,
  << <<"metadata", "level", "high">>, <<"stream">>, <<"metadata", "level", "top">>,
     <<"forward", "s1">>, <<"metadata", "zone", "z">>, <<"forward", "s1">> >>)
Switch(params) == Rule("switch", <<"route", "all">>, Absent,
  << <<"command", "t1", params>>, <<"command", "t1", params>>, <<"drop">>, <<"stream">> >>)
Tag == Rule("tag", <<"event">>, Tagged, << <<"stream">> >>)
Audit == Rule("audit", <<"event">>, HotAndNotX, << <<"forward", "s1">> >>)

Base ==
  [enabled |-> TRUE,
   brokers |-> <<Broker("b1", TRUE), Broker("b2", FALSE)>>,
   routes |-> <<Route("off", <<"#">>, "raw", "none", <<"none">>, 0, FALSE),
                Route("temp", <<"d", "+", "t", "+">>, "json", "m1", <<"wildcard", 1>>, 1, TRUE),
                Route("all", <<"d", "#">>, "raw", "none", <<"wildcard", 0>>, 0, TRUE),
                Route("copy", <<"d", "#">>, "json", "none", <<"none">>, 2, TRUE)>>,
   mappings |-> <<[id |-> "m1", fields |-> <<MapField("temp", "number", TRUE, Absent),
                                             MapField("unit", "string", FALSE, Str(<<"c">>))>>]>>,
   rules |-> <<Alarm, Switch(Params(Str(<<"x">>), Num(5))), Tag>>,
   templates |-> <<Plain>>,
   sinks |-> <<Sink("s1", "https"), [Sink("s2", "https") EXCEPT !.kind = "database"]>>]

\* Everything, and the topics of the server.
CatchAll == Route("any", <<"#">>, "raw", "none", <<"none">>, 0, TRUE)
Server == Route("server", <<"$SYS", "#">>, "raw", "none", <<"none">>, 0, TRUE)

Commands(template, params) ==
  [Base EXCEPT !.rules = <<Switch(params)>>, !.templates = <<template>>]

\* The templates and parameters worth telling apart.
Rendering ==
  {Commands(t, Params(id, v)) :
     t \in {Plain, Between, Twice, Unclosed},
     id \in {Str(<<"x">>), Str(<<"x", "/", "y">>), Num(7)},
     v \in {Num(5), <<"object", <<>>>>, Str(<<"a", "}">>), Str(<<"a", "b", "c", "e", "f">>)}}
  \cup {Commands(t, Params(id, <<"object", <<>>>>)) :
          t \in {Alike, Bare}, id \in {Str(<<"x">>), Str(<<>>), Str(<<" ">>)}}
  \cup {Commands(t, Params(Str(<<"a", "b", "c", "e", "f">>), Num(5))) : t \in {Plain, Bare}}

\* One edit each, most of which a gate refuses.
Edits ==
  {[Base EXCEPT !.enabled = FALSE],
   [Base EXCEPT !.brokers[2].enabled = TRUE],
   [Base EXCEPT !.brokers[1].keepAlive = 4],
   [Base EXCEPT !.routes[2].filter = <<"d", "#", "t">>],
   [Base EXCEPT !.routes[2].mapping = "m2"],
   [Base EXCEPT !.routes[2].backpressure = "drop_oldest"],
   [Base EXCEPT !.routes[2].device = <<"field", <<"id">>>>],
   [Base EXCEPT !.routes[3].broker = "b2"],
   [Base EXCEPT !.routes[4].id = "all"],
   [Base EXCEPT !.routes = <<@[1], @[3], @[2]>>],
   [Base EXCEPT !.routes[2].filter = <<"d", "+", "t", "+", "+">>],
   [Base EXCEPT !.routes = <<CatchAll, Server>>],
   [Base EXCEPT !.routes = <<[CatchAll EXCEPT !.filter = <<"+", "up">>, !.device = <<"wildcard", 0>>],
                             Server>>],
   [Base EXCEPT !.routes = <<CatchAll>>],
   [Base EXCEPT !.rules[1].actions = <<>>],
   [Base EXCEPT !.rules[1].actions[1] = <<"metadata", "pipe_bolt.", "x">>],
   [Base EXCEPT !.rules[1].actions = @ \o <<@[2], @[2]>>],
   [Base EXCEPT !.rules[1].trigger = <<"command", "t1">>],
   [Base EXCEPT !.rules[1].condition = Hollow],
   [Base EXCEPT !.rules[1].condition = Deep],
   [Base EXCEPT !.rules[1].condition = HotAndNotX],
   [Base EXCEPT !.rules = @ \o <<Audit, Audit>>],
   [Base EXCEPT !.rules = @ \o <<Audit, [Audit EXCEPT !.id = "audit2"]>>],
   [Base EXCEPT !.rules = <<[Alarm EXCEPT !.trigger = <<"route", "all">>, !.condition = Absent],
                            @[2]>>],
   [Base EXCEPT !.templates[1].enabled = FALSE],
   [Base EXCEPT !.templates[1].broker = "b2"],
   [Base EXCEPT !.templates = <<>>],
   [Base EXCEPT !.templates = <<Endless>>],
   [Base EXCEPT !.sinks[1].enabled = FALSE],
   [Base EXCEPT !.sinks[1].url = "http"],
   [Base EXCEPT !.sinks[1].headersOk = FALSE],
   [Base EXCEPT !.sinks[1].timeout = 0],
   [Base EXCEPT !.sinks[2].id = "s1"],
   [Base EXCEPT !.sinks[1].kind = "database"],
   [Base EXCEPT !.sinks = <<>>]}

MCConfigs == {Base} \cup Edits \cup Rendering

Message(topic, json, size, depth) ==
  [topic |-> topic, json |-> json, size |-> size, depth |-> depth]
Reading(value) == <<"object", ("temp" :> value) @@ ("tag" :> Str(<<"is", "on">>))>>

MCMessages ==
  {Message(<<"d", "x", "t", "y">>, Reading(Num(5)), 2, 2),
   Message(<<"d", "x", "t", "x">>, Reading(Num(5)), 3, 2),
   Message(<<"d", "x", "t", "x">>, Reading(Num(2)), 2, 2),
   Message(<<"d", "x", "t", "y">>, Reading(Str(<<"hot">>)), 2, 2),
   Message(<<"d", "x", "t", "y">>, Reading(Num(5)), 2, 9),
   Message(<<"d">>, Absent, 1, 0),
   Message(<<"d", "x", "">>, Absent, 9, 0),
   Message(<<"d", "x", "t", "y", "z">>, Absent, 1, 0),
   Message(<<"$SYS", "up">>, Absent, 1, 0),
   Message(<<"e">>, Absent, 1, 0)}
=============================================================================
