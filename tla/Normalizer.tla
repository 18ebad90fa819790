----------------------------- MODULE Normalizer -----------------------------
(***************************************************************************)
(* From an MQTT message and the route that matched it to a normalized      *)
(* event, or to no event at all: any error on the way costs the message.   *)
(***************************************************************************)
EXTENDS Topics, Rules, Templates

CONSTANTS
  MaxPayloadSize,   \* NormalizerLimits.max_payload_size_bytes
  MaxRawSize,       \* NormalizerLimits.max_raw_payload_size_bytes
  MaxJsonDepth,     \* NormalizerLimits.max_json_depth
  MaxFields,        \* NormalizerLimits.max_extracted_fields
  RetainRaw         \* NormalizerLimits.retain_raw_payload

ASSUME NormalizerAssumption ==
  /\ {MaxPayloadSize, MaxRawSize, MaxJsonDepth, MaxFields} \subseteq Nat
  /\ RetainRaw \in BOOLEAN

Error == <<"error">>

\* A topic as one text.
Join(levels) ==
  FlattenSeq([i \in DOMAIN levels |-> IF i = 1 THEN <<levels[i]>> ELSE <<"/", levels[i]>>])

\* TopicRouteConfig::validate(): the texts, and the filter.
RouteOk(route) ==
  /\ route.named
  /\ TopicTextOk(Join(route.filter)) /\ DomainFilterOk(route.filter)

\* decode_payload(): a message holds Absent where its payload is no JSON.
DecodePayload(codec, message) ==
  IF codec = "raw" THEN <<"raw">>
  ELSE IF message.json = Absent \/ message.depth > MaxJsonDepth THEN Error
  ELSE <<"json", message.json>>

\* extract_device_id()
ExtractDeviceId(route, params, payload) ==
  CASE route.device[1] = "none" -> Absent
    [] route.device[1] = "static" -> <<"string", route.device[2]>>
    [] route.device[1] = "wildcard" ->
         IF route.device[2] < Len(params.single)
         THEN <<"string", <<params.single[route.device[2] + 1]>>>> ELSE Absent
    [] route.device[1] = "field" ->
         IF payload[1] = "raw" THEN Error
         ELSE LET value == JsonPath(payload[2], route.device[2])
              IN  CASE value = Absent -> Absent
                    [] value[1] \in {"string", "number", "bool"} ->
                         <<"string", ScalarText(value)>>
                    [] OTHER -> Error

\* extract_field() with coerce_field_value(): what one field of the mapping
\* gives, Absent for nothing.
ExtractField(field, json) ==
  LET value == JsonPath(json, field.source)
      coerced(v) == IF v[1] = field.type THEN v ELSE Error
  IN  CASE value # Absent -> coerced(value)
        [] value = Absent /\ field.required -> Error
        [] value = Absent /\ ~field.required ->
             IF field.default = Absent THEN Absent ELSE coerced(field.default)

\* extract_fields(), with the mapping of the route or with none: later fields
\* of the mapping replace earlier ones of the same name.
ExtractFields(mappings, payload) ==
  IF mappings = <<>> THEN [ok |-> TRUE, fields |-> <<>>]
  ELSE LET mapping == mappings[1] IN
       IF \/ Len(mapping.fields) > MaxFields
          \/ payload[1] # "json"
          \/ payload[1] = "json" /\ payload[2][1] # "object"
       THEN [ok |-> FALSE, fields |-> <<>>]
       ELSE
       LET got == [i \in DOMAIN mapping.fields |-> ExtractField(mapping.fields[i], payload[2])]
           some == {i \in DOMAIN got : got[i] # Absent}
           last(name) == Max({i \in some : mapping.fields[i].target = name})
       IN  [ok |-> \A i \in DOMAIN got : got[i] # Error,
            fields |-> [name \in {mapping.fields[i].target : i \in some} |-> got[last(name)]]]

\* build_raw_payload_ref(): a payload that is too large to be kept raw is an
\* error, not an event without it.
RawOk(message) == RetainRaw => message.size <= MaxRawSize

\* EventNormalizer::normalize()
Normalize(route, params, mappings, message) ==
  LET payload == DecodePayload(route.codec, message)
      device == IF payload = Error THEN Error ELSE ExtractDeviceId(route, params, payload)
      extracted == IF payload = Error THEN [ok |-> FALSE, fields |-> <<>>]
                   ELSE ExtractFields(mappings, payload)
  IN  [ok |-> /\ RouteOk(route)
              /\ message.size <= MaxPayloadSize
              /\ payload # Error /\ device # Error /\ extracted.ok
              /\ TopicTextOk(Join(message.topic)) /\ TopicNameOk(message.topic)
              /\ RawOk(message),
       event |-> [route |-> route.id, topic |-> Join(message.topic),
                  device |-> device, payload |-> payload, size |-> message.size,
                  fields |-> extracted.fields]]
=============================================================================
