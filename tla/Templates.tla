----------------------------- MODULE Templates ------------------------------
(***************************************************************************)
(* Rendering a command template: CommandTemplateRenderer.                  *)
(*                                                                         *)
(* A text is a sequence of tokens: "{", "}", "/", "+", "#", " ", "ctl" (a  *)
(* control character) and words.  A JSON value is a tuple that starts with *)
(* its type; a string is <<"string", text>>, a number <<"number", n>>.     *)
(***************************************************************************)
EXTENDS Naturals, Sequences, SequencesExt

CONSTANTS
  MaxPayload,   \* CommandTemplateRenderer.max_payload_bytes, in tokens
  MaxTopic      \* MAX_TOPIC_BYTES, in tokens

ASSUME MaxPayloadAssumption == {MaxPayload, MaxTopic} \subseteq Nat

OpenBrace == "{"
CloseBrace == "}"

Has(text, token) == \E i \in DOMAIN text : text[i] = token
First(text, token, from) ==
  CHOOSE i \in from..Len(text) :
    text[i] = token /\ \A j \in from..(i - 1) : text[j] # token
BlankText(text) == \A i \in DOMAIN text : text[i] = " "

\* validate_text() with the limit of topics.
TopicTextOk(text) == ~BlankText(text) /\ Len(text) <= MaxTopic /\ ~Has(text, "ctl")

\* Number::to_string() and bool::to_string(), as words.
Digits == [n \in 0..9 |-> <<"0", "1", "2", "3", "4", "5", "6", "7", "8", "9">>[n + 1]]
ScalarText(value) ==
  CASE value[1] = "string" -> value[2]
    [] value[1] = "number" -> <<Digits[value[2]]>>
    [] value[1] = "bool"   -> <<IF value[2] THEN "true" ELSE "false">>

Rendered(value) == [ok |-> TRUE, out |-> value]
Failed == [ok |-> FALSE, out |-> <<>>]

\* scalar_param(); a parameter is a key, a text, and its value.
ScalarParam(key, params) ==
  IF key \notin DOMAIN params \/ params[key][1] \notin {"string", "number", "bool"}
  THEN Failed
  ELSE Rendered(ScalarText(params[key]))

\* Mutant: the separators are let through.
TopicParamLoose(key, params) ==
  LET value == ScalarParam(key, params)
  IN  IF value.ok /\ value.out # <<>> THEN value ELSE Failed

\* topic_param(): one level, without wildcards or control characters.
TopicParam(key, params) ==
  LET value == ScalarParam(key, params)
  IN  IF /\ value.ok
         /\ value.out # <<>>
         /\ \A t \in {"/", "+", "#", "ctl"} : ~Has(value.out, t)
      THEN value ELSE Failed

\* render_text_template(): placeholders from left to right; a "}" that is left
\* in the output is an error.
RenderText(surface, text, params) ==
  LET rest[from \in 1..(Len(text) + 1)] ==
        LET tail == SubSeq(text, from, Len(text)) IN
        IF ~Has(tail, OpenBrace) THEN Rendered(tail)
        ELSE LET start == First(text, OpenBrace, from) IN
             IF ~Has(SubSeq(text, start + 1, Len(text)), CloseBrace) THEN Failed
             ELSE LET end == First(text, CloseBrace, start + 1)
                      key == SubSeq(text, start + 1, end - 1)
                      value == IF surface = "topic" THEN TopicParam(key, params)
                               ELSE ScalarParam(key, params)
                      more == rest[end + 1]
                  IN  IF BlankText(key) \/ ~value.ok \/ ~more.ok THEN Failed
                      ELSE Rendered(SubSeq(text, from, start - 1)
                                      \o value.out \o more.out)
      all == rest[1]
  IN  IF all.ok /\ ~Has(all.out, CloseBrace) THEN all ELSE Failed

\* render_payload_string(): a text that is one placeholder keeps the type of
\* its parameter; exact_placeholder_key() looks at the two ends only.
RenderPayloadString(text, params) ==
  IF Len(text) >= 2 /\ text[1] = OpenBrace /\ text[Len(text)] = CloseBrace
  THEN LET key == SubSeq(text, 2, Len(text) - 1)
       IN  IF ~BlankText(key) /\ key \in DOMAIN params
           THEN Rendered(params[key]) ELSE Failed
  ELSE LET out == RenderText("payload", text, params)
       IN  IF out.ok THEN Rendered(<<"string", out.out>>) ELSE Failed

\* render_payload_value(): the leaves of the payload template, in order.
RenderPayload(leaves, params) ==
  LET out == [i \in DOMAIN leaves |->
                IF leaves[i][1] = "string"
                THEN RenderPayloadString(leaves[i][2], params)
                ELSE Rendered(leaves[i])]
  IN  IF \A i \in DOMAIN out : out[i].ok
      THEN Rendered([i \in DOMAIN out |-> out[i].out]) ELSE Failed

\* payload.len(): the size of what is sent, in tokens.
SizeOf(values) ==
  Len(FlattenSeq([i \in DOMAIN values |->
    IF values[i][1] = "string" THEN values[i][2] ELSE <<values[i][1]>>]))

\* render_draft(): the topic, which TopicName::new() accepts, and the payload.
RenderDraft(template, params) ==
  LET topic == RenderText("topic", template.topic, params)
      payload == RenderPayload(template.payload, params)
  IN  IF /\ topic.ok /\ TopicTextOk(topic.out)
         /\ \A t \in {"+", "#"} : ~Has(topic.out, t)
         /\ payload.ok /\ SizeOf(payload.out) <= MaxPayload
      THEN [ok |-> TRUE, topic |-> topic.out, payload |-> payload.out]
      ELSE [ok |-> FALSE, topic |-> <<>>, payload |-> <<>>]
-----------------------------------------------------------------------------
\* What a template means, apart from how it is scanned: pieces, each a text or
\* the name of a parameter.
Spell(pieces) ==
  FlattenSeq([i \in DOMAIN pieces |->
    IF pieces[i][1] = "text" THEN pieces[i][2]
    ELSE <<OpenBrace>> \o pieces[i][2] \o <<CloseBrace>>])

\* The pieces of a text, which every text has: a name reaches up to the next
\* "}", and a text keeps a "{" only at the end, where no "}" follows it.
PiecesOk(pieces) ==
  /\ pieces \in Seq(ToSet(pieces))
  /\ \A i \in DOMAIN pieces :
       LET text == pieces[i][2]
       IN  /\ pieces[i][1] \in {"text", "param"} /\ text \in Seq(ToSet(text))
           /\ pieces[i][1] = "param" => ~Has(text, CloseBrace)
           /\ pieces[i][1] = "text" =>
                /\ text # <<>>
                /\ Has(text, OpenBrace) =>
                     /\ i = Len(pieces)
                     /\ \A j, k \in DOMAIN text :
                          text[j] = OpenBrace /\ text[k] = CloseBrace => k < j

\* Every text is free of braces and every parameter has a scalar value.
Meaningful(pieces, params) ==
  \A i \in DOMAIN pieces :
    IF pieces[i][1] = "text"
    THEN ~Has(pieces[i][2], OpenBrace) /\ ~Has(pieces[i][2], CloseBrace)
    ELSE /\ ~BlankText(pieces[i][2])
         /\ pieces[i][2] \in DOMAIN params
         /\ params[pieces[i][2]][1] \in {"string", "number", "bool"}

Substitute(pieces, params) ==
  FlattenSeq([i \in DOMAIN pieces |->
    IF pieces[i][1] = "text" THEN pieces[i][2] ELSE ScalarText(params[pieces[i][2]])])

\* The template's own texts.
Literals(pieces) ==
  FlattenSeq([i \in DOMAIN pieces |-> IF pieces[i][1] = "text" THEN pieces[i][2] ELSE <<>>])

\* A placeholder that is a text by itself.
Alone(pieces) == Len(pieces) = 1 /\ pieces[1][1] = "param"

\* A text the renderer reads piece by piece: not so a payload text between two
\* placeholders, which it takes for one, and a value with a closing brace, for
\* which it reports a placeholder that was never opened.
PieceByPiece(pieces, params) ==
  IF Alone(pieces)
  THEN ~BlankText(pieces[1][2]) /\ pieces[1][2] \in DOMAIN params
  ELSE /\ Meaningful(pieces, params)
       /\ ~Has(Substitute(pieces, params), CloseBrace)
       /\ Len(pieces) > 1 =>
            pieces[1][1] = "text" \/ pieces[Len(pieces)][1] = "text"

\* What a leaf of the payload stands for: a placeholder that is alone keeps the
\* type of its parameter.
Meaning(leaf, pieces, params) ==
  IF leaf[1] # "string" THEN leaf
  ELSE IF Alone(pieces) THEN params[pieces[1][2]]
  ELSE <<"string", Substitute(pieces, params)>>
=============================================================================
