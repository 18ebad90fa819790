------------------------------- MODULE Topics -------------------------------
(***************************************************************************)
(* MQTT topic names and filters.  Both are sequences of levels, what       *)
(* split('/') returns; the empty string is <<"">>.  "+" and "#" are the    *)
(* wildcards, "a+" and "a#" stand for any longer level that holds one, and *)
(* "$SYS" for any level that begins with a '$'.                            *)
(***************************************************************************)
EXTENDS Naturals, Sequences, FiniteSets

HasPlus(level) == level \in {"+", "a+"}
HasHash(level) == level \in {"#", "a#"}
Wild(level) == HasPlus(level) \/ HasHash(level)

Blank(text) == text = <<"">>

\* validate_mqtt_topic_filter() of the MQTT engine.
EngineFilterOk(filter) ==
  /\ ~Blank(filter)
  /\ \A i \in DOMAIN filter :
       /\ HasHash(filter[i]) => filter[i] = "#" /\ i = Len(filter)
       /\ HasPlus(filter[i]) => filter[i] = "+"

\* TopicFilter::validate() of the domain.
DomainFilterOk(filter) ==
  /\ ~Blank(filter)
  /\ \A i \in DOMAIN filter :
       /\ HasHash(filter[i]) => filter[i] = "#"
       /\ filter[i] = "#" => i = Len(filter)
       /\ HasPlus(filter[i]) => filter[i] = "+"

\* TopicName::new()
TopicNameOk(topic) == ~Blank(topic) /\ \A i \in DOMAIN topic : ~Wild(topic[i])

NoMatch == [ok |-> FALSE, single |-> <<>>, multi |-> <<>>]

\* Mutant: a trailing "#" needs a level of its own.
MatchFilterStrict(filter, topic) ==
  LET walk[i \in 1..(Len(filter) + 1)] ==
        IF i > Len(filter)
        THEN [NoMatch EXCEPT !.ok = (Len(topic) = i - 1)]
        ELSE IF i > Len(topic) THEN NoMatch
        ELSE IF filter[i] = "#"
        THEN [NoMatch EXCEPT !.ok = TRUE, !.multi = SubSeq(topic, i, Len(topic))]
        ELSE IF filter[i] = "+"
        THEN [walk[i + 1] EXCEPT !.single = <<topic[i]>> \o @]
        ELSE IF filter[i] = topic[i] THEN walk[i + 1] ELSE NoMatch
  IN  IF TopicNameOk(topic) THEN walk[1] ELSE NoMatch

\* TopicFilterMatcher::matches() of the pipeline: level by level, with the
\* levels that the wildcards have caught (TopicParams).
MatchFilter(filter, topic) ==
  LET walk[i \in 1..(Len(filter) + 1)] ==
        IF i > Len(filter)
        THEN [NoMatch EXCEPT !.ok = (Len(topic) = i - 1)]
        ELSE IF filter[i] = "#"
        THEN [NoMatch EXCEPT !.ok = TRUE, !.multi = SubSeq(topic, i, Len(topic))]
        ELSE IF i > Len(topic) THEN NoMatch
        ELSE IF filter[i] = "+"
        THEN [walk[i + 1] EXCEPT !.single = <<topic[i]>> \o @]
        ELSE IF filter[i] = topic[i] THEN walk[i + 1] ELSE NoMatch
  IN  IF TopicNameOk(topic) THEN walk[1] ELSE NoMatch

\* TopicFilter::matches() of the MQTT router, the same loop; its parameters
\* are not used.
EngineMatches(filter, topic) == MatchFilter(filter, topic).ok

-----------------------------------------------------------------------------
\* Level by level: "+" stands for one level, a final "#" for any number of
\* them, the parent level included; a topic name has at least one character and
\* no wildcard.
LevelsFit(filter, topic) ==
  LET n == Len(filter)
      agree(k) == \A i \in 1..k : filter[i] \in {"+", topic[i]}
  IN  /\ ~Blank(topic) /\ \A i \in DOMAIN topic : ~Wild(topic[i])
      /\ \/ filter[n] # "#" /\ Len(topic) = n /\ agree(n)
         \/ filter[n] = "#" /\ Len(topic) >= n - 1 /\ agree(n - 1)

\* A filter that begins with a wildcard, and a topic of the server's own, which
\* begins with a '$'.
ServerTopic(filter, topic) == Wild(filter[1]) /\ topic[1] = "$SYS"

\* What MQTT says of wildcards: the levels fit, and a wildcard at the beginning
\* of a filter never stands for a level that begins with a '$' (MQTT 4.7.2).
Denotes(filter, topic) == LevelsFit(filter, topic) /\ ~ServerTopic(filter, topic)

\* Where both matchers of the code go further than MQTT: neither of them looks
\* at the '$'.
Overreaches(filter, topic) == LevelsFit(filter, topic) /\ ServerTopic(filter, topic)

\* The level that the k-th "+" of the filter stands for, counted from zero.
Caught(filter, topic, k) ==
  {topic[i] : i \in {j \in DOMAIN filter :
     filter[j] = "+" /\ Cardinality({h \in 1..(j - 1) : filter[h] = "+"}) = k}}
=============================================================================
