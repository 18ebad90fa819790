------------------------------- MODULE Rules --------------------------------
(***************************************************************************)
(* The rule engine: which rules it refuses, and which action intents an    *)
(* event gives.  Conditions are tuples that start with their operator; a   *)
(* JSON value is a tuple that starts with its type (see Templates).        *)
(***************************************************************************)
EXTENDS Naturals, Sequences, FiniteSetsExt, SequencesExt

CONSTANTS
  Conditions,          \* the conditions in use, with all their parts
  MaxConditionDepth,   \* RuleEngineLimits.max_condition_depth
  MaxConditionNodes,   \* RuleEngineLimits.max_condition_nodes
  MaxActions           \* RuleEngineLimits.max_actions_per_rule

Groups == {"and", "or"}

ASSUME RulesAssumption ==
  /\ {MaxConditionDepth, MaxConditionNodes, MaxActions} \subseteq Nat
  /\ \A c \in Conditions :
       /\ c[1] \in Groups => \A i \in DOMAIN c[2] : c[2][i] \in Conditions
       /\ c[1] = "not" => c[2] \in Conditions

Absent == <<"absent">>
Null == <<"null">>

\* get_json_path(): members of objects only.
JsonPath(value, path) ==
  LET at[i \in 0..Len(path)] ==
        IF i = 0 THEN value
        ELSE IF at[i - 1][1] = "object" /\ path[i] \in DOMAIN at[i - 1][2]
        THEN at[i - 1][2][path[i]] ELSE Absent
  IN  at[Len(path)]

Field(event, name) == IF name \in DOMAIN event.fields THEN event.fields[name] ELSE Absent

\* resolve_field(), with the paths of resolve_event_path() that a rule can
\* tell apart.
ResolveField(field, event) ==
  CASE field[1] = "extracted" -> Field(event, field[2])
    [] field[1] = "device"    -> event.device
    [] field[1] = "topic"     -> <<"string", event.topic>>
    [] field[1] = "payload"   -> IF event.payload[1] = "json"
                                 THEN JsonPath(event.payload[2], field[2]) ELSE Absent
    [] field[1] = "size"      -> <<"number", event.size>>
    [] field[1] = "metadata"  -> Absent   \* a new event has none

\* resolve_optional_value() and resolve_value()
Resolve(expr, event) == IF expr[1] = "literal" THEN expr[2] ELSE ResolveField(expr[2], event)
OrNull(value) == IF value = Absent THEN Null ELSE value

\* value_contains()
ValueContains(left, right) ==
  \/ /\ left[1] = "string" /\ right[1] = "string"
     /\ \E i \in 0..(Len(left[2]) - Len(right[2])) :
          SubSeq(left[2], i + 1, i + Len(right[2])) = right[2]
  \/ left[1] = "array" /\ \E i \in DOMAIN left[2] : left[2][i] = right

Truth(b) == IF b THEN "true" ELSE "false"

\* compare_numbers(): a value that is missing compares as false, one that is
\* no number is an error.
CompareNumbers(op, left, right) ==
  CASE left = Absent \/ right = Absent -> "false"
    [] left # Absent /\ right # Absent
         /\ (left[1] # "number" \/ right[1] # "number") -> "error"
    [] OTHER -> Truth(CASE op = "gt" -> left[2] > right[2]
                        [] op = "ge" -> left[2] >= right[2]
                        [] op = "lt" -> left[2] < right[2]
                        [] op = "le" -> left[2] <= right[2])

\* evaluate_condition(): groups stop at the first part that decides them, and
\* an error anywhere before that is the error of the whole.
EvaluateCondition(condition, event) ==
  LET holds[c \in Conditions] ==
        LET until(stop) ==
              LET deciding == {i \in DOMAIN c[2] : holds[c[2][i]] \in {stop, "error"}}
              IN  IF deciding # {} THEN holds[c[2][Min(deciding)]]
                  ELSE IF stop = "true" THEN "false" ELSE "true"
        IN  CASE c[1] = "exists" -> Truth(ResolveField(c[2], event) # Absent)
              [] c[1] = "eq"     -> Truth(OrNull(Resolve(c[2], event)) = OrNull(Resolve(c[3], event)))
              [] c[1] = "ne"     -> Truth(OrNull(Resolve(c[2], event)) # OrNull(Resolve(c[3], event)))
              [] c[1] = "contains" ->
                   Truth(ValueContains(OrNull(Resolve(c[2], event)), OrNull(Resolve(c[3], event))))
              [] c[1] = "and"    -> until("false")
              [] c[1] = "or"     -> until("true")
              [] c[1] = "not"    -> IF holds[c[2]] = "error" THEN "error"
                                    ELSE Truth(holds[c[2]] = "false")
              [] OTHER -> CompareNumbers(c[1], Resolve(c[2], event), Resolve(c[3], event))
  IN  holds[condition]

\* condition_depth() and condition_nodes()
ConditionDepth(condition) ==
  LET depth[c \in Conditions] ==
        CASE c[1] \in Groups -> Max({0} \cup {depth[c[2][i]] : i \in DOMAIN c[2]}) + 1
          [] c[1] = "not" -> depth[c[2]] + 1
          [] OTHER -> 1
  IN  depth[condition]

ConditionNodes(condition) ==
  LET nodes[c \in Conditions] ==
        CASE c[1] \in Groups -> FoldSeq(LAMBDA d, n : nodes[d] + n, 0, c[2]) + 1
          [] c[1] = "not" -> nodes[c[2]] + 1
          [] OTHER -> 1
  IN  nodes[condition]

\* validate_condition_groups(), and validate_condition() of the domain.
GroupsOk(condition) ==
  LET ok[c \in Conditions] ==
        CASE c[1] \in Groups -> Len(c[2]) > 0 /\ \A i \in DOMAIN c[2] : ok[c[2][i]]
          [] c[1] = "not" -> ok[c[2]]
          [] OTHER -> TRUE
  IN  ok[condition]

\* validate_action_metadata(): "pipe_bolt." stands for every key with a reserved
\* prefix, "" for the empty one; lengths and control characters are checked
\* for the domain too.
MetadataOk(key) == key \notin {"", "pipe_bolt."}

\* RuleDefinition::validate() of the domain.
DomainRuleOk(rule) ==
  /\ Len(rule.actions) > 0
  /\ rule.condition # Absent => GroupsOk(rule.condition)
  /\ \A i \in DOMAIN rule.actions :
       rule.actions[i][1] = "metadata" => rule.actions[i][2] # ""

\* Why validate_rule() refuses an enabled rule.
RuleErrors(rule) ==
  {e \in {"UnsupportedTrigger", "TooManyActions", "InvalidMetadataKey",
          "ConditionTooDeep", "ConditionTooLarge", "InvalidRule"} :
     CASE e = "UnsupportedTrigger" -> rule.trigger[1] = "command"
       [] e = "TooManyActions" -> Len(rule.actions) > MaxActions
       [] e = "InvalidMetadataKey" ->
            \E i \in DOMAIN rule.actions :
              rule.actions[i][1] = "metadata" /\ ~MetadataOk(rule.actions[i][2])
       [] e = "ConditionTooDeep" ->
            rule.condition # Absent /\ ConditionDepth(rule.condition) > MaxConditionDepth
       [] e = "ConditionTooLarge" ->
            rule.condition # Absent /\ ConditionNodes(rule.condition) > MaxConditionNodes
       [] e = "InvalidRule" -> ~DomainRuleOk(rule)}

\* trigger_matches()
TriggerMatches(trigger, event) ==
  \/ trigger[1] = "event"
  \/ trigger[1] = "route" /\ trigger[2] = event.route

\* The places of the enabled items: what filter(|x| x.enabled) keeps, and what
\* RuleEngine::with_limits() compiles.
Enabled(items) == {i \in DOMAIN items : items[i].enabled}

\* RuleEngine::evaluate(): the actions of the rules that match, in the order
\* of the configuration; one rule in error and the event has none.
Evaluate(rules, event) ==
  LET verdict(rule) ==
        IF ~TriggerMatches(rule.trigger, event) THEN "false"
        ELSE IF rule.condition = Absent THEN "true"
        ELSE EvaluateCondition(rule.condition, event)
      matched == {i \in Enabled(rules) : verdict(rules[i]) = "true"}
  IN  [ok |-> \A i \in Enabled(rules) : verdict(rules[i]) # "error",
       matched |-> Cardinality(matched),
       intents |-> FlattenSeq([i \in DOMAIN rules |->
                     IF i \in matched THEN rules[i].actions ELSE <<>>])]
=============================================================================
