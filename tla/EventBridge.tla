---------------------------- MODULE EventBridge ----------------------------
(***************************************************************************)
(* EventBridge buses, rules and targets (services/eventbridge): the        *)
(* operations on the store of one account and region, and which targets an *)
(* event goes to.  How they are reached is in Fanout.                      *)
(***************************************************************************)
EXTENDS Integers, Sequences, FiniteSets

CONSTANTS
    Buses,       \* names of event buses other than "default"
    RuleNames,
    Patterns,    \* event patterns: functions from the paths of fields to sets of alternatives
    TargetIds,
    Targets,     \* what targets name: queues, topics and others
    NoRule,
    NoPattern    \* no pattern, or one that does not parse

VARIABLES
    buses,  \* EventBridgeStore.buses
    rules   \* EventBridgeStore.rules: per name NoRule or a rule

ebVars == <<buses, rules>>

-----------------------------------------------------------------------------
(* Matching.  The fields of an event are named by their paths, sequences of names; a field with *)
(* others below it is an Object.                                                              *)

Null == [is |-> "null"]
Object == [is |-> "object"]

Field(event, path) == IF path \in DOMAIN event THEN event[path] ELSE Null

\* One alternative of a pattern: a value, the values with a prefix, or presence.
MatchesAlternative(value, alt) ==
    CASE alt.is = "value"  -> value = alt
      [] alt.is = "prefix" -> value.is = "value" /\ value.text \in alt.texts
      [] alt.is = "exists" -> (value # Null) = alt.there
      [] OTHER -> FALSE

\* event_matches_pattern and matches_value: every field of the pattern has a matching alternative,
\* and is below objects of the event, also when it is not to exist; a rule without a pattern is
\* one for a schedule, and nothing runs schedules.
EventMatchesPattern(event, pattern) ==
    /\ pattern # NoPattern
    /\ \A p \in DOMAIN pattern :
          /\ \A i \in 1 .. Len(p) - 1 : Field(event, SubSeq(p, 1, i)) = Object
          /\ \E alt \in pattern[p] : MatchesAlternative(Field(event, p), alt)

\* The rules that an event on a bus meets; whether the bus exists is not asked.
MatchingRules(event, bus) ==
    {r \in RuleNames : /\ rules[r] # NoRule /\ rules[r].enabled /\ rules[r].bus = bus
                       /\ EventMatchesPattern(event, rules[r].pattern)}

\* PutEvents, under the read guard: the targets to be dispatched to.
DispatchTargets(event, bus) ==
    {x \in RuleNames \X TargetIds : x[1] \in MatchingRules(event, bus) /\ x[2] \in DOMAIN rules[x[1]].targets}

-----------------------------------------------------------------------------
CreateEventBus(b) ==
    /\ buses' = buses \cup {b}
    /\ UNCHANGED rules

\* The rules of the bus stay, and stay in force.
DeleteEventBus(b) ==
    /\ b # "default"
    /\ buses' = buses \ {b}
    /\ UNCHANGED rules

\* A rule that exists keeps its targets, and everything else is set anew.
PutRule(r, bus, pattern, enabled) ==
    /\ rules' = [rules EXCEPT ![r] =
                    [bus |-> bus, pattern |-> pattern, enabled |-> enabled,
                     targets |-> IF rules[r] = NoRule THEN <<>> ELSE rules[r].targets]]
    /\ UNCHANGED buses

DeleteRule(r) ==
    /\ rules' = [rules EXCEPT ![r] = NoRule]
    /\ UNCHANGED buses

\* EnableRule and DisableRule
SetRuleState(r, enabled) ==
    /\ rules[r] # NoRule
    /\ rules' = [rules EXCEPT ![r].enabled = enabled]
    /\ UNCHANGED buses

\* A target with the id of another replaces it.
PutTarget(r, id, target) ==
    /\ rules[r] # NoRule
    /\ rules' = [rules EXCEPT ![r].targets = [i \in DOMAIN @ \cup {id} |-> IF i = id THEN target ELSE @[i]]]
    /\ UNCHANGED buses

RemoveTarget(r, id) ==
    /\ rules[r] # NoRule
    /\ rules' = [rules EXCEPT ![r].targets = [i \in DOMAIN @ \ {id} |-> @[i]]]
    /\ UNCHANGED buses

\* ListEventBuses: the default bus is always there.
ListEventBuses == buses \cup {"default"}

\* ListRules, of a bus
ListRules(bus) == {r \in RuleNames : rules[r] # NoRule /\ rules[r].bus = bus}

-----------------------------------------------------------------------------
EventBridgeChange ==
    \/ \E b \in Buses : CreateEventBus(b) \/ DeleteEventBus(b)
    \/ \E r \in RuleNames, b \in Buses \cup {"default"}, p \in Patterns \cup {NoPattern} : PutRule(r, b, p, TRUE)
    \/ \E r \in RuleNames : DeleteRule(r) \/ \E e \in BOOLEAN : SetRuleState(r, e)
    \/ \E r \in RuleNames, id \in TargetIds : RemoveTarget(r, id) \/ \E t \in Targets : PutTarget(r, id, t)
=============================================================================
