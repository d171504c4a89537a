------------------------------ MODULE MCFanout ------------------------------
EXTENDS Fanout, TLC

CONSTANTS t1, q1, q2, q3, f1

Value(x) == [is |-> "value", text |-> x]

MCFilters == {[color |-> {"red"}]}

MCAttributes == {[color |-> "red"], <<>>}

Sub(id, protocol, endpoint, filter) ==
    [id |-> id, topic |-> t1, protocol |-> protocol, endpoint |-> endpoint, raw |-> FALSE, filter |-> filter]

\* A queue with a policy; a function, which gets nothing.
MCInitSubs == {{Sub(1, "sqs", q1, NoFilter), Sub(2, "sqs", q2, [color |-> {"red"}])},
               {Sub(1, "lambda", f1, NoFilter), Sub(2, "sqs", q2, NoFilter)}}

MCPatterns == {<<"source">> :> {Value("app")} @@
               <<"detail", "x">> :> {[is |-> "exists", there |-> FALSE], [is |-> "prefix", texts |-> {"a", "ab"}]}}

MCInitRules == {[r \in RuleNames |-> [bus |-> "default", enabled |-> TRUE, pattern |-> p, targets |-> ("x" :> q1 @@ "y" :> t1)]] : p \in MCPatterns}

App == <<"source">> :> Value("app")
Detail == <<"detail">> :> Object

MCEvents == {App, App @@ Detail, App @@ Detail @@ <<"detail", "x">> :> Value("ab"), App @@ Detail @@ <<"detail", "x">> :> Value("b")}

Config(kinds, keys, to) == [kinds |-> kinds, keys |-> keys, to |-> to]

MCInitConfigs == {<<Config({"Put", "Delete"}, {"k1", "k2"}, q2), Config({"Put"}, {"k1"}, t1)>>}

MCConfigs == {<<>>}

MCObjectEvents == {<<[kind |-> "Put", key |-> "k1"]>>, <<[kind |-> "Delete", key |-> "k1"], [kind |-> "Delete", key |-> "k2"]>>}
=============================================================================
