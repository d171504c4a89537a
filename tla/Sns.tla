-------------------------------- MODULE Sns --------------------------------
(***************************************************************************)
(* SNS topics and subscriptions (services/sns): the operations on the      *)
(* store of one account and region.  What Publish does with them is in     *)
(* Fanout.                                                                 *)
(***************************************************************************)
EXTENDS Integers, Sequences, FiniteSets

CONSTANTS
    Topics,      \* ARNs of topics
    Protocols,   \* protocols of subscriptions; only "sqs" delivers
    Endpoints,   \* endpoints: queues, for the protocol "sqs"
    Filters,     \* filter policies: functions from attribute names to the values they allow
    NoFilter     \* no policy, or one that does not parse

VARIABLES
    topics,  \* SnsStore.topics: those that exist
    subs,    \* SnsStore.subscriptions; a subscription's ARN is its number
    nextSub  \* numbers used so far

snsVars == <<topics, subs, nextSub>>

-----------------------------------------------------------------------------
\* FilterPolicy::matches: every attribute of the policy is there, with one of its values.
FilterMatches(policy, attributes) ==
    policy # NoFilter => \A n \in DOMAIN policy : n \in DOMAIN attributes /\ attributes[n] \in policy[n]

ListSubscriptionsByTopic(topic) == {s \in subs : s.topic = topic}

-----------------------------------------------------------------------------
\* A topic that exists is left as it is.
CreateTopic(topic) ==
    /\ topics' = topics \cup {topic}
    /\ UNCHANGED <<subs, nextSub>>

\* The subscriptions go with their topic.
DeleteTopic(topic) ==
    /\ topic \in topics
    /\ topics' = topics \ {topic}
    /\ subs' = subs \ ListSubscriptionsByTopic(topic)
    /\ UNCHANGED nextSub

\* No two subscriptions are the same: an endpoint may be subscribed twice.
Subscribe(topic, protocol, endpoint) ==
    /\ topic \in topics
    /\ nextSub' = nextSub + 1
    /\ subs' = subs \cup {[id |-> nextSub + 1, topic |-> topic, protocol |-> protocol, endpoint |-> endpoint,
                           raw |-> FALSE, filter |-> NoFilter]}
    /\ UNCHANGED topics

Unsubscribe(id) ==
    /\ \E s \in subs : s.id = id
    /\ subs' = {s \in subs : s.id # id}
    /\ UNCHANGED <<topics, nextSub>>

SetSubscription(id, update(_)) ==
    /\ \E s \in subs : s.id = id
    /\ subs' = {IF s.id = id THEN update(s) ELSE s : s \in subs}
    /\ UNCHANGED <<topics, nextSub>>

\* SetSubscriptionAttributes, of the two attributes that it knows
SetRawMessageDelivery(id, raw) == SetSubscription(id, LAMBDA s : [s EXCEPT !.raw = raw])

SetFilterPolicy(id, policy) == SetSubscription(id, LAMBDA s : [s EXCEPT !.filter = policy])

-----------------------------------------------------------------------------
SnsChange ==
    \/ \E t \in Topics : CreateTopic(t) \/ DeleteTopic(t)
    \/ \E t \in Topics, p \in Protocols, e \in Endpoints : Subscribe(t, p, e)
    \/ \E id \in 1..nextSub :
           \/ Unsubscribe(id) \/ SetRawMessageDelivery(id, TRUE)
           \/ \E f \in Filters \cup {NoFilter} : SetFilterPolicy(id, f)
=============================================================================
