------------------------------ MODULE Fanout ------------------------------
(***************************************************************************)
(* How one service calls another: SNS delivers what is published to the    *)
(* queues subscribed, EventBridge sends events to the targets of the rules *)
(* they match, S3 notifies of what happens to objects.  All of them call   *)
(* the provider of the other service through the plugin manager            *)
(* (dispatch_to), in the task of the request (SNS) or in a task of its own *)
(* (EventBridge, S3).                                                      *)
(*                                                                         *)
(* Publish holds the guard of the SNS store from its first step to the end *)
(* of its last delivery.  A task that needs the guard blocks the worker    *)
(* thread it runs on; a task that waits for SQS, while another request     *)
(* starts it, yields its worker and needs one again to go on.  A request   *)
(* whose client disconnects is dropped where it waits.                     *)
(***************************************************************************)
EXTENDS Sns, EventBridge, SequencesExt

CONSTANTS
    Queues,           \* queues that exist
    MissingQueues,    \* queues that do not: SendMessage answers with an error, which nobody reads
    Attributes,       \* the message attributes that publishers send
    Events,           \* the events that are put
    ObjectEvents,     \* what happens to objects: kinds of S3 events, with the keys
    InitSubs, InitRules, InitConfigs,  \* configurations at the start
    Configs,          \* the notification configurations that clients put
    Workers,          \* worker threads of the runtime
    MaxRequests,      \* bound: publishes, events and object changes
    MaxChanges        \* bound: changes of the configuration

\* Queues, topics and the other kinds of calls are told apart; stores are finite.
ASSUME FanoutAssumption ==
    /\ Queues \cap Topics = {} /\ {"emit", "sns"} \cap (Queues \cup Topics) = {}
    /\ IsFiniteSet(RuleNames) /\ IsFiniteSet(TargetIds) /\ \A s \in InitSubs : IsFiniteSet(s)
    /\ \A s \in InitConfigs \cup Configs \cup ObjectEvents : s \in Seq(ToSet(s))

VARIABLES
    configs,  \* Bucket.notifications
    sqs,      \* the SQS container: "available", "starting" by some other request, "running"
    queues,   \* what was sent to each queue, in order
    tasks,    \* the tasks that deliver
    busy,     \* the tasks that occupy a worker
    guard,    \* the task that holds the guard of the SNS store, or 0
    sources,  \* history: the publishes and events so far, how often each queue is to get them, and
              \* whether the request was dropped over them
    requests, changes

fanoutVars == <<configs, sqs, queues, tasks, busy, guard, sources, requests, changes>>

vars == <<snsVars, ebVars, fanoutVars>>

-----------------------------------------------------------------------------
(* Tasks and workers.  A task has calls to make, one after the other: a call to a queue or to a *)
(* topic, the notification of an object event, or another operation of SNS.  While it publishes, *)
(* out is what is still to be delivered and pub the number of the publish.  The task of a client *)
(* is a request; the others were spawned.                                                       *)

Task(rest, attributes, client) ==
    [rest |-> rest, out |-> <<>>, pub |-> 0, attributes |-> attributes, waits |-> FALSE, client |-> client]

NoAttributes == <<>>

Call(to, source) == [to |-> to, source |-> source]

Notify(event) == [to |-> "emit", source |-> 0, event |-> event]

Source(kind, want) == [kind |-> kind, want |-> want, cut |-> FALSE]

FreeWorker == Cardinality(busy) + (IF sqs = "starting" THEN 1 ELSE 0) < Workers

\* A worker runs the task: it has one, or one takes it up, when it is new or was woken.
OnWorker(t) ==
    /\ tasks[t].rest # <<>>
    /\ t \in busy \/ (FreeWorker /\ (tasks[t].waits => sqs # "starting"))

\* The task's next state; without calls it ends and leaves its worker.
Advance(t, task) ==
    /\ tasks' = [tasks EXCEPT ![t] = [task EXCEPT !.waits = FALSE]]
    /\ busy' = IF task.rest = <<>> THEN busy \ {t} ELSE busy \cup {t}

\* SendMessage to a standard queue: it comes last.
Sent(queue, message) == IF queue \in Queues THEN [queues EXCEPT ![queue] = Append(@, message)] ELSE queues

Wanted(set, dest(_)) == [q \in Queues |-> Cardinality({x \in set : dest(x) = q})]

-----------------------------------------------------------------------------
(* Requests *)

Request == requests < MaxRequests /\ requests' = requests + 1

\* Publish, up to the guard
Publish(topic, attributes) ==
    /\ Request
    /\ tasks' = Append(tasks, Task(<<Call(topic, 0)>>, attributes, TRUE))
    /\ UNCHANGED <<snsVars, ebVars, configs, sqs, queues, busy, guard, sources, changes>>

\* PutEvents: it collects the targets under the guard, spawns a task for each and answers.
PutEvents(event, bus) ==
    LET targets == SetToSeq(DispatchTargets(event, bus))
        target(x) == rules[x[1]].targets[x[2]]
    IN  /\ Request /\ FreeWorker
        /\ sources' = Append(sources, Source("event", Wanted(ToSet(targets), target)))
        /\ tasks' = tasks \o [i \in DOMAIN targets |-> Task(<<Call(target(targets[i]), Len(sources) + 1)>>, NoAttributes, FALSE)]
        /\ UNCHANGED <<snsVars, ebVars, configs, sqs, queues, busy, guard, changes>>

\* An operation on objects has been answered: one task emits what is to be said of them.
ObjectsChanged(events) ==
    /\ Request /\ FreeWorker
    /\ tasks' = Append(tasks, Task([i \in DOMAIN events |-> Notify(events[i])], NoAttributes, FALSE))
    /\ UNCHANGED <<snsVars, ebVars, configs, sqs, queues, busy, guard, sources, changes>>

\* Some other request finds SQS not running, and starts it; others wait for it meanwhile.
SqsStarts ==
    /\ sqs = "available" /\ FreeWorker
    /\ sqs' = "starting"
    /\ UNCHANGED <<snsVars, ebVars, configs, queues, tasks, busy, guard, sources, requests, changes>>

SqsStarted ==
    /\ sqs = "starting"
    /\ sqs' = "running"
    /\ UNCHANGED <<snsVars, ebVars, configs, queues, tasks, busy, guard, sources, requests, changes>>

-----------------------------------------------------------------------------
(* Configuration *)

PutBucketNotification(new) ==
    /\ configs' = new
    /\ UNCHANGED <<snsVars, ebVars>>

\* What has no guard to wait for: rules, buses and the notifications of the bucket
Change ==
    /\ changes < MaxChanges /\ changes' = changes + 1 /\ FreeWorker
    /\ \/ EventBridgeChange /\ UNCHANGED <<snsVars, configs>>
       \/ \E new \in Configs : PutBucketNotification(new)
    /\ UNCHANGED <<sqs, queues, tasks, busy, guard, sources, requests>>

\* An operation of SNS other than Publish, up to the guard
SnsRequest ==
    /\ changes < MaxChanges /\ changes' = changes + 1
    /\ tasks' = Append(tasks, Task(<<Call("sns", 0)>>, NoAttributes, TRUE))
    /\ UNCHANGED <<snsVars, ebVars, configs, sqs, queues, busy, guard, sources, requests>>

-----------------------------------------------------------------------------
(* A client disconnects *)

Owes(t, n) ==
    \/ tasks[t].pub = n
    \/ \E i \in DOMAIN tasks[t].rest : tasks[t].rest[i].source = n

\* The request is dropped while it waits for SQS, or before it ran; some worker must find out.
\* Its guard goes with it, and what it had still to deliver is not delivered.
Disconnect(t) ==
    /\ tasks[t].client /\ tasks[t].rest # <<>> /\ t \notin busy /\ FreeWorker
    /\ tasks' = [tasks EXCEPT ![t] = Task(<<>>, NoAttributes, TRUE)]
    /\ guard' = IF guard = t THEN 0 ELSE guard
    /\ sources' = [n \in DOMAIN sources |->
                      [kind |-> sources[n].kind, want |-> sources[n].want, cut |-> sources[n].cut \/ Owes(t, n)]]
    /\ UNCHANGED <<snsVars, ebVars, configs, sqs, queues, busy, requests, changes>>

-----------------------------------------------------------------------------
(* Steps of a task that has a worker *)

\* The event, prefix and suffix filters of a notification configuration
NotificationMatches(config, event) == event.kind \in config.kinds /\ event.key \in config.keys

\* emit_s3_notification: the configurations are those of now, not of the operation; those that
\* match are served in the order they are in.
EmitNotification(t) ==
    LET call == Head(tasks[t].rest)
        matching == {i \in DOMAIN configs : NotificationMatches(configs[i], call.event)}
    IN  /\ OnWorker(t) /\ call.to = "emit"
        /\ sources' = Append(sources, Source("object", Wanted(matching, LAMBDA i : configs[i].to)))
        /\ \E order \in SetToSeqs(matching) :
               /\ \A i, j \in DOMAIN order : i < j => order[i] < order[j]
               /\ Advance(t, [tasks[t] EXCEPT !.rest = [i \in DOMAIN order |-> Call(configs[order[i]].to, Len(sources) + 1)] \o Tail(@)])
        /\ UNCHANGED <<snsVars, ebVars, configs, sqs, queues, guard, requests, changes>>

\* dispatch_to of SQS waits for a container that is being started: the task yields its worker
\* and keeps what it holds.
AtQueue(t) ==
    IF tasks[t].out # <<>> THEN Head(tasks[t].out).protocol = "sqs" /\ FilterMatches(Head(tasks[t].out).filter, tasks[t].attributes)
    ELSE tasks[t].rest # <<>> /\ Head(tasks[t].rest).to \in Queues \cup MissingQueues

Yield(t) ==
    /\ OnWorker(t) /\ ~tasks[t].waits /\ AtQueue(t) /\ sqs = "starting"
    /\ tasks' = [tasks EXCEPT ![t].waits = TRUE]
    /\ busy' = busy \ {t}
    /\ UNCHANGED <<snsVars, ebVars, configs, sqs, queues, guard, sources, requests, changes>>

\* Mutant: a call to SQS waits for it and does not start it.
SqsReady_Running == sqs = "running"

\* A call to SQS goes through: what is not running is started by it.
SqsReady == sqs # "starting"

\* dispatch_to_target and the notification of a queue; targets of other kinds are left out.
SendDirect(t) ==
    LET call == Head(tasks[t].rest)
    IN  /\ OnWorker(t) /\ tasks[t].out = <<>>
        /\ call.to \notin Topics \cup {"emit", "sns"}
        /\ AtQueue(t) => SqsReady
        /\ sqs' = IF AtQueue(t) THEN "running" ELSE sqs
        /\ queues' = Sent(call.to, [source |-> call.source, raw |-> TRUE])
        /\ Advance(t, [tasks[t] EXCEPT !.rest = Tail(@)])
        /\ UNCHANGED <<snsVars, ebVars, configs, guard, sources, requests, changes>>

NeedsGuard(t) == tasks[t].rest # <<>> /\ tasks[t].out = <<>> /\ Head(tasks[t].rest).to \in Topics \cup {"sns"}

\* A task that needs the guard while another has it blocks the worker it runs on.
Block(t) ==
    /\ OnWorker(t) /\ t \notin busy /\ NeedsGuard(t) /\ guard # 0
    /\ busy' = busy \cup {t}
    /\ UNCHANGED <<snsVars, ebVars, configs, sqs, queues, tasks, guard, sources, requests, changes>>

\* An operation of SNS, in one step under the guard: it changes the store, or reads it or is
\* refused.
Configure(t) ==
    /\ OnWorker(t) /\ tasks[t].out = <<>> /\ Head(tasks[t].rest).to = "sns" /\ guard = 0
    /\ SnsChange \/ UNCHANGED snsVars
    /\ Advance(t, [tasks[t] EXCEPT !.rest = Tail(@)])
    /\ UNCHANGED <<ebVars, configs, sqs, queues, guard, sources, requests, changes>>

\* Mutant: the guard is released once the subscriptions are collected.
HoldGuard_Released(t) == guard = 0 /\ UNCHANGED guard

\* The guard of the store, which Publish keeps.
HoldGuard(t) == guard = 0 /\ guard' = t

\* handle_publish, as far as the deliveries: of all subscriptions of the topic, in any order.
CollectSubscriptions(t) ==
    LET topic == Head(tasks[t].rest).to
        all == ListSubscriptionsByTopic(topic)
        passing == {s \in all : s.protocol = "sqs" /\ FilterMatches(s.filter, tasks[t].attributes)}
    IN  /\ OnWorker(t) /\ tasks[t].out = <<>> /\ topic \in Topics
        /\ IF topic \in topics /\ all # {}
           THEN /\ HoldGuard(t)
                /\ \E order \in SetToSeqs(all) : Advance(t, [tasks[t] EXCEPT !.out = order, !.pub = Len(sources) + 1])
                /\ sources' = Append(sources, Source("publish", Wanted(passing, LAMBDA s : s.endpoint)))
           ELSE /\ guard = 0 /\ UNCHANGED <<guard, sources>>
                /\ Advance(t, [tasks[t] EXCEPT !.rest = Tail(@)])
        /\ UNCHANGED <<snsVars, ebVars, configs, sqs, queues, requests, changes>>

\* The task after a delivery; after the last one the publish answers and lets go of the guard.
Delivered(t, out) ==
    /\ Advance(t, IF out # <<>> THEN [tasks[t] EXCEPT !.out = out]
                  ELSE [tasks[t] EXCEPT !.out = <<>>, !.pub = 0, !.rest = Tail(@)])
    /\ guard' = IF out = <<>> /\ guard = t THEN 0 ELSE guard

\* Mutant: a subscription that filters the message out ends the deliveries.
Skip_Rest(t) == tasks[t].out # <<>> /\ ~AtQueue(t) /\ Delivered(t, <<>>)

\* A subscription whose policy does not match, or with another protocol than sqs
Skip(t) == tasks[t].out # <<>> /\ ~AtQueue(t) /\ Delivered(t, Tail(tasks[t].out))

SkipDelivery(t) ==
    /\ OnWorker(t) /\ Skip(t)
    /\ UNCHANGED <<snsVars, ebVars, configs, sqs, queues, sources, requests, changes>>

\* One turn of dispatch_publish_deliveries: the message itself or in an envelope; an error of
\* SendMessage is an answer like any other.
Deliver(t) ==
    LET s == Head(tasks[t].out)
    IN  /\ OnWorker(t) /\ tasks[t].out # <<>> /\ AtQueue(t) /\ SqsReady
        /\ sqs' = "running"
        /\ queues' = Sent(s.endpoint, [source |-> tasks[t].pub, raw |-> s.raw])
        /\ Delivered(t, Tail(tasks[t].out))
        /\ UNCHANGED <<snsVars, ebVars, configs, sources, requests, changes>>

-----------------------------------------------------------------------------
Init ==
    /\ topics = Topics /\ subs \in InitSubs /\ nextSub = Cardinality(subs)
    /\ buses = {} /\ rules \in InitRules
    /\ configs \in InitConfigs
    /\ sqs = "available"
    /\ queues = [q \in Queues |-> <<>>]
    /\ tasks = <<>> /\ busy = {} /\ guard = 0
    /\ sources = <<>> /\ requests = 0 /\ changes = 0

Step(t) ==
    \/ Block(t) \/ Yield(t) \/ EmitNotification(t) \/ SendDirect(t) \/ Configure(t)
    \/ CollectSubscriptions(t) \/ SkipDelivery(t) \/ Deliver(t)

Next ==
    \/ \E topic \in Topics, a \in Attributes : Publish(topic, a)
    \/ \E e \in Events, b \in Buses \cup {"default"} : PutEvents(e, b)
    \/ \E events \in ObjectEvents : ObjectsChanged(events)
    \/ SqsStarts \/ SqsStarted
    \/ Change \/ SnsRequest
    \/ \E t \in DOMAIN tasks : Step(t) \/ Disconnect(t)

\* A worker that is free runs some task that can go on.
Fairness == WF_vars(SqsStarted) /\ WF_vars(\E t \in DOMAIN tasks : Step(t))

Spec == Init /\ [][Next]_vars /\ Fairness

-----------------------------------------------------------------------------
(* Properties *)

Count(q, n) == Cardinality({i \in DOMAIN queues[q] : queues[q][i].source = n})

Pending(n) == \E t \in DOMAIN tasks : Owes(t, n)

\* Whoever is concerned hears of it once: a publish reaches every queue that was subscribed when
\* it was made, once for each subscription whose policy matches; an event reaches the queues of
\* the targets of the rules it met when it was put; an object event those of the configurations
\* that matched when it was emitted; in whichever order the tasks run and whatever changes
\* meanwhile.  Nobody else hears of it, and nobody twice.  Only a publish whose client
\* disconnected while it was delivered may leave some out (dispatch_publish_deliveries,
\* dispatch_to_target, emit_s3_notification).
DeliveredOnce ==
    \A n \in DOMAIN sources : \A q \in Queues :
        /\ Count(q, n) <= sources[n].want[q]
        /\ Count(q, n) < sources[n].want[q] => Pending(n) \/ (sources[n].cut /\ sources[n].kind = "publish")

\* Publishes are delivered one after the other, those of EventBridge and S3 among them: all queues
\* get them in one order.  And a subscription that is removed gets nothing any more, as no change
\* falls between the collecting of the subscriptions and the last delivery.
PublishesAreSerial ==
    /\ \A q \in Queues : \A i, j \in DOMAIN queues[q] :
           LET a == queues[q][i].source
               b == queues[q][j].source
           IN  i < j /\ sources[a].kind = "publish" /\ sources[b].kind = "publish" => a <= b
    /\ \A t \in DOMAIN tasks : ToSet(tasks[t].out) \subseteq subs

\* A publish waits without a worker, and every worker is blocked by a task that waits for its
\* guard: the one way for the deliveries to hang.
Starved ==
    /\ guard # 0 /\ guard \notin busy /\ Cardinality(busy) = Workers
    /\ \A t \in busy : NeedsGuard(t)

\* Once the requests stop, every task comes to its end, or all workers are blocked behind one
\* publish for good; nothing else ever hangs: not a call that meets SQS before, while or after
\* it starts, and not what waits behind a request that was dropped.
DeliveriesEnd == <>[](\A t \in DOMAIN tasks : tasks[t].rest = <<>>) \/ <>[]Starved

\* What a comment of the code says of Publish: the guard is not held while the task waits.
GuardIsReleased == \A t \in DOMAIN tasks : tasks[t].waits => guard # t
=============================================================================
