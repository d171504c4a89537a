--------------------------------- MODULE Sqs ---------------------------------
(***************************************************************************)
(* The SQS service: the queues of one account and region (SqsStore and     *)
(* SqsQueue of crates/services/sqs/src/store.rs) and the handlers of       *)
(* provider.rs.  Every handler runs under the exclusive DashMap guard of   *)
(* the store, so it is one step; what interleaves is whole calls of many   *)
(* producers and consumers with the passing of time.                       *)
(*                                                                         *)
(* Two transports reach the same queues: the Query/XML handlers, and the   *)
(* JSON ones taken when the x-amzn-query-mode header is set.  They differ  *)
(* in ReceiveMessage: only the XML one applies the redrive policy.         *)
(*                                                                         *)
(* Bodies, message attributes, checksums, and the queue attributes no      *)
(* operation reads (retention, size limit, long-poll wait, policy,         *)
(* ContentBasedDeduplication) are left out.  The read-only operations      *)
(* (ListQueues, GetQueueUrl, GetQueueAttributes) change nothing.           *)
(***************************************************************************)
EXTENDS Integers, Sequences, FiniteSets, SequencesExt

CONSTANTS
    QueueNames,    \* the names clients use
    FifoNames,     \* those ending in ".fifo"
    DedupIds,      \* MessageDeduplicationId values
    Delays,        \* DelaySeconds values of SendMessage
    Timeouts,      \* VisibilityTimeout values of receive and change
    AttributeSets, \* values of the Attribute.N parameters, see QueueAttributes
    Transports,    \* which of {"xml", "json"} clients use
    None,          \* an absent parameter, an absent queue
    MaxBatch,      \* bound: entries of a batch, messages of one receive
    MaxTime,       \* bound: the clock
    MaxId          \* bound: MESSAGE_ID_COUNTER

ASSUME SqsAssumption ==
    /\ FifoNames \subseteq QueueNames
    /\ Delays \subseteq Nat /\ Timeouts \subseteq Nat
    /\ Transports \subseteq {"xml", "json"}
    /\ MaxBatch \in Nat /\ MaxTime \in Nat \ {0} /\ MaxId \in Nat \ {0}
    /\ \A a \in AttributeSets :
         /\ a.visibility_timeout \in Nat \cup {None}
         /\ a.delay_seconds \in Nat \cup {None}
         /\ a.max_receive_count \in Nat \cup {None}

VARIABLES
    queues,     \* SqsStore.queues: name -> SqsQueue, or None
    nextId,     \* MESSAGE_ID_COUNTER, shared by message ids and receipt handles
    now,        \* Utc::now(), in seconds
    \* History, as clients see it:
    accepted,   \* ids of accepted messages -> queue, dedup id, and whether the queue has
                \* since been deleted
    deliveries, \* receipt handles handed out -> id, and the lease they stand for
    acked,      \* ids some consumer deleted, with any handle it was ever given
    settled,    \* ids deleted with the handle of their latest delivery
    discarded,  \* ids in a queue when it was purged or deleted
    redriven    \* ids removed by the redrive policy

vars == <<queues, nextId, now, accepted, deliveries, acked, settled, discarded, redriven>>

-----------------------------------------------------------------------------
(* SqsMessage and SqsQueue *)

\* Mutant: a message reappears one second early.
IsVisible_Early(m) == now + 1 >= m.visible_after

\* visible_after = None is 0: visible at any time.
IsVisible(m) == now >= m.visible_after

\* The deadline a timeout or delay of n seconds stands for.
VisibleAfter(n) == IF n > 0 THEN now + n ELSE 0

\* apply_queue_attributes: what is absent, or does not parse, is kept.
ApplyAttributes(q, a) ==
    [q EXCEPT !.visibility_timeout = IF a.visibility_timeout = None THEN @ ELSE a.visibility_timeout,
              !.delay_seconds      = IF a.delay_seconds = None THEN @ ELSE a.delay_seconds,
              !.max_receive_count  = IF a.max_receive_count = None THEN @ ELSE a.max_receive_count]

NewQueue ==
    [visibility_timeout |-> 30, delay_seconds |-> 0, max_receive_count |-> None,
     messages |-> <<>>, sequence_counter |-> 0, dedup_ids |-> {}]

Ids(q) == IF queues[q] = None THEN {}
          ELSE {queues[q].messages[i].id : i \in DOMAIN queues[q].messages}

\* A duplicate of a dedup id this FIFO queue has seen is not enqueued.
IsDuplicate(name, q, dedup) ==
    name \in FifoNames /\ dedup # None /\ dedup \in q.dedup_ids

\* SqsQueue::send_message: ids are taken two at a time, for the message id and
\* for a first receipt handle no client learns.
SendMessage(name, q, id, delay, dedup) ==
    IF IsDuplicate(name, q, dedup) THEN q
    ELSE [q EXCEPT
            !.sequence_counter = @ + 1,
            !.dedup_ids = IF dedup = None THEN @ ELSE @ \cup {dedup},
            !.messages = Append(@,
                [id |-> id, receipt_handle |-> id + 1,
                 visible_after |->
                    VisibleAfter(IF delay = None THEN q.delay_seconds ELSE delay),
                 receive_count |-> 0, dedup |-> dedup,
                 delayed |-> (IF delay = None THEN q.delay_seconds ELSE delay) > 0,
                 sequence_number |-> q.sequence_counter + 1])]

\* Mutant: the last visible messages are taken.
Chosen_FromBack(q, max) ==
    LET visible == {i \in DOMAIN q.messages : IsVisible(q.messages[i])}
    IN  {i \in visible : Cardinality({j \in visible : j > i}) < max}

\* The first max visible messages, in queue order.
Chosen(q, max) ==
    LET visible == {i \in DOMAIN q.messages : IsVisible(q.messages[i])}
    IN  {i \in visible : Cardinality({j \in visible : j < i}) < max}

\* Message i of those chosen takes the counter's value plus its rank.
Rank(S, i) == Cardinality({j \in S : j < i})

\* Mutant: the handle is derived from the message instead of the counter.
ReceiveMessages_HandleFromCount(q, chosen, timeout) ==
    [q EXCEPT !.messages =
        [i \in DOMAIN @ |->
            IF i \notin chosen THEN @[i]
            ELSE [@[i] EXCEPT !.receipt_handle = @ + 1, !.receive_count = @ + 1,
                              !.visible_after = VisibleAfter(q.visibility_timeout)]]]

\* SqsMessage::begin_receive.
BeginReceive(m, handle, deadline) ==
    [m EXCEPT !.receipt_handle = handle, !.receive_count = @ + 1, !.visible_after = deadline]

\* SqsQueue::receive_messages with begin_receive for each chosen message.
ReceiveMessages(q, chosen, timeout) ==
    LET deadline == VisibleAfter(IF timeout = None THEN q.visibility_timeout ELSE timeout)
    IN  [q EXCEPT !.messages =
            [i \in DOMAIN q.messages |->
                IF i \in chosen THEN BeginReceive(q.messages[i], nextId + Rank(chosen, i), deadline)
                ELSE q.messages[i]]]

\* Mutant: the limit is exclusive.
Poison_Exclusive(q) ==
    IF q.max_receive_count = None THEN {}
    ELSE {i \in DOMAIN q.messages : q.messages[i].receive_count > q.max_receive_count}

\* remove_dlq_candidates: what has been received max_receive_count times.
Poison(q) ==
    IF q.max_receive_count = None THEN {}
    ELSE {i \in DOMAIN q.messages : q.messages[i].receive_count >= q.max_receive_count}

\* The messages without those at these places.
Without(messages, drop) ==
    LET kept[i \in 0..Len(messages)] ==
            IF i = 0 THEN <<>>
            ELSE IF i \in drop THEN kept[i - 1] ELSE Append(kept[i - 1], messages[i])
    IN  kept[Len(messages)]

RemoveDlqCandidates(q) == [q EXCEPT !.messages = Without(@, Poison(q))]

\* Mutant: the front of the queue is popped.
DeleteMessage_PopFront(q, handle) ==
    IF \A i \in DOMAIN q.messages : q.messages[i].receipt_handle # handle THEN q
    ELSE [q EXCEPT !.messages = Tail(@)]

\* Mutant: only a message still in flight can be deleted.
DeleteMessage_InFlightOnly(q, handle) ==
    [q EXCEPT !.messages =
        SelectSeq(@, LAMBDA m : m.receipt_handle # handle \/ IsVisible(m))]

\* SqsQueue::delete_message: the first message with that current handle.
DeleteMessage(q, handle) ==
    LET hits == {i \in DOMAIN q.messages : q.messages[i].receipt_handle = handle}
    IN  IF hits = {} THEN q
        ELSE [q EXCEPT !.messages = Without(@, {CHOOSE i \in hits : \A j \in hits : i <= j})]

\* SqsQueue::change_visibility.
ChangeVisibility(q, handle, timeout) ==
    LET hits == {i \in DOMAIN q.messages : q.messages[i].receipt_handle = handle}
    IN  IF hits = {} THEN q
        ELSE [q EXCEPT !.messages[CHOOSE i \in hits : \A j \in hits : i <= j].visible_after =
                VisibleAfter(timeout)]

-----------------------------------------------------------------------------
(* The handlers *)

Init ==
    /\ queues = [name \in QueueNames |-> None]
    /\ nextId = 1
    /\ now = 1
    /\ accepted = <<>>
    /\ deliveries = <<>>
    /\ acked = {}
    /\ settled = {}
    /\ discarded = {}
    /\ redriven = {}

\* handle_create_queue: an existing queue is left as it is.
CreateQueue(name, a) ==
    /\ queues' = IF queues[name] # None THEN queues
                 ELSE [queues EXCEPT ![name] = ApplyAttributes(NewQueue, a)]
    /\ UNCHANGED <<nextId, now, accepted, deliveries, acked, settled, discarded, redriven>>

DeleteQueue(name) ==
    /\ queues[name] # None
    /\ queues' = [queues EXCEPT ![name] = None]
    /\ discarded' = discarded \cup Ids(name)
    /\ accepted' = [id \in DOMAIN accepted |->
          [accepted[id] EXCEPT !.former = @ \/ accepted[id].queue = name]]
    /\ UNCHANGED <<nextId, now, deliveries, acked, settled, redriven>>

SetQueueAttributes(name, a) ==
    /\ queues[name] # None
    /\ queues' = [queues EXCEPT ![name] = ApplyAttributes(@, a)]
    /\ UNCHANGED <<nextId, now, accepted, deliveries, acked, settled, discarded, redriven>>

\* Mutant: purging forgets the dedup ids.
PurgeQueue_ForgetsDedup(name) ==
    /\ queues[name] # None
    /\ queues' = [queues EXCEPT ![name].messages = <<>>, ![name].dedup_ids = {}]
    /\ discarded' = discarded \cup Ids(name)
    /\ UNCHANGED <<nextId, now, accepted, deliveries, acked, settled, redriven>>

\* Purging keeps the dedup ids and the sequence counter.
PurgeQueue(name) ==
    /\ queues[name] # None
    /\ queues' = [queues EXCEPT ![name].messages = <<>>]
    /\ discarded' = discarded \cup Ids(name)
    /\ UNCHANGED <<nextId, now, accepted, deliveries, acked, settled, redriven>>

\* What one entry changes: the queue, the counter and what is accepted.
SendEntry(name, at, e) ==
    IF IsDuplicate(name, at.q, e.dedup) THEN at
    ELSE [q |-> SendMessage(name, at.q, at.next, e.delay, e.dedup),
          next |-> at.next + 2,
          accepted |-> [id \in DOMAIN at.accepted \cup {at.next} |->
              IF id = at.next THEN [queue |-> name, dedup |-> e.dedup, former |-> FALSE]
              ELSE at.accepted[id]]]

\* ... and all entries, in order.
Sent(name, entries) ==
    LET after[i \in 0..Len(entries)] ==
            IF i = 0 THEN [q |-> queues[name], next |-> nextId, accepted |-> accepted]
            ELSE SendEntry(name, after[i - 1], entries[i])
    IN  after[Len(entries)]

\* handle_send_message and handle_send_message_batch.
SendMessages(name, entries) ==
    /\ queues[name] # None
    /\ nextId + 2 * Len(entries) <= MaxId
    /\ LET done == Sent(name, entries)
       IN  /\ queues' = [queues EXCEPT ![name] = done.q]
           /\ nextId' = done.next
           /\ accepted' = done.accepted
    /\ UNCHANGED <<now, deliveries, acked, settled, discarded, redriven>>

\* handle_receive_message, and its JSON counterpart without the redrive.
ReceiveMessage(name, max, timeout, transport) ==
    /\ queues[name] # None
    /\ LET q == queues[name]
           chosen == Chosen(q, max)
           received == ReceiveMessages(q, chosen, timeout)
           poison == IF transport = "xml" THEN Poison(received) ELSE {}
           handle(i) == received.messages[i].receipt_handle
           lease == VisibleAfter(IF timeout = None THEN q.visibility_timeout ELSE timeout)
       IN  /\ nextId + Cardinality(chosen) <= MaxId
           /\ queues' = [queues EXCEPT ![name] =
                 IF transport = "xml" THEN RemoveDlqCandidates(received) ELSE received]
           /\ nextId' = nextId + Cardinality(chosen)
           /\ deliveries' = [h \in DOMAIN deliveries \cup {handle(i) : i \in chosen} |->
                 IF h \in DOMAIN deliveries THEN deliveries[h]
                 ELSE LET m == received.messages[CHOOSE i \in chosen : handle(i) = h]
                      IN  [queue |-> name, id |-> m.id, until |-> lease,
                           limit |-> IF transport = "xml" THEN q.max_receive_count ELSE None]]
           /\ redriven' = redriven \cup {received.messages[i].id : i \in poison}
    /\ UNCHANGED <<now, accepted, acked, settled, discarded>>

\* No later delivery of the same message has been made.
IsLatest(h) ==
    \A g \in DOMAIN deliveries : deliveries[g].id = deliveries[h].id => g <= h

\* The entries of a batch, in order.
AllDeleted(q, handles) ==
    LET after[i \in 0..Len(handles)] == IF i = 0 THEN q ELSE DeleteMessage(after[i - 1], handles[i])
    IN  after[Len(handles)]

\* handle_delete_message and handle_delete_message_batch: a missing queue or an
\* unknown handle is answered with success.
DeleteMessages(name, handles) ==
    /\ LET rightQueue == {h \in Range(handles) : deliveries[h].queue = name}
       IN  /\ queues' = IF queues[name] = None THEN queues
                        ELSE [queues EXCEPT ![name] = AllDeleted(@, handles)]
           /\ acked' = acked \cup {deliveries[h].id : h \in rightQueue}
           /\ settled' = settled \cup {deliveries[h].id : h \in {g \in rightQueue : IsLatest(g)}}
    /\ UNCHANGED <<nextId, now, accepted, deliveries, discarded, redriven>>

AllChanged(q, handles, timeout) ==
    LET after[i \in 0..Len(handles)] ==
            IF i = 0 THEN q ELSE ChangeVisibility(after[i - 1], handles[i], timeout)
    IN  after[Len(handles)]

\* handle_change_message_visibility and its batch form.
ChangeMessageVisibility(name, handles, timeout) ==
    /\ queues' = IF queues[name] = None THEN queues
                 ELSE [queues EXCEPT ![name] = AllChanged(@, handles, timeout)]
    /\ deliveries' = [h \in DOMAIN deliveries |->
          IF h \in Range(handles) /\ deliveries[h].queue = name /\ IsLatest(h)
          THEN [deliveries[h] EXCEPT !.until = VisibleAfter(timeout)]
          ELSE deliveries[h]]
    /\ UNCHANGED <<nextId, now, accepted, acked, settled, discarded, redriven>>

\* Time passes.
Tick ==
    /\ now < MaxTime
    /\ now' = now + 1
    /\ UNCHANGED <<queues, nextId, accepted, deliveries, acked, settled, discarded, redriven>>

-----------------------------------------------------------------------------

Entries == [delay : Delays \cup {None}, dedup : DedupIds \cup {None}]
EntryBatches == UNION {[1..n -> Entries] : n \in 1..MaxBatch}
\* Consumers use handles they were given, on any queue, however old.
HandleBatches == UNION {[1..n -> DOMAIN deliveries] : n \in 1..MaxBatch}

\* The operations of the Query/XML transport.
QueryNext(name) ==
    \/ \E a \in AttributeSets : CreateQueue(name, a) \/ SetQueueAttributes(name, a)
    \/ DeleteQueue(name)
    \/ PurgeQueue(name)
    \/ \E entries \in EntryBatches : SendMessages(name, entries)
    \/ \E max \in 0..MaxBatch, timeout \in Timeouts \cup {None} :
         ReceiveMessage(name, max, timeout, "xml")
    \/ \E handles \in HandleBatches : DeleteMessages(name, handles)
    \/ \E handles \in HandleBatches, timeout \in Timeouts :
         ChangeMessageVisibility(name, handles, timeout)

\* The JSON transport implements four of them that change state.
JsonNext(name) ==
    \/ \E a \in AttributeSets : CreateQueue(name, a)
    \/ \E e \in Entries : SendMessages(name, <<e>>)
    \/ \E max \in 0..MaxBatch, timeout \in Timeouts \cup {None} :
         ReceiveMessage(name, max, timeout, "json")
    \/ DeleteQueue(name)

Next ==
    \/ \E name \in QueueNames :
         \/ ("xml" \in Transports /\ QueryNext(name))
         \/ ("json" \in Transports /\ JsonNext(name))
    \/ Tick

Spec == Init /\ [][Next]_vars

-----------------------------------------------------------------------------
(* Properties *)

Live(name) == IF queues[name] = None THEN <<>> ELSE queues[name].messages

MessageRecords ==
    [id : Nat, receipt_handle : Nat, visible_after : Nat, receive_count : Nat,
     dedup : DedupIds \cup {None}, delayed : BOOLEAN, sequence_number : Nat]

QueueRecords ==
    [visibility_timeout : Nat, delay_seconds : Nat, max_receive_count : Nat \cup {None},
     messages : Seq(MessageRecords), sequence_counter : Nat, dedup_ids : SUBSET DedupIds]

AcceptedRecords == [queue : QueueNames, dedup : DedupIds \cup {None}, former : BOOLEAN]

DeliveryRecords == [queue : QueueNames, id : Nat, until : Nat, limit : Nat \cup {None}]

ASSUME NoneAssumption == None \notin Nat \cup QueueRecords

\* Every variable has its type; ids and receipt handles come from the counter.
TypeOK ==
    /\ nextId \in 1..MaxId /\ now \in 1..MaxTime
    /\ queues \in [QueueNames -> {None} \cup QueueRecords]
    /\ \A name \in QueueNames : \A i \in DOMAIN Live(name) :
           Live(name)[i].id < nextId /\ Live(name)[i].receipt_handle < nextId
    /\ accepted \in [DOMAIN accepted -> AcceptedRecords] /\ DOMAIN accepted \subseteq 1..(nextId - 1)
    /\ deliveries \in [DOMAIN deliveries -> DeliveryRecords] /\ DOMAIN deliveries \subseteq 1..(nextId - 1)
    /\ acked \cup settled \cup discarded \cup redriven \subseteq DOMAIN accepted

\* A message leaves its queue only because a consumer that was given it deleted
\* it, the queue was purged or deleted, or the redrive policy took it; while it
\* is there, it is there once.
NothingVanishes ==
    /\ TypeOK
    /\ \A id \in DOMAIN accepted \ (acked \cup discarded \cup redriven) :
       LET here == Live(accepted[id].queue)
       IN  Cardinality({i \in DOMAIN here : here[i].id = id}) = 1

\* Deleting a message with the handle of its latest delivery is final: no queue
\* holds it afterwards, so it is not delivered again.
SettledStaysGone ==
    \A name \in QueueNames : \A m \in Range(Live(name)) : m.id \notin settled

\* A message is not handed to another consumer before the lease of every
\* earlier delivery, as extended or given back by its holder, has run out.
LeaseRespected ==
    [][\A h \in DOMAIN deliveries' \ DOMAIN deliveries :
         \A g \in DOMAIN deliveries :
            deliveries[g].id = deliveries'[h].id => deliveries[g].until <= now]_vars

\* A receipt handle stands for one delivery: no two messages of any queue share
\* one, and a message's current handle is the one given out last.
HandlesIdentify ==
    \A n1, n2 \in QueueNames : \A i \in DOMAIN Live(n1), j \in DOMAIN Live(n2) :
       LET h == Live(n1)[i].receipt_handle
       IN  /\ h = Live(n2)[j].receipt_handle => n1 = n2 /\ i = j
           /\ \A g \in DOMAIN deliveries : deliveries[g].id = Live(n1)[i].id => g <= h

\* A FIFO queue accepts a dedup id once, until it is deleted, whatever is received,
\* deleted or purged in between.
FifoDeduplicates ==
    \A name \in FifoNames : \A i, j \in DOMAIN accepted :
       (/\ accepted[i].queue = name /\ accepted[j].queue = name
        /\ accepted[i].dedup = accepted[j].dedup /\ accepted[i].dedup # None
        /\ ~accepted[i].former /\ ~accepted[j].former)
       => i = j

\* A message is first delivered only after every message sent before it to the
\* same queue without a delay, whatever leases, extensions and deletes happen.
FirstDeliveryInOrder ==
    \A name \in QueueNames : \A i, j \in DOMAIN Live(name) :
       (i < j /\ Live(name)[j].receive_count > 0 /\ ~Live(name)[i].delayed)
       => Live(name)[i].receive_count > 0

\* The redrive policy bounds deliveries: consumers that all use the XML transport under one
\* policy never get a message again once they got it as often as it allows.  (The policy is
\* applied after a receive, so that a limit of zero lets one through, like a limit of one.)
RedriveBoundsReceives ==
    [][\A h \in DOMAIN deliveries' \ DOMAIN deliveries :
         LET d == deliveries'[h]
             before == {g \in DOMAIN deliveries : deliveries[g].id = d.id}
         IN  (d.limit # None /\ before # {} /\ \A g \in before : deliveries[g].limit = d.limit)
             => Cardinality(before) < d.limit]_vars
==============================================================================
