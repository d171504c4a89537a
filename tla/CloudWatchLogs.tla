--------------------------- MODULE CloudWatchLogs ---------------------------
(***************************************************************************)
(* CloudWatch Logs (services/cloudwatch): log groups, the streams in them  *)
(* and the events of the streams are three maps of one store, the last two *)
(* keyed by group and stream.  Every handler is one step under its guard.  *)
(***************************************************************************)
EXTENDS Integers, Sequences, FiniteSets, SequencesExt

CONSTANTS
    Groups,      \* names of log groups
    LogStreams,  \* names of log streams
    Batches,     \* the lists of timestamps that clients put at once
    Nil,
    MaxEvents    \* bound: events put

VARIABLES
    logGroups,   \* log_groups: per name Nil or a group
    logStreams,  \* log_streams: per group and stream Nil or a stream
    logEvents,   \* log_events: per group and stream a list of events
    eventsPut,   \* number of events put; an event's message is its number
    putSince     \* history: per group and stream, the events put since the stream was created

vars == <<logGroups, logStreams, logEvents, eventsPut, putSince>>

Keys == Groups \X LogStreams

Event(ts, message) == [ts |-> ts, message |-> message]

-----------------------------------------------------------------------------
CreateLogGroup(g, days) ==
    /\ logGroups[g] = Nil
    /\ logGroups' = [logGroups EXCEPT ![g] = [retention |-> days]]
    /\ UNCHANGED <<logStreams, logEvents, eventsPut, putSince>>

\* Mutant: the events stay behind.
DeleteLogGroup_KeepsEvents(g) ==
    /\ logGroups[g] # Nil
    /\ logGroups' = [logGroups EXCEPT ![g] = Nil]
    /\ logStreams' = [k \in Keys |-> IF k[1] = g THEN Nil ELSE logStreams[k]]
    /\ putSince' = [k \in Keys |-> IF k[1] = g THEN <<>> ELSE putSince[k]]
    /\ UNCHANGED <<logEvents, eventsPut>>

\* The streams of the group and their events go with it.
DeleteLogGroup(g) ==
    /\ logGroups[g] # Nil
    /\ logGroups' = [logGroups EXCEPT ![g] = Nil]
    /\ logStreams' = [k \in Keys |-> IF k[1] = g THEN Nil ELSE logStreams[k]]
    /\ logEvents' = [k \in Keys |-> IF k[1] = g THEN <<>> ELSE logEvents[k]]
    /\ putSince' = [k \in Keys |-> IF k[1] = g THEN <<>> ELSE putSince[k]]
    /\ UNCHANGED eventsPut

PutRetentionPolicy(g, days) ==
    /\ logGroups[g] # Nil
    /\ logGroups' = [logGroups EXCEPT ![g].retention = days]
    /\ UNCHANGED <<logStreams, logEvents, eventsPut, putSince>>

CreateLogStream(k) ==
    /\ logGroups[k[1]] # Nil /\ logStreams[k] = Nil
    /\ logStreams' = [logStreams EXCEPT ![k] = [first |-> Nil, last |-> Nil, token |-> 0]]
    /\ UNCHANGED <<logGroups, logEvents, eventsPut, putSince>>

\* An empty batch takes the last timestamp away.
PutLogEvents(k, times) ==
    LET new == [i \in DOMAIN times |-> Event(times[i], eventsPut + i)]
        edge(i) == IF times = <<>> THEN Nil ELSE times[i]
    IN  /\ logStreams[k] # Nil /\ eventsPut + Len(times) <= MaxEvents
        /\ logEvents' = [logEvents EXCEPT ![k] = @ \o new]
        /\ logStreams' = [logStreams EXCEPT ![k] =
                             [first |-> IF @.first = Nil THEN edge(1) ELSE @.first,
                              last |-> edge(Len(times)), token |-> @.token + 1]]
        /\ eventsPut' = eventsPut + Len(times)
        /\ putSince' = [putSince EXCEPT ![k] = @ \o new]
        /\ UNCHANGED logGroups

-----------------------------------------------------------------------------
(* Answers *)

DescribeLogGroups == {g \in Groups : logGroups[g] # Nil}

DescribeLogStreams(g) == {k \in Keys : k[1] = g /\ logStreams[k] # Nil}

\* Neither asks whether the group or the stream exists.
GetLogEvents(k) == logEvents[k]

FilterLogEvents(g, matching) ==
    UNION {{<<k, e>> : e \in {x \in ToSet(logEvents[k]) : x.message \in matching}} : k \in {j \in Keys : j[1] = g}}

-----------------------------------------------------------------------------
Init ==
    /\ logGroups = [g \in Groups |-> Nil]
    /\ logStreams = [k \in Keys |-> Nil]
    /\ logEvents = [k \in Keys |-> <<>>]
    /\ eventsPut = 0
    /\ putSince = [k \in Keys |-> <<>>]

Next ==
    \/ \E g \in Groups : CreateLogGroup(g, Nil) \/ DeleteLogGroup(g) \/ PutRetentionPolicy(g, 7)
    \/ \E k \in Keys : CreateLogStream(k)
    \/ \E k \in Keys, times \in Batches : logStreams[k] # Nil /\ logStreams[k].token < MaxEvents /\ PutLogEvents(k, times)

-----------------------------------------------------------------------------
(* Properties *)

Chronological(events) == \A i, j \in DOMAIN events : i < j => events[i].ts <= events[j].ts

\* A stream shows each event that was put to it since it was created, once, and nothing else,
\* also when its name or its group's was used before; chronologically, as long as the events
\* were put so (GetLogEvents does not sort).  A stream exists in a group that exists; a filter
\* over a group finds exactly the matching events of its streams.  The ends kept of a stream are
\* the timestamps of its first and last event; an empty batch leaves it without the last one
\* (DeleteLogGroup, PutLogEvents, GetLogEvents, FilterLogEvents).
StreamsShowTheirEvents ==
    /\ \A k \in Keys :
           /\ Len(GetLogEvents(k)) = Len(putSince[k]) /\ ToSet(GetLogEvents(k)) = ToSet(putSince[k])
           /\ Chronological(putSince[k]) => Chronological(GetLogEvents(k))
    /\ \A g \in Groups :
           /\ DescribeLogStreams(g) # {} => g \in DescribeLogGroups
           /\ FilterLogEvents(g, {m \in 1 .. eventsPut : m % 2 = 0})
                  = UNION {{<<k, e>> : e \in {x \in ToSet(putSince[k]) : x.message % 2 = 0}} : k \in DescribeLogStreams(g)}
    /\ \A k \in Keys : logStreams[k] # Nil =>
           IF putSince[k] = <<>> THEN logStreams[k].first = Nil /\ logStreams[k].last = Nil
           ELSE logStreams[k].first = Head(putSince[k]).ts /\ logStreams[k].last \in {Nil, Last(putSince[k]).ts}
=============================================================================
