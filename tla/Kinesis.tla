------------------------------ MODULE Kinesis ------------------------------
(***************************************************************************)
(* A Kinesis stream: its shards, the records in them, the iterators that   *)
(* clients hold, resharding and tags (services/kinesis).  Every handler    *)
(* runs under the guard of the store's map and is one step.  The module    *)
(* follows one stream name through deletion and re-creation: streams of    *)
(* other names share nothing with it.                                      *)
(***************************************************************************)
EXTENDS Integers, Sequences, FiniteSets, SequencesExt

CONSTANTS
    PartitionKeys, \* partition keys of records
    Hash,          \* hash_string: a number for each partition key
    TagSets,       \* the sets of tag names that clients ask to add or remove
    Consumers,     \* clients that read
    NoStream,
    ShardCounts,   \* the shard counts that streams are created with
    MaxTags,       \* tags per stream (50 in the code)
    MaxShards,     \* bound: shards of a stream
    MaxRecords,    \* bound: records put in a behaviour
    MaxStreams     \* bound: streams created under the name

VARIABLES
    stream,    \* KinesisStore.streams at the name: NoStream or a stream
    created,   \* number of streams created so far
    put,       \* number of records put so far; a record's data is its number
    iterators  \* per consumer: the token it holds, and what it has read with it

vars == <<stream, created, put, iterators>>

-----------------------------------------------------------------------------
(* Shards and streams *)

\* Shard::new: ids come from a counter; records carry their sequence number.
NewShard(id, parents) ==
    [id |-> id, records |-> <<>>, counter |-> 0, open |-> TRUE, parents |-> parents]

\* KinesisStream::new
NewStream(count) ==
    [shards |-> [i \in 1..count |-> NewShard(i - 1, {})], shardCount |-> count,
     nextId |-> count, retention |-> 24, tags |-> {}]

\* The first shard with an id, by position; 0 when there is none.
ShardAt(s, id) == SelectInSeq(s.shards, LAMBDA sh : sh.id = id)

OpenShardCount(s) == Cardinality({i \in DOMAIN s.shards : s.shards[i].open})

\* next_sequence_number, then push_back
Append1(sh, key, data) ==
    [sh EXCEPT !.counter = @ + 1,
               !.records = Append(@, [seq |-> sh.counter + 1, key |-> key, data |-> data])]

\* The shard of a key: its hash modulo the number of all shards, the closed ones too.
ShardOf(s, key) == 1 + (Hash[key] % Len(s.shards))

AppendByKey(s, key, data) ==
    [s EXCEPT !.shards = [@ EXCEPT ![ShardOf(s, key)] = Append1(@, key, data)]]

-----------------------------------------------------------------------------
(* Operations on the stream *)

Exists == stream # NoStream

CreateStream(count) ==
    /\ ~Exists /\ created < MaxStreams
    /\ stream' = NewStream(count)
    /\ created' = created + 1
    /\ UNCHANGED <<put, iterators>>

DeleteStream ==
    /\ Exists
    /\ stream' = NoStream
    /\ UNCHANGED <<created, put, iterators>>

\* Either operation sets the period to whatever it is given.
SetRetention(hours) ==
    /\ Exists
    /\ stream' = [stream EXCEPT !.retention = hours]
    /\ UNCHANGED <<created, put, iterators>>

PutRecord(key) ==
    /\ Exists /\ Len(stream.shards) > 0 /\ put < MaxRecords
    /\ stream' = AppendByKey(stream, key, put + 1)
    /\ put' = put + 1
    /\ UNCHANGED <<created, iterators>>

\* Without shards the remainder is by zero and the request fails before it writes.
PutRecords(keys) ==
    /\ Exists /\ Len(stream.shards) > 0 /\ put + Len(keys) <= MaxRecords
    /\ stream' = FoldLeftDomain(LAMBDA s, i : AppendByKey(s, keys[i], put + i), stream, keys)
    /\ put' = put + Len(keys)
    /\ UNCHANGED <<created, iterators>>

\* Mutant: both children are numbered, but the counter moves on by one.
SplitShard_OneId(id) ==
    /\ Exists /\ Len(stream.shards) + 2 <= MaxShards
    /\ ShardAt(stream, id) # 0
    /\ LET closed == [stream.shards EXCEPT ![ShardAt(stream, id)].open = FALSE]
           s == [stream EXCEPT !.nextId = @ + 1,
                     !.shards = closed \o <<NewShard(stream.nextId, {id}), NewShard(stream.nextId + 1, {id})>>]
       IN  stream' = [s EXCEPT !.shardCount = OpenShardCount(s)]
    /\ UNCHANGED <<created, put, iterators>>

\* The parent may be closed already: nothing asks.
SplitShard(id) ==
    /\ Exists /\ Len(stream.shards) + 2 <= MaxShards
    /\ ShardAt(stream, id) # 0
    /\ LET closed == [stream.shards EXCEPT ![ShardAt(stream, id)].open = FALSE]
           s == [stream EXCEPT !.nextId = @ + 2,
                     !.shards = closed \o <<NewShard(stream.nextId, {id}), NewShard(stream.nextId + 1, {id})>>]
       IN  stream' = [s EXCEPT !.shardCount = OpenShardCount(s)]
    /\ UNCHANGED <<created, put, iterators>>

\* Ids of no shard close nothing.
MergeShards(a, b) ==
    /\ Exists /\ Len(stream.shards) + 1 <= MaxShards
    /\ LET closed == [i \in DOMAIN stream.shards |->
                         IF stream.shards[i].id \in {a, b} THEN [stream.shards[i] EXCEPT !.open = FALSE]
                         ELSE stream.shards[i]]
           s == [stream EXCEPT !.nextId = @ + 1, !.shards = Append(closed, NewShard(stream.nextId, {a, b} \cap {sh.id : sh \in ToSet(closed)}))]
       IN  stream' = [s EXCEPT !.shardCount = OpenShardCount(s)]
    /\ UNCHANGED <<created, put, iterators>>

\* All or nothing: the limit is checked before the first tag is written.
AddTagsToStream(names) ==
    /\ Exists
    /\ Cardinality(stream.tags) + Cardinality(names \ stream.tags) <= MaxTags
    /\ stream' = [stream EXCEPT !.tags = @ \cup names]
    /\ UNCHANGED <<created, put, iterators>>

RemoveTagsFromStream(names) ==
    /\ Exists
    /\ stream' = [stream EXCEPT !.tags = @ \ names]
    /\ UNCHANGED <<created, put, iterators>>

-----------------------------------------------------------------------------
(* Reading *)

\* The token says shard and index only.  of, from, seen are history: the stream it was made
\* for, the index it started at, and the records read with it and its successors.
Token(shard, next) == [shard |-> shard, next |-> next, of |-> created, from |-> next, seen |-> <<>>]

NoToken == [shard |-> -1, next |-> 0, of |-> 0, from |-> 0, seen |-> <<>>]

\* Where an iterator starts; a sequence number that is not there counts as the end.
StartIndex(sh, type, seq) ==
    LET at == SelectInSeq(sh.records, LAMBDA r : r.seq = seq)
    IN  CASE type \in {"TRIM_HORIZON", "AT_TIMESTAMP"} -> 0
          [] type = "LATEST" -> Len(sh.records)
          [] type = "AT_SEQUENCE_NUMBER" -> IF at = 0 THEN Len(sh.records) ELSE at - 1
          [] type = "AFTER_SEQUENCE_NUMBER" -> IF at = 0 THEN Len(sh.records) ELSE at

GetShardIterator(c, id, type, seq) ==
    /\ Exists /\ ShardAt(stream, id) # 0
    /\ iterators' = [iterators EXCEPT ![c] =
                        Token(id, StartIndex(stream.shards[ShardAt(stream, id)], type, seq))]
    /\ UNCHANGED <<stream, created, put>>

\* Mutant: the next token advances by the limit instead of by what was returned.
GetRecords_ByLimit(c, limit) ==
    LET t == iterators[c]
        records == stream.shards[ShardAt(stream, t.shard)].records
        got == SubSeq(records, t.next + 1, IF t.next + limit < Len(records) THEN t.next + limit ELSE Len(records))
    IN  /\ Exists /\ t # NoToken /\ ShardAt(stream, t.shard) # 0 /\ t.next <= Len(records)
        /\ iterators' = [iterators EXCEPT ![c].next = t.next + limit, ![c].seen = t.seen \o got]
        /\ UNCHANGED <<stream, created, put>>

\* skip(next_index), take(limit); a token outlives its stream and is served by the next one.
GetRecords(c, limit) ==
    LET t == iterators[c]
        records == stream.shards[ShardAt(stream, t.shard)].records
        got == SubSeq(records, t.next + 1, IF t.next + limit < Len(records) THEN t.next + limit ELSE Len(records))
    IN  /\ Exists /\ t # NoToken /\ ShardAt(stream, t.shard) # 0
        /\ iterators' = [iterators EXCEPT ![c].next = t.next + Len(got), ![c].seen = t.seen \o got]
        /\ UNCHANGED <<stream, created, put>>

-----------------------------------------------------------------------------
Init ==
    /\ stream = NoStream
    /\ created = 0
    /\ put = 0
    /\ iterators = [c \in Consumers |-> NoToken]

ShardIds == 0..(MaxShards - 1)

Types == {"TRIM_HORIZON", "AT_TIMESTAMP", "LATEST", "AT_SEQUENCE_NUMBER", "AFTER_SEQUENCE_NUMBER"}

Next ==
    \/ \E n \in ShardCounts : CreateStream(n)
    \/ DeleteStream
    \/ SetRetention(48)
    \/ \E k \in PartitionKeys : PutRecord(k)
    \/ \E k1, k2 \in PartitionKeys : PutRecords(<<k1, k2>>)
    \/ \E id \in ShardIds : SplitShard(id)
    \/ \E a, b \in ShardIds : a <= b /\ MergeShards(a, b)
    \/ \E names \in TagSets : AddTagsToStream(names) \/ RemoveTagsFromStream(names)
    \/ \E c \in Consumers, id \in ShardIds, type \in Types, seq \in 1..MaxRecords :
           /\ type \notin {"AT_SEQUENCE_NUMBER", "AFTER_SEQUENCE_NUMBER"} => seq = 1
           /\ GetShardIterator(c, id, type, seq)
    \/ \E c \in Consumers, limit \in {1, 10} : GetRecords(c, limit)

-----------------------------------------------------------------------------
(* Properties *)

\* A consumer that follows NextShardIterator reads a contiguous piece of its shard's log, each
\* record once and in the order of the sequence numbers, however it is interleaved with
\* writers, resharding and other consumers, as long as its stream is not deleted.
ConsumersReadARun ==
    \A c \in Consumers :
        LET t == iterators[c]
        IN  Exists /\ t # NoToken /\ t.of = created =>
                LET records == stream.shards[ShardAt(stream, t.shard)].records
                IN  /\ t.next <= Len(records)
                    /\ t.seen = SubSeq(records, t.from + 1, t.next)
                    /\ \A i \in DOMAIN t.seen : t.seen[i].seq = t.from + i

\* Resharding: ids stay unique, so that an iterator or a split finds the shard it names; the
\* count shown is that of the open shards; a shard that was split or merged
\* stays closed; and no record is lost or copied while shards are closed and added.
ReshardingKeepsShards ==
    Exists =>
        LET S == stream.shards
        IN  /\ \A i, j \in DOMAIN S : S[i].id = S[j].id => i = j
            /\ stream.shardCount = OpenShardCount(stream)
            /\ \A i, j \in DOMAIN S : i < j /\ S[i].id \in S[j].parents => ~S[i].open
            /\ \A i, j \in DOMAIN S : \A x \in DOMAIN S[i].records, y \in DOMAIN S[j].records :
                   S[i].records[x].data = S[j].records[y].data => <<i, x>> = <<j, y>>
            /\ \A i \in DOMAIN S : S[i].counter = Len(S[i].records)
            /\ Cardinality(stream.tags) <= MaxTags
=============================================================================
