------------------------------- MODULE DynamoDb -------------------------------
(***************************************************************************)
(* DynamoDB tables, their indexes and streams, and the requests that write *)
(* to them (crates/services/dynamodb/src/store.rs and provider.rs).        *)
(*                                                                         *)
(* Tables are values of a DashMap: a handler looks at or changes one under *)
(* its guard, in one step.  PutItem, UpdateItem, DeleteItem,               *)
(* BatchWriteItem and TransactWriteItems also take the table's Mutex,      *)
(* which they wait for; the operations on whole tables and all reads take  *)
(* none.  A request is a task that stops before each Mutex and each guard, *)
(* since other workers run in between; it can be dropped where it waits.   *)
(*                                                                         *)
(* An item has a value, an attribute that the index is about, and a key;   *)
(* an index without an entry for an item stands for a sparse one.  Stream  *)
(* ARNs carry the second they were made in: here no two of them are made   *)
(* within a second.                                                        *)
(***************************************************************************)
EXTENDS Naturals, Sequences, FiniteSets

CONSTANTS
    Tables,      \* table names, as numbers: their order is that of the names
    Keys,
    IdxVals,     \* values of the attribute that is indexed
    BoolVals,    \* those of them that are booleans
    Requests,    \* the writing requests that clients may send
    Creations,   \* the tables that clients may create: with an index, with a stream
    Changes,     \* the changes of tables that clients may ask for: of the stream, of the index
    Readers,     \* readers of streams
    None,
    MaxRequests, \* bound: writing requests in a behaviour
    MaxInFlight, \* bound: writing requests at once
    MaxAdmin,    \* bound: operations on whole tables
    MaxReads,    \* bound: requests of readers
    MaxLog       \* stream records kept (1000 in the code)

Item(val, idx) == [val |-> val, idx |-> idx]
Items == [val : Nat, idx : {None} \cup IdxVals]

\* What a write is: put, update, delete, or the check of a transaction.  An update may
\* change the key attributes, and then writes under another key (to), or lose them, and then
\* writes nothing, like a put without them (to = None).
Op(kind, table, key, to, idx, cond) ==
    [kind |-> kind, table |-> table, key |-> key, to |-> to, idx |-> idx, cond |-> cond]

\* The writes clients send: who reads or deletes an item names it.
Ops ==
    {op \in [kind : {"put", "update", "delete", "check"}, table : Tables, key : Keys \cup {None},
             to : Keys \cup {None}, idx : IdxVals \cup {None}, cond : {None, "exists", "absent"}] :
        op.kind \in {"update", "delete"} \/ op.cond # None => op.key # None}

ASSUME DynamoDbAssumption ==
    /\ Tables \subseteq Nat /\ IsFiniteSet(Keys)
    /\ {MaxRequests, MaxInFlight, MaxAdmin, MaxReads, MaxLog} \subseteq Nat
    /\ \A q \in Requests :
           q.kind \in {"write", "batch", "transact"} /\ q.ops \in Seq(Ops) /\ q.ops # <<>>
    /\ \A c \in Creations : c.indexed \in BOOLEAN /\ c.streamed \in BOOLEAN

VARIABLES
    tables,   \* DynamoDbStore.tables: per name a table or None
    tasks,    \* requests in flight, by number
    requests, \* number of writing requests so far
    admin,    \* number of operations on whole tables so far
    arns,     \* number of stream ARNs made so far
    readers,  \* per reader: its shard iterator, and what it has made of the records
    reads     \* number of requests of readers so far

vars == <<tables, tasks, requests, admin, arns, readers, reads>>

-----------------------------------------------------------------------------
(* Tables *)

Record(seq, key, new) == [seq |-> seq, key |-> key, new |-> new]

\* muted is history: a write went unrecorded because the stream was off.
Table(items, count, index, on, arn, log, seq, muted) ==
    [items |-> items, count |-> count, index |-> index, on |-> on, arn |-> arn,
     log |-> log, seq |-> seq, muted |-> muted]

EmptyIndex == [v \in IdxVals |-> {}]

\* Table::new
NewTable(indexed, arn) ==
    Table([k \in Keys |-> None], 0, IF indexed THEN EmptyIndex ELSE None, arn # None, arn, <<>>, 0, FALSE)

\* Mutant: an item that changes its attribute stays where it was indexed.
IndexRemove_Stays(index, key, old) == index

\* MaterializedIndex::remove and add: nothing for an item without the attribute.  av_to_key_str
\* makes a string of a boolean, and av_to_key_str_ref, which remove uses, does not.
IndexRemove(index, key, old) ==
    [v \in IdxVals |->
        IF old # None /\ old.idx = v /\ v \notin BoolVals THEN index[v] \ {key} ELSE index[v]]

IndexAdd(index, key, item) ==
    [v \in IdxVals |-> IF item # None /\ item.idx = v THEN index[v] \cup {key} ELSE index[v]]

\* append_stream_record
AppendRecord(t, key, new) ==
    LET log == Append(t.log, Record(t.seq + 1, key, new))
    IN  IF Len(log) > MaxLog THEN Tail(log) ELSE log

\* put_item (new is an item) and delete_item (new is None).  Deleting nothing does nothing.
Write(t, key, new) ==
    LET old == t.items[key]
    IN  IF old = None /\ new = None THEN t
        ELSE Table([t.items EXCEPT ![key] = new],
                   t.count + (IF new = None THEN 0 ELSE 1) - (IF old = None THEN 0 ELSE 1),
                   IF t.index = None THEN None ELSE IndexAdd(IndexRemove(t.index, key, old), key, new),
                   t.on, t.arn,
                   IF t.on THEN AppendRecord(t, key, new) ELSE t.log,
                   IF t.on THEN t.seq + 1 ELSE t.seq,
                   t.muted \/ ~t.on)

\* check_condition, for attribute_exists and attribute_not_exists of the key.
Holds(t, op) ==
    CASE op.cond = "exists" -> t.items[op.key] # None
      [] op.cond = "absent" -> t.items[op.key] = None
      [] OTHER -> TRUE

\* The item as apply_update_expression leaves it: the other attributes are kept.
Updated(t, op) == Item(IF t.items[op.key] = None THEN 0 ELSE t.items[op.key].val, op.idx)

Applied(t, n, op) ==
    CASE op.kind = "delete" -> Write(t, op.key, None)
      [] op.kind = "put" /\ op.to # None -> Write(t, op.to, Item(n, op.idx))
      [] op.kind = "update" /\ op.to # None -> Write(t, op.to, Updated(t, op))
      [] OTHER -> t

-----------------------------------------------------------------------------
(* Requests *)

\* wiped is history: tables that were deleted since the request came.
Task(kind, ops, pc, at, held, wiped) ==
    [kind |-> kind, ops |-> ops, pc |-> pc, at |-> at, held |-> held, wiped |-> wiped]

Current(n) == tasks[n].ops[tasks[n].at]

Move(n, pc, at, held) ==
    tasks' = [tasks EXCEPT ![n] = Task(tasks[n].kind, tasks[n].ops, pc, at, held, tasks[n].wiped)]

\* The request is answered, or dropped; with it go its locks.
Finish(n) == tasks' = [m \in DOMAIN tasks \ {n} |-> tasks[m]]

\* The next write of the pass, or the next pass.
Advance(n, next) ==
    LET t == tasks[n]
    IN  IF t.at < Len(t.ops) THEN Move(n, t.pc, t.at + 1, t.held)
        ELSE IF next = "done" THEN Finish(n) ELSE Move(n, next, 1, t.held)

Init ==
    /\ tables = [t \in Tables |-> None]
    /\ tasks = <<>>
    /\ requests = 0
    /\ admin = 0
    /\ arns = 0
    /\ readers = [r \in Readers |-> None]
    /\ reads = 0

Arrive(q) ==
    LET n == requests + 1
    IN  /\ requests < MaxRequests
        /\ Cardinality(DOMAIN tasks) < MaxInFlight
        /\ requests' = n
        /\ tasks' = [m \in DOMAIN tasks \cup {n} |->
               IF m = n THEN Task(q.kind, q.ops, "lock", 1, {}, {}) ELSE tasks[m]]
        /\ UNCHANGED <<tables, admin, arns, readers, reads>>

Touched(n) == {tasks[n].ops[i].table : i \in DOMAIN tasks[n].ops}

\* Mutant: a transaction takes its locks in the order of its writes.
NextLock_AsListed(n) ==
    IF tasks[n].kind = "transact"
    THEN LET i == CHOOSE i \in DOMAIN tasks[n].ops :
                 /\ tasks[n].ops[i].table \notin tasks[n].held
                 /\ \A j \in 1..(i - 1) : tasks[n].ops[j].table \in tasks[n].held
         IN  tasks[n].ops[i].table
    ELSE Current(n).table

\* The Mutex to wait for: that of the next table of a batch, or the tables of a
\* transaction in the order of their names.
NextLock(n) ==
    IF tasks[n].kind = "transact"
    THEN CHOOSE t \in Touched(n) \ tasks[n].held : \A u \in Touched(n) \ tasks[n].held : t <= u
    ELSE Current(n).table

\* get_table_lock, and waiting for the lock.
Acquire(n) ==
    LET held == tasks[n].held \cup {NextLock(n)}
    IN  /\ tasks[n].pc = "lock"
        /\ \A m \in DOMAIN tasks : NextLock(n) \notin tasks[m].held
        /\ IF tasks[n].kind # "transact" THEN Move(n, "apply", tasks[n].at, held)
           ELSE Move(n, IF Touched(n) \subseteq held THEN "exist" ELSE "lock", 1, held)
        /\ UNCHANGED <<tables, requests, admin, arns, readers, reads>>

\* The future is dropped while it waits for a Mutex.
Cancel(n) ==
    /\ tasks[n].pc = "lock"
    /\ Finish(n)
    /\ UNCHANGED <<tables, requests, admin, arns, readers, reads>>

\* Transactions, before the first pass: every table must exist.
Exist(n) ==
    /\ tasks[n].pc = "exist"
    /\ IF tables[Current(n).table] = None THEN Finish(n) ELSE Advance(n, "check")
    /\ UNCHANGED <<tables, requests, admin, arns, readers, reads>>

\* The condition of the current write, if it has one, holds.  A table that is gone by now
\* makes the handler panic, which ends the request as a condition that fails does.
Passes(n) ==
    LET op == Current(n)
    IN  op.cond # None => tables[op.table] # None /\ Holds(tables[op.table], op)

\* Mutant: the locks are given back once the conditions have been checked.
Check_Unlocks(n) ==
    /\ tasks[n].pc = "check"
    /\ IF ~Passes(n) THEN Finish(n)
       ELSE IF tasks[n].at < Len(tasks[n].ops) THEN Advance(n, "apply")
       ELSE Move(n, "apply", 1, {})
    /\ UNCHANGED <<tables, requests, admin, arns, readers, reads>>

\* The first pass: every condition must hold.
Check(n) ==
    /\ tasks[n].pc = "check"
    /\ IF Passes(n) THEN Advance(n, "apply") ELSE Finish(n)
    /\ UNCHANGED <<tables, requests, admin, arns, readers, reads>>

\* The second pass: a table that is gone is passed over.
ApplyTransact(n) ==
    LET t == Current(n).table
    IN  /\ tasks[n].kind = "transact" /\ tasks[n].pc = "apply"
        /\ tables' = [tables EXCEPT ![t] = IF @ = None THEN None ELSE Applied(@, n, Current(n))]
        /\ Advance(n, "done")
        /\ UNCHANGED <<requests, admin, arns, readers, reads>>

\* A single write and its condition, under one guard.
WriteItem(n, kind) ==
    LET t == Current(n).table
    IN  /\ tasks[n].kind = "write" /\ tasks[n].pc = "apply" /\ Current(n).kind = kind
        /\ tables' = [tables EXCEPT ![t] =
               IF @ = None \/ ~Holds(@, Current(n)) THEN @ ELSE Applied(@, n, Current(n))]
        /\ Finish(n)
        /\ UNCHANGED <<requests, admin, arns, readers, reads>>

PutItem(n) == WriteItem(n, "put")
DeleteItem(n) == WriteItem(n, "delete")
UpdateItem(n) == WriteItem(n, "update")

\* The table after the writes of a batch to it, one after the other.
Batched(t, n, name, ops) ==
    LET after[i \in 0..Len(ops)] ==
            IF i = 0 THEN t
            ELSE IF ops[i].table = name THEN Applied(after[i - 1], n, ops[i]) ELSE after[i - 1]
    IN  after[Len(ops)]

\* All that a batch does to one table, under one guard.  It ends at a table that is not there,
\* and gives the Mutex back before it goes on to the next one.
BatchWriteItem(n) ==
    LET t == Current(n).table
        next == tasks[n].at + Cardinality({i \in DOMAIN tasks[n].ops : tasks[n].ops[i].table = t})
    IN  /\ tasks[n].kind = "batch" /\ tasks[n].pc = "apply"
        /\ IF tables[t] = None THEN Finish(n) /\ UNCHANGED tables
           ELSE /\ tables' = [tables EXCEPT ![t] = Batched(@, n, t, tasks[n].ops)]
                /\ IF next > Len(tasks[n].ops) THEN Finish(n) ELSE Move(n, "lock", next, {})
        /\ UNCHANGED <<requests, admin, arns, readers, reads>>

Step(n) ==
    \/ Exist(n) \/ Check(n) \/ ApplyTransact(n)
    \/ PutItem(n) \/ DeleteItem(n) \/ UpdateItem(n) \/ BatchWriteItem(n)

-----------------------------------------------------------------------------
(* Operations on whole tables *)

CreateTable(t, indexed, streamed) ==
    /\ admin < MaxAdmin /\ admin' = admin + 1
    /\ tables[t] = None
    /\ tables' = [tables EXCEPT ![t] = NewTable(indexed, IF streamed THEN arns + 1 ELSE None)]
    /\ arns' = IF streamed THEN arns + 1 ELSE arns
    /\ UNCHANGED <<tasks, requests, readers, reads>>

DeleteTable(t) ==
    /\ admin < MaxAdmin /\ admin' = admin + 1
    /\ tables[t] # None
    /\ tables' = [tables EXCEPT ![t] = None]
    /\ tasks' = [n \in DOMAIN tasks |->
           Task(tasks[n].kind, tasks[n].ops, tasks[n].pc, tasks[n].at, tasks[n].held,
                tasks[n].wiped \cup {t})]
    /\ UNCHANGED <<requests, arns, readers, reads>>

\* add_gsi
Backfilled(t) == [v \in IdxVals |-> {k \in Keys : t.items[k] # None /\ t.items[k].idx = v}]

\* UpdateTable: the stream is switched, the index created or deleted, or both.
UpdateTable(t, stream, index) ==
    LET old == tables[t]
        on == IF stream = "keep" THEN old.on ELSE stream = "on"
        fresh == on /\ ~old.on
    IN  /\ admin < MaxAdmin /\ admin' = admin + 1
        /\ old # None
        /\ tables' = [tables EXCEPT ![t] =
               Table(old.items, old.count,
                     IF index = "create" THEN Backfilled(old) ELSE IF index = "delete" THEN None ELSE old.index,
                     on, IF fresh THEN arns + 1 ELSE old.arn, old.log, old.seq, old.muted)]
        /\ arns' = IF fresh THEN arns + 1 ELSE arns
        /\ UNCHANGED <<tasks, requests, readers, reads>>

-----------------------------------------------------------------------------
(* Readers of streams *)

\* A shard iterator (arn, next); and as history the last record seen, whether all before it
\* were, and the table as the records tell it.
Reader(arn, next, seen, whole, replica) ==
    [arn |-> arn, next |-> next, seen |-> seen, whole |-> whole, replica |-> replica]

\* TRIM_HORIZON, LATEST, AT_SEQUENCE_NUMBER and AFTER_SEQUENCE_NUMBER.  Who starts anew
\* is another reader.
GetShardIterator(r, t) ==
    /\ readers[r] = None
    /\ reads < MaxReads /\ reads' = reads + 1
    /\ tables[t] # None /\ tables[t].arn # None
    /\ \E next \in 0..(tables[t].seq + 1) :
           readers' = [readers EXCEPT ![r] = Reader(tables[t].arn, next, 0, TRUE, [k \in Keys |-> None])]
    /\ UNCHANGED <<tables, tasks, requests, admin, arns>>

\* Mutant: the next iterator begins at the last record returned.
NextSequence_Last(seq) == seq

NextSequence(seq) == seq + 1

\* One record; a larger limit is the same as several requests in a row, and when there is
\* nothing to return the iterator stays as it is.
GetRecords(r, t) ==
    LET x == readers[r]
        log == tables[t].log
    IN  /\ reads < MaxReads /\ reads' = reads + 1
        /\ x # None /\ tables[t] # None
        /\ tables[t].arn = x.arn
        /\ \E i \in DOMAIN log :
               /\ log[i].seq >= x.next
               /\ \A j \in 1..(i - 1) : log[j].seq < x.next
               /\ readers' = [readers EXCEPT ![r] =
                      Reader(x.arn, NextSequence(log[i].seq), log[i].seq,
                             x.whole /\ log[i].seq = x.seen + 1,
                             [x.replica EXCEPT ![log[i].key] = log[i].new])]
        /\ UNCHANGED <<tables, tasks, requests, admin, arns>>

-----------------------------------------------------------------------------

Next ==
    \/ \E q \in Requests : Arrive(q)
    \/ \E n \in DOMAIN tasks : Acquire(n) \/ Cancel(n) \/ Step(n)
    \/ \E t \in Tables :
           \/ DeleteTable(t)
           \/ \E c \in Creations : CreateTable(t, c.indexed, c.streamed)
           \/ \E c \in Changes : UpdateTable(t, c.stream, c.index)
           \/ \E r \in Readers : GetShardIterator(r, t) \/ GetRecords(r, t)

\* A request that can run is run, and a tokio Mutex is handed to those who wait in turn.
Fairness ==
    \A n \in 1..MaxRequests :
        /\ WF_vars(n \in DOMAIN tasks /\ Step(n))
        /\ SF_vars(n \in DOMAIN tasks /\ Acquire(n))

Spec == Init /\ [][Next]_vars /\ Fairness

-----------------------------------------------------------------------------
(* Properties *)

LogRecords == [seq : Nat, key : Keys, new : {None} \cup Items]

Indexes == [IdxVals -> SUBSET Keys]

TableRecords ==
    [items : [Keys -> {None} \cup Items], count : Nat, index : {None} \cup Indexes, on : BOOLEAN,
     arn : {None} \cup Nat, log : Seq(LogRecords), seq : Nat, muted : BOOLEAN]

TaskRecords ==
    [kind : {"write", "batch", "transact"}, ops : Seq(Ops), pc : {"lock", "exist", "check", "apply"},
     at : Nat, held : SUBSET Tables, wiped : SUBSET Tables]

ReaderRecords == [arn : Nat, next : Nat, seen : Nat, whole : BOOLEAN, replica : [Keys -> {None} \cup Items]]

ASSUME NoneAssumption ==
    None \notin {"exists", "absent"} \cup Nat \cup Keys \cup Items \cup Indexes \cup TableRecords \cup ReaderRecords

\* Every variable has its type, and a Mutex (get_table_lock) one holder.
TypeOK ==
    /\ tables \in [Tables -> {None} \cup TableRecords]
    /\ \A t \in Tables : tables[t] # None =>
           /\ Len(tables[t].log) <= MaxLog
           /\ tables[t].on => tables[t].arn \in 1..arns
    /\ tasks \in [DOMAIN tasks -> TaskRecords] /\ DOMAIN tasks \subseteq 1..requests
    /\ \A n \in DOMAIN tasks :
           /\ tasks[n].at \in DOMAIN tasks[n].ops
           /\ tasks[n].held \subseteq Touched(n)
           /\ \A m \in DOMAIN tasks : m # n => tasks[m].held \cap tasks[n].held = {}
    /\ readers \in [Readers -> {None} \cup ReaderRecords]
    /\ requests \in Nat /\ admin \in Nat /\ arns \in Nat /\ reads \in Nat

Carrying(t, v) == {k \in Keys : t.items[k] # None /\ t.items[k].idx = v}

\* The item count and every entry of the index say what the items say (put_item, delete_item,
\* add_gsi), whatever writes, batches, transactions and index changes come in whatever order;
\* for booleans, whose entries are not removed, the index has at least what it should.
IndexesAgree ==
    \A t \in Tables : tables[t] # None =>
        /\ tables[t].count = Cardinality({k \in Keys : tables[t].items[k] # None})
        /\ tables[t].index # None =>
               \A v \in IdxVals :
                   /\ Carrying(tables[t], v) \subseteq tables[t].index[v]
                   /\ v \notin BoolVals => tables[t].index[v] = Carrying(tables[t], v)

\* The key an operation writes to.
Target(op) == IF op.kind = "delete" THEN op.key ELSE IF op.kind = "check" THEN None ELSE op.to

\* Operations lo .. hi of the request have not written to this key.
NotWritten(n, t, key, lo, hi) ==
    \A i \in lo..hi : tasks[n].ops[i].table = t => Target(tasks[n].ops[i]) # key

\* The two passes of TransactWriteItems are isolated from all other writers, as the comment on
\* table_locks says: a condition that was found to hold holds until its write, and a write
\* stays until the last one, except where the table itself is deleted in between.
TransactionsAreIsolated ==
    /\ TypeOK
    /\ \A n \in DOMAIN tasks : tasks[n].kind = "transact" /\ tasks[n].pc \in {"check", "apply"} =>
        \A i \in DOMAIN tasks[n].ops :
            LET op == tasks[n].ops[i]
                done == IF tasks[n].pc = "apply" THEN tasks[n].at - 1 ELSE 0
                checked == tasks[n].pc = "apply" \/ i < tasks[n].at
                t == tables[op.table]
            IN  op.table \notin tasks[n].wiped =>
                    /\ t # None
                    /\ (checked /\ i > done /\ NotWritten(n, op.table, op.key, 1, done)) => Holds(t, op)
                    /\ (i <= done /\ Target(op) # None /\ NotWritten(n, op.table, Target(op), i + 1, done)) =>
                           CASE op.kind = "delete" -> t.items[op.key] = None
                             [] op.kind = "put" -> t.items[op.to] = Item(n, op.idx)
                             [] OTHER -> t.items[op.to] # None /\ t.items[op.to].idx = op.idx

\* A reader that follows its iterators (GetShardIterator, GetRecords) sees every record that is
\* still kept, once; and one that has seen them all, from the first one, knows the table.
StreamsReplicate ==
    \A r \in Readers, t \in Tables :
        LET x == readers[r]
        IN  x # None /\ tables[t] # None /\ tables[t].arn = x.arn =>
                /\ x.seen > 0 =>
                       /\ x.next > x.seen
                       /\ \A i \in DOMAIN tables[t].log :
                              tables[t].log[i].seq > x.seen => tables[t].log[i].seq >= x.next
                /\ x.whole /\ x.seen = tables[t].seq /\ ~tables[t].muted => x.replica = tables[t].items

\* Every request that is not dropped is answered: nobody waits for ever for a Mutex
\* (TransactWriteItems takes them in order, BatchWriteItem one at a time).
EveryRequestEnds == \A n \in 1..MaxRequests : n \in DOMAIN tasks ~> n \notin DOMAIN tasks
==============================================================================
