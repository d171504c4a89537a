---------------------------- MODULE DynamoDbProofs ----------------------------
(***************************************************************************)
(* For any tables, keys, requests and readers: the indexes and the streams *)
(* of a table say what its items say, and transactions are isolated.       *)
(***************************************************************************)
EXTENDS DynamoDb, FiniteSetTheorems, WellFoundedInduction, TLAPS

Stored(t) == {k \in Keys : t.items[k] # None}

\* The count and the index of a table say what its items say: IndexesAgree, for one table.
Counted(t) ==
    /\ t.count = Cardinality(Stored(t))
    /\ t.index # None =>
           \A v \in IdxVals :
               /\ Carrying(t, v) \subseteq t.index[v]
               /\ v \notin BoolVals => t.index[v] = Carrying(t, v)

\* The log holds the last records, without a gap.
Contiguous(t) ==
    /\ Len(t.log) <= MaxLog
    /\ \A i \in DOMAIN t.log : t.log[i].seq + Len(t.log) = t.seq + i

\* The last record of a key has its item.
Latest(t) ==
    ~t.muted =>
        \A i \in DOMAIN t.log :
            (\A j \in DOMAIN t.log : j > i => t.log[j].key # t.log[i].key) =>
                t.items[t.log[i].key] = t.log[i].new

\* Unless records after it were trimmed, a replica made of the records up to seen has the item
\* of every key that no later record is about.
Replays(t, seen, replica) ==
    (~t.muted /\ t.seq <= seen + Len(t.log)) =>
        \A k \in Keys :
            (\A i \in DOMAIN t.log : t.log[i].seq > seen => t.log[i].key # k) => t.items[k] = replica[k]

NoItems == [k \in Keys |-> None]

TableInv(t) ==
    t \in TableRecords /\ Counted(t) /\ Contiguous(t) /\ Latest(t) /\ Replays(t, 0, NoItems)

Follows(x, t) == x.seen <= t.seq /\ (x.whole => Replays(t, x.seen, x.replica))

\* Every table is as it should be, and its stream ARN is no other table's.
TablesInv ==
    /\ tables \in [Tables -> {None} \cup TableRecords] /\ arns \in Nat
    /\ \A t \in Tables : tables[t] # None =>
           /\ TableInv(tables[t])
           /\ tables[t].on => tables[t].arn \in 1..arns
           /\ tables[t].arn # None =>
                  /\ tables[t].arn <= arns
                  /\ \A u \in Tables : u # t /\ tables[u] # None => tables[u].arn # tables[t].arn

\* Whoever reads a stream follows its table, and goes on after the last record seen.
ReadersInv ==
    /\ readers \in [Readers -> {None} \cup ReaderRecords]
    /\ \A r \in Readers : readers[r] # None =>
           /\ readers[r].arn <= arns
           /\ readers[r].seen > 0 => readers[r].next = readers[r].seen + 1
           /\ \A t \in Tables : tables[t] # None /\ tables[t].arn = readers[r].arn => Follows(readers[r], tables[t])

\* What a request holds: a transaction all its tables once it has the last lock, a batch or a
\* write the table it is about to change.
LockedAt(n, pc, at, held) ==
    IF tasks[n].kind = "transact"
    THEN IF pc = "lock" THEN held # Touched(n) ELSE held = Touched(n)
    ELSE pc \in {"lock", "apply"} /\ (pc = "apply" => tasks[n].ops[at].table \in held)

Locked(n) == LockedAt(n, tasks[n].pc, tasks[n].at, tasks[n].held)

TasksInv ==
    /\ tasks \in [DOMAIN tasks -> TaskRecords] /\ DOMAIN tasks \subseteq 1..requests /\ requests \in Nat
    /\ \A n \in DOMAIN tasks :
           /\ tasks[n].at \in DOMAIN tasks[n].ops /\ tasks[n].held \subseteq Touched(n) /\ Locked(n)
           /\ \A m \in DOMAIN tasks : m # n => tasks[m].held \cap tasks[n].held = {}

\* The write is there: what TransactionsAreIsolated says of it.
Written(t, n, op) ==
    CASE op.kind = "delete" -> t.items[op.key] = None
      [] op.kind = "put" -> t.items[op.to] = Item(n, op.idx)
      [] OTHER -> t.items[op.to] # None /\ t.items[op.to].idx = op.idx

\* What a transaction at pc and at knows of the table of its write i.
Known(t, n, pc, at, i) ==
    LET op == tasks[n].ops[i]
        done == IF pc = "apply" THEN at - 1 ELSE 0
    IN  /\ t # None
        /\ (i > done /\ (pc = "apply" \/ i < at) /\ NotWritten(n, op.table, op.key, 1, done)) => Holds(t, op)
        /\ (i <= done /\ Target(op) # None /\ NotWritten(n, op.table, Target(op), i + 1, done)) => Written(t, n, op)

\* TransactionsAreIsolated for one request, and before that: tables that were found are there
\* until they are deleted.
IsolatedAt(n, pc, at) ==
    tasks[n].kind = "transact" /\ pc # "lock" =>
        \A i \in DOMAIN tasks[n].ops :
            LET t == tasks[n].ops[i].table
            IN  t \notin tasks[n].wiped =>
                    IF pc = "exist" THEN i < at => tables[t] # None ELSE Known(tables[t], n, pc, at, i)

Isolated(n) == IsolatedAt(n, tasks[n].pc, tasks[n].at)

IInv ==
    /\ TablesInv /\ ReadersInv /\ TasksInv
    /\ \A n \in DOMAIN tasks : Isolated(n)
    /\ admin \in Nat /\ reads \in Nat

-----------------------------------------------------------------------------
(* Numbers *)

\* Every set of numbers that is not empty has a least one.  What a recursive function gives is
\* shown with it: there is no least argument for which it gives anything else.
LEMMA LeastNat ==
    ASSUME NEW T \in SUBSET Nat, T # {}
    PROVE  \E x \in T : \A y \in T : x <= y
<1> DEFINE R == {ss \in Nat \X Nat : ss[1] < ss[2]}
<1>1. IsWellFoundedOn(R, Nat)
  BY NatLessThanWellFounded DEF OpToRel
<1>2. PICK x \in T : \A y \in T : <<y, x>> \notin R
  BY <1>1, WFMin
<1>3. ASSUME NEW y \in T PROVE x <= y
  <2>1. x \in Nat /\ y \in Nat
    OBVIOUS
  <2>2. <<y, x>> \notin R
    BY <1>2
  <2> QED BY <2>1, <2>2
<1> QED BY <1>3

-----------------------------------------------------------------------------
(* One write *)

\* The fields of a table have their types.
LEMMA TableTypes ==
    ASSUME NEW t \in TableRecords
    PROVE  /\ t.items \in [Keys -> {None} \cup Items] /\ t.count \in Nat
           /\ t.index \in {None} \cup Indexes /\ t.on \in BOOLEAN /\ t.arn \in {None} \cup Nat
           /\ t.log \in Seq(LogRecords) /\ t.seq \in Nat /\ t.muted \in BOOLEAN
  BY DEF TableRecords

\* A table is known by its fields.
LEMMA TableFields ==
    ASSUME NEW items, NEW count, NEW index, NEW on, NEW arn, NEW log, NEW seq, NEW muted
    PROVE  LET t == Table(items, count, index, on, arn, log, seq, muted)
           IN  /\ t.items = items /\ t.count = count /\ t.index = index /\ t.on = on
               /\ t.arn = arn /\ t.log = log /\ t.seq = seq /\ t.muted = muted
               /\ (items \in [Keys -> {None} \cup Items] /\ count \in Nat /\ index \in {None} \cup Indexes
                   /\ on \in BOOLEAN /\ arn \in {None} \cup Nat /\ log \in Seq(LogRecords) /\ seq \in Nat
                   /\ muted \in BOOLEAN) => t \in TableRecords
  BY DEF Table, TableRecords

\* The keys of the items that carry a value: Carrying, for the items alone.
Bearers(items, v) == {k \in Keys : items[k] # None /\ items[k].idx = v}

\* An entry of the index moves with the item: IndexRemove, then IndexAdd.
LEMMA IndexStep ==
    ASSUME NEW index \in Indexes, NEW items \in [Keys -> {None} \cup Items], NEW key \in Keys,
           NEW new \in {None} \cup Items
    PROVE  LET after == IndexAdd(IndexRemove(index, key, items[key]), key, new)
               now == [items EXCEPT ![key] = new]
           IN  /\ after \in Indexes
               /\ \A v \in IdxVals :
                      /\ Bearers(items, v) \subseteq index[v] => Bearers(now, v) \subseteq after[v]
                      /\ v \notin BoolVals /\ index[v] = Bearers(items, v) => after[v] = Bearers(now, v)
<1> DEFINE removed == IndexRemove(index, key, items[key])
           after == IndexAdd(removed, key, new)
           now == [items EXCEPT ![key] = new]
<1>1. removed \in Indexes
  BY DEF IndexRemove, Indexes
<1>2. after \in Indexes
  BY <1>1 DEF IndexAdd, Indexes
<1>3. now[key] = new /\ \A k \in Keys : k # key => now[k] = items[k]
  OBVIOUS
<1>4. ASSUME NEW v \in IdxVals
      PROVE  /\ Bearers(items, v) \subseteq index[v] => Bearers(now, v) \subseteq after[v]
             /\ v \notin BoolVals /\ index[v] = Bearers(items, v) => after[v] = Bearers(now, v)
  <2>1. removed[v] = IF items[key] # None /\ items[key].idx = v /\ v \notin BoolVals
                     THEN index[v] \ {key} ELSE index[v]
    BY DEF IndexRemove
  <2>2. after[v] = IF new # None /\ new.idx = v THEN removed[v] \cup {key} ELSE removed[v]
    BY DEF IndexAdd
  <2> HIDE DEF removed, after, now
  <2>3. ASSUME Bearers(items, v) \subseteq index[v] PROVE Bearers(now, v) \subseteq after[v]
    BY <1>3, <2>1, <2>2, <2>3 DEF Bearers
  <2>4. ASSUME v \notin BoolVals, index[v] = Bearers(items, v) PROVE after[v] = Bearers(now, v)
    <3>1. ASSUME NEW k \in after[v] PROVE k \in Bearers(now, v)
      BY <1>3, <2>1, <2>2, <2>4, <3>1 DEF Bearers
    <3>2. Bearers(now, v) \subseteq after[v]
      BY <2>3, <2>4
    <3> QED BY <3>1, <3>2
  <2> QED BY <2>3, <2>4
<1> QED BY <1>2, <1>4

\* The count follows the items.
LEMMA CountStep ==
    ASSUME NEW items \in [Keys -> {None} \cup Items], NEW key \in Keys, NEW new \in {None} \cup Items
    PROVE  LET stored(f) == {k \in Keys : f[k] # None}
               now == [items EXCEPT ![key] = new]
           IN  /\ Cardinality(stored(items)) \in Nat /\ Cardinality(stored(now)) \in Nat
               /\ Cardinality(stored(now)) =
                      Cardinality(stored(items)) + (IF new = None THEN 0 ELSE 1)
                          - (IF items[key] = None THEN 0 ELSE 1)
<1> DEFINE stored(f) == {k \in Keys : f[k] # None}
           now == [items EXCEPT ![key] = new]
<1>1. IsFiniteSet(stored(items)) /\ IsFiniteSet(stored(now))
  BY FS_Subset, DynamoDbAssumption
<1>2. Cardinality(stored(items)) \in Nat /\ Cardinality(stored(now)) \in Nat
  BY <1>1, FS_CardinalityType
<1>3. CASE (new = None) <=> (items[key] = None)
  <2>1. stored(now) = stored(items)
    BY <1>3
  <2> QED BY <1>2, <1>3, <2>1
<1>4. CASE new # None /\ items[key] = None
  <2>1. stored(now) = stored(items) \cup {key} /\ key \notin stored(items)
    BY <1>4
  <2> QED BY <1>1, <1>2, <1>4, <2>1, FS_AddElement
<1>5. CASE new = None /\ items[key] # None
  <2>1. stored(now) = stored(items) \ {key} /\ key \in stored(items)
    BY <1>5
  <2>2. Cardinality(stored(now)) = Cardinality(stored(items)) - 1
    BY <1>1, <2>1, FS_RemoveElement
  <2> QED BY <1>2, <1>5, <2>2
<1> QED BY <1>3, <1>4, <1>5

\* The log after a record was added to it: d records went out of it at the front.
Shifted(t, rec, log, d) ==
    /\ log \in Seq(LogRecords) /\ Len(log) = Len(t.log) + 1 - d
    /\ \A i \in 1..Len(log) :
           /\ i + d <= Len(t.log) => log[i] = t.log[i + d]
           /\ i + d = Len(t.log) + 1 => log[i] = rec

\* Table u is table t with the write in its stream.
Recorded(t, u, key, new) ==
    /\ u.muted = t.muted /\ u.seq = t.seq + 1 /\ Len(u.log) <= MaxLog
    /\ \E d \in {0, 1} : Shifted(t, Record(t.seq + 1, key, new), u.log, d)

\* append_stream_record adds a record, and takes one out when the log is full.
LEMMA LogStep ==
    ASSUME NEW t \in TableRecords, Len(t.log) <= MaxLog, NEW key \in Keys, NEW new \in {None} \cup Items
    PROVE  /\ Record(t.seq + 1, key, new) \in LogRecords
           /\ Len(AppendRecord(t, key, new)) <= MaxLog
           /\ \E d \in {0, 1} : Shifted(t, Record(t.seq + 1, key, new), AppendRecord(t, key, new), d)
<1> DEFINE rec == Record(t.seq + 1, key, new)
           full == Append(t.log, rec)
<1>1. t.log \in Seq(LogRecords) /\ t.seq \in Nat /\ MaxLog \in Nat
  BY TableTypes, DynamoDbAssumption
<1>2. rec \in LogRecords
  BY <1>1 DEF Record, LogRecords
<1> HIDE DEF rec
<1>3. full \in Seq(LogRecords) /\ Len(full) = Len(t.log) + 1 /\ full # <<>>
  BY <1>1, <1>2
<1>4. \A i \in 1..Len(full) : full[i] = IF i = Len(t.log) + 1 THEN rec ELSE t.log[i]
  BY <1>1, <1>2
<1>5. AppendRecord(t, key, new) = IF Len(full) > MaxLog THEN Tail(full) ELSE full
  BY DEF AppendRecord, rec
<1> HIDE DEF full
<1>6. CASE Len(full) > MaxLog
  <2>1. Tail(full) \in Seq(LogRecords) /\ Len(Tail(full)) = Len(full) - 1
    BY <1>3
  <2>2. \A i \in 1..Len(Tail(full)) : Tail(full)[i] = full[i + 1]
    BY <1>3
  <2>3. Shifted(t, rec, Tail(full), 1)
    BY <1>1, <1>3, <1>4, <2>1, <2>2 DEF Shifted
  <2> QED BY <1>1, <1>2, <1>3, <1>5, <1>6, <2>1, <2>3 DEF rec
<1>7. CASE ~(Len(full) > MaxLog)
  <2>1. Shifted(t, rec, full, 0)
    BY <1>1, <1>3, <1>4 DEF Shifted
  <2> QED BY <1>1, <1>2, <1>3, <1>5, <1>7, <2>1 DEF rec
<1> QED BY <1>6, <1>7

\* What a write does to a table, in the terms of its fields.
LEMMA WriteFields ==
    ASSUME NEW t \in TableRecords, Counted(t), Contiguous(t), NEW key \in Keys, NEW new \in {None} \cup Items
    PROVE  LET u == Write(t, key, new)
           IN  /\ u \in TableRecords /\ Counted(u)
               /\ u.items = [t.items EXCEPT ![key] = new]
               /\ u.on = t.on /\ u.arn = t.arn
               /\ \/ u = t
                  \/ u.muted /\ u.log = t.log /\ u.seq = t.seq
                  \/ Recorded(t, u, key, new)
<1> DEFINE u == Write(t, key, new)
           old == t.items[key]
           items == [t.items EXCEPT ![key] = new]
           count == t.count + (IF new = None THEN 0 ELSE 1) - (IF old = None THEN 0 ELSE 1)
           index == IF t.index = None THEN None ELSE IndexAdd(IndexRemove(t.index, key, old), key, new)
           log == IF t.on THEN AppendRecord(t, key, new) ELSE t.log
           seq == IF t.on THEN t.seq + 1 ELSE t.seq
           muted == t.muted \/ ~t.on
<1>1. /\ t.items \in [Keys -> {None} \cup Items] /\ t.count \in Nat
      /\ t.index \in {None} \cup Indexes /\ t.on \in BOOLEAN /\ t.arn \in {None} \cup Nat
      /\ t.log \in Seq(LogRecords) /\ t.seq \in Nat /\ t.muted \in BOOLEAN
  BY TableTypes
<1>2. CASE old = None /\ new = None
  <2>1. u = t
    BY <1>2 DEF Write
  <2>2. items = t.items
    BY <1>1, <1>2
  <2> QED BY <2>1, <2>2
<1>3. CASE ~(old = None /\ new = None)
  <2>1. u = Table(items, count, index, t.on, t.arn, log, seq, muted)
    BY <1>3 DEF Write
  <2>2. items \in [Keys -> {None} \cup Items]
    BY <1>1
  <2>3. Len(t.log) <= MaxLog
    BY DEF Contiguous
  <2>4. log \in Seq(LogRecords)
    BY <1>1, <2>3, LogStep DEF Shifted
  <2>5. count \in Nat /\ count = Cardinality({k \in Keys : items[k] # None})
    <3>1. t.count = Cardinality({k \in Keys : t.items[k] # None})
      BY DEF Counted, Stored
    <3>2. /\ Cardinality({k \in Keys : items[k] # None}) \in Nat
          /\ Cardinality({k \in Keys : items[k] # None}) =
                 Cardinality({k \in Keys : t.items[k] # None})
                     + (IF new = None THEN 0 ELSE 1) - (IF t.items[key] = None THEN 0 ELSE 1)
      BY <1>1, CountStep
    <3> QED BY <3>1, <3>2
  <2>6. index \in {None} \cup Indexes
    BY <1>1, IndexStep
  <2>7. seq \in Nat /\ muted \in BOOLEAN
    BY <1>1
  <2>8. index # None => \A v \in IdxVals :
            /\ Bearers(items, v) \subseteq index[v]
            /\ v \notin BoolVals => index[v] = Bearers(items, v)
    <3> SUFFICES ASSUME t.index # None, NEW v \in IdxVals
                 PROVE  /\ Bearers(items, v) \subseteq index[v]
                        /\ v \notin BoolVals => index[v] = Bearers(items, v)
      OBVIOUS
    <3>1. /\ Bearers(t.items, v) \subseteq t.index[v]
          /\ v \notin BoolVals => t.index[v] = Bearers(t.items, v)
      BY DEF Counted, Carrying, Bearers
    <3>2. t.index \in Indexes
      BY <1>1
    <3> DEFINE after == IndexAdd(IndexRemove(t.index, key, t.items[key]), key, new)
    <3>3. /\ Bearers(t.items, v) \subseteq t.index[v] => Bearers(items, v) \subseteq after[v]
          /\ v \notin BoolVals /\ t.index[v] = Bearers(t.items, v) => after[v] = Bearers(items, v)
      BY <1>1, <3>2, IndexStep
    <3>4. index = after
      OBVIOUS
    <3> HIDE DEF index, items, after
    <3> QED BY <3>1, <3>3, <3>4
  <2>9. \/ muted /\ log = t.log /\ seq = t.seq
        \/ /\ muted = t.muted /\ seq = t.seq + 1 /\ Len(log) <= MaxLog
           /\ \E d \in {0, 1} : Shifted(t, Record(t.seq + 1, key, new), log, d)
    BY <1>1, <2>3, LogStep
  <2> HIDE DEF items, count, index, log, seq, muted, u
  <2>10. /\ u.items = items /\ u.count = count /\ u.index = index /\ u.on = t.on
         /\ u.arn = t.arn /\ u.log = log /\ u.seq = seq /\ u.muted = muted
    BY <2>1, TableFields
  <2>11. u \in TableRecords
    BY <1>1, <2>1, <2>2, <2>4, <2>5, <2>6, <2>7, TableFields
  <2>12. Counted(u)
    BY <2>5, <2>8, <2>10 DEF Counted, Stored, Carrying, Bearers
  <2>13. u.items = [t.items EXCEPT ![key] = new]
    BY <2>10 DEF items
  <2> QED BY <2>9, <2>10, <2>11, <2>12, <2>13 DEF u, Recorded
<1> QED BY <1>2, <1>3

\* A record that is added to the log has the next number and the item.
LEMMA StreamStep ==
    ASSUME NEW t \in TableRecords, NEW u \in TableRecords, Contiguous(t), NEW key \in Keys,
           NEW new \in {None} \cup Items, u.items = [t.items EXCEPT ![key] = new],
           Recorded(t, u, key, new)
    PROVE  /\ Contiguous(u)
           /\ Latest(t) => Latest(u)
           /\ \A seen \in Nat : \A replica : seen <= t.seq /\ Replays(t, seen, replica) => Replays(u, seen, replica)
<1> DEFINE m == Len(t.log)
           rec == Record(t.seq + 1, key, new)
<1>0. u.muted = t.muted /\ u.seq = t.seq + 1 /\ Len(u.log) <= MaxLog
  BY DEF Recorded
<1> USE <1>0
<1> PICK d \in {0, 1} : Shifted(t, Record(t.seq + 1, key, new), u.log, d)
  BY DEF Recorded
<1>1. /\ t.items \in [Keys -> {None} \cup Items] /\ t.log \in Seq(LogRecords) /\ t.seq \in Nat
      /\ u.log \in Seq(LogRecords)
  BY TableTypes
<1>2. m \in Nat /\ Len(u.log) = m + 1 - d /\ DOMAIN t.log = 1..m /\ DOMAIN u.log = 1..Len(u.log)
  BY <1>1 DEF Shifted
<1>3. /\ \A i \in DOMAIN u.log : i + d <= m => u.log[i] = t.log[i + d]
      /\ \A i \in DOMAIN u.log : i + d = m + 1 => u.log[i] = rec
  BY <1>2 DEF Shifted
<1>4. rec.seq = t.seq + 1 /\ rec.key = key /\ rec.new = new
  BY DEF Record
<1>5. \A i \in DOMAIN t.log : t.log[i].seq \in Nat /\ t.log[i].key \in Keys /\ t.log[i].seq + m = t.seq + i
  <2>1. \A i \in DOMAIN t.log : t.log[i] \in LogRecords
    BY <1>1
  <2>2. \A i \in DOMAIN t.log : t.log[i].seq + m = t.seq + i
    BY DEF Contiguous
  <2> QED BY <2>1, <2>2 DEF LogRecords
<1>6. u.items[key] = new /\ \A k \in Keys : k # key => u.items[k] = t.items[k]
  BY <1>1
<1> HIDE DEF rec, m
<1>7. ASSUME NEW i \in DOMAIN u.log
      PROVE  /\ i \in Nat /\ i + d >= 1 /\ i + d <= m + 1
             /\ i + d <= m => i + d \in DOMAIN t.log /\ u.log[i] = t.log[i + d]
             /\ i + d = m + 1 => u.log[i] = rec
  BY <1>2, <1>3
<1>8. Contiguous(u)
  <2>1. ASSUME NEW i \in DOMAIN u.log PROVE u.log[i].seq + Len(u.log) = u.seq + i
    <3>1. CASE i + d <= m
      <4>1. u.log[i].seq \in Nat /\ u.log[i].seq + m = t.seq + (i + d)
        BY <1>5, <1>7, <3>1
      <4>2. i \in Nat /\ t.seq \in Nat /\ d \in Nat /\ Len(u.log) = m + 1 - d /\ u.seq = t.seq + 1
        BY <1>1, <1>2, <1>7
      <4> DEFINE s == u.log[i].seq
                 l == Len(u.log)
      <4> HIDE DEF s, l
      <4>3. s \in Nat /\ m \in Nat /\ s + m = t.seq + (i + d) /\ l = m + 1 - d
        BY <1>2, <4>1, <4>2 DEF s, l
      <4>4. s + l = t.seq + 1 + i
        <5>1. CASE d = 0
          BY <4>2, <4>3, <5>1
        <5>2. CASE d = 1
          BY <4>2, <4>3, <5>2
        <5> QED BY <5>1, <5>2
      <4> QED BY <4>2, <4>4 DEF s, l
    <3>2. CASE i + d = m + 1
      BY <1>1, <1>2, <1>4, <1>7, <3>2
    <3> QED BY <1>2, <1>7, <3>1, <3>2
  <2> QED BY <2>1 DEF Contiguous
\* Record i of the new log was the last of its key in the old one, or is the new one.
<1>9. ASSUME Latest(t) PROVE Latest(u)
  <2> SUFFICES ASSUME ~t.muted, NEW i \in DOMAIN u.log,
                      \A j \in DOMAIN u.log : j > i => u.log[j].key # u.log[i].key
               PROVE  u.items[u.log[i].key] = u.log[i].new
    BY DEF Latest
  <2>1. CASE i + d = m + 1
    BY <1>4, <1>6, <1>7, <2>1
  <2>2. CASE i + d <= m
    <3>1. m + 1 - d \in DOMAIN u.log /\ m + 1 - d > i /\ u.log[m + 1 - d] = rec
      <4>1. m + 1 - d \in DOMAIN u.log /\ m + 1 - d > i /\ (m + 1 - d) + d = m + 1
        BY <1>2, <1>7, <2>2
      <4> QED BY <1>3, <4>1
    <3>2. u.log[i].key # key
      BY <1>4, <3>1
    <3>3. i + d \in DOMAIN t.log /\ u.log[i] = t.log[i + d]
      BY <1>7, <2>2
    <3>4. ASSUME NEW j \in DOMAIN t.log, j > i + d PROVE t.log[j].key # t.log[i + d].key
      <4>1. j - d \in DOMAIN u.log /\ j - d > i /\ u.log[j - d] = t.log[j]
        BY <1>2, <1>7, <3>4
      <4> QED BY <3>3, <4>1
    <3>5. t.items[t.log[i + d].key] = t.log[i + d].new
      BY <1>9, <3>3, <3>4 DEF Latest
    <3> QED BY <1>5, <1>6, <3>2, <3>3, <3>5
  <2> QED BY <1>2, <1>7, <2>1, <2>2
\* The record that went out of the log is not one that the replica still lacks.
<1>10. ASSUME NEW seen \in Nat, NEW replica, seen <= t.seq, Replays(t, seen, replica)
       PROVE  Replays(u, seen, replica)
  <2> SUFFICES ASSUME ~t.muted, u.seq <= seen + Len(u.log), NEW k \in Keys,
                      \A i \in DOMAIN u.log : u.log[i].seq > seen => u.log[i].key # k
               PROVE  u.items[k] = replica[k]
    BY DEF Replays
  <2>1. t.seq <= seen + m
    BY <1>1, <1>2
  <2>2. m + 1 - d \in DOMAIN u.log
    BY <1>1, <1>2, <1>10
  <2>3. k # key
    <3>1. u.log[m + 1 - d] = rec
      BY <1>2, <1>7, <2>2
    <3> QED BY <1>1, <1>4, <1>10, <2>2, <3>1
  <2>4. ASSUME NEW j \in DOMAIN t.log, t.log[j].seq > seen PROVE t.log[j].key # k
    <3>1. j > d
      BY <1>1, <1>2, <1>5, <2>4
    <3>2. j - d \in DOMAIN u.log /\ u.log[j - d] = t.log[j]
      BY <1>2, <1>7, <3>1
    <3> QED BY <2>4, <3>2
  <2>5. t.items[k] = replica[k]
    BY <1>10, <2>1, <2>4 DEF Replays, m
  <2> QED BY <1>6, <2>3, <2>5
<1> QED BY <1>8, <1>9, <1>10

\* What every write does: it keeps TableInv, and whoever follows the stream follows it still.
Evolves(t, u) ==
    /\ TableInv(u) /\ u.on = t.on /\ u.arn = t.arn
    /\ \A x \in ReaderRecords : Follows(x, t) => Follows(x, u)

LEMMA WriteStep ==
    ASSUME NEW t, TableInv(t), NEW key \in Keys, NEW new \in {None} \cup Items
    PROVE  /\ Evolves(t, Write(t, key, new))
           /\ Write(t, key, new).items = [t.items EXCEPT ![key] = new]
<1> DEFINE u == Write(t, key, new)
<1>1. t \in TableRecords /\ Counted(t) /\ Contiguous(t) /\ Latest(t) /\ Replays(t, 0, NoItems)
  BY DEF TableInv
<1>2. /\ u \in TableRecords /\ Counted(u)
      /\ u.items = [t.items EXCEPT ![key] = new]
      /\ u.on = t.on /\ u.arn = t.arn
      /\ \/ u = t
         \/ u.muted /\ u.log = t.log /\ u.seq = t.seq
         \/ Recorded(t, u, key, new)
  BY <1>1, WriteFields
<1> HIDE DEF u
<1>3. t.seq \in Nat
  BY <1>1, TableTypes
<1>4. /\ Contiguous(u) /\ Latest(u) /\ t.seq <= u.seq
      /\ \A seen \in Nat : \A replica : seen <= t.seq /\ Replays(t, seen, replica) => Replays(u, seen, replica)
  <2>1. CASE u = t
    BY <1>1, <1>3, <2>1
  <2>2. CASE u.muted /\ u.log = t.log /\ u.seq = t.seq
    BY <1>1, <1>3, <2>2 DEF Contiguous, Latest, Replays
  <2>3. CASE Recorded(t, u, key, new)
    <3>2. /\ Contiguous(u)
          /\ Latest(t) => Latest(u)
          /\ \A seen \in Nat : \A replica : seen <= t.seq /\ Replays(t, seen, replica) => Replays(u, seen, replica)
      BY <1>1, <1>2, <2>3, StreamStep
    <3>3. u.seq = t.seq + 1
      BY <2>3 DEF Recorded
    <3> QED BY <1>1, <1>3, <3>2, <3>3
  <2> QED BY <1>2, <2>1, <2>2, <2>3
<1>5. TableInv(u)
  BY <1>1, <1>2, <1>3, <1>4 DEF TableInv
<1>6. ASSUME NEW x \in ReaderRecords, Follows(x, t) PROVE Follows(x, u)
  <2>1. x.seen \in Nat
    BY DEF ReaderRecords
  <2>2. u.seq \in Nat
    BY <1>2, TableTypes
  <2> QED BY <1>3, <1>4, <1>6, <2>1, <2>2 DEF Follows
<1> QED BY <1>2, <1>5, <1>6 DEF Evolves, u

-----------------------------------------------------------------------------
(* The writes of a request *)

LEMMA EvolvesReflexive ==
    ASSUME NEW t, TableInv(t)
    PROVE  Evolves(t, t)
  BY DEF Evolves

LEMMA EvolvesTransitive ==
    ASSUME NEW t, NEW u, NEW w, Evolves(t, u), Evolves(u, w)
    PROVE  Evolves(t, w)
  BY DEF Evolves

LEMMA OpTypes ==
    ASSUME NEW op \in Ops
    PROVE  /\ op.kind \in {"put", "update", "delete", "check"} /\ op.table \in Tables
           /\ op.key \in Keys \cup {None} /\ op.to \in Keys \cup {None} /\ op.idx \in IdxVals \cup {None}
           /\ op.cond \in {None, "exists", "absent"}
           /\ op.kind \in {"update", "delete"} => op.key \in Keys
           /\ op.cond # None => op.key \in Keys
           /\ Target(op) \in Keys \cup {None}
  BY DEF Ops, Target

\* One write of a request changes what it names and nothing else.
LEMMA AppliedStep ==
    ASSUME NEW t, TableInv(t), NEW n \in Nat, NEW op \in Ops
    PROVE  LET u == Applied(t, n, op)
           IN  /\ Evolves(t, u)
               /\ \A k \in Keys : k # Target(op) => u.items[k] = t.items[k]
               /\ Target(op) # None => Written(u, n, op)
<1> DEFINE u == Applied(t, n, op)
<1>1. t.items \in [Keys -> {None} \cup Items]
  BY TableTypes DEF TableInv
<1>2. None \notin Keys /\ None \notin Items
  BY NoneAssumption
<1>3. CASE op.kind = "delete"
  <2>1. op.key \in Keys /\ u = Write(t, op.key, None) /\ Target(op) = op.key
    BY <1>3, OpTypes DEF Applied, Target
  <2>2. Evolves(t, u) /\ u.items = [t.items EXCEPT ![op.key] = None]
    BY <2>1, WriteStep
  <2> HIDE DEF u
  <2> QED BY <1>1, <1>3, <2>1, <2>2 DEF Written, u
<1>4. CASE op.kind = "put" /\ op.to # None
  <2>1. op.to \in Keys /\ u = Write(t, op.to, Item(n, op.idx)) /\ Target(op) = op.to
    BY <1>4, OpTypes DEF Applied, Target
  <2>2. Item(n, op.idx) \in Items
    BY OpTypes DEF Item, Items
  <2>3. Evolves(t, u) /\ u.items = [t.items EXCEPT ![op.to] = Item(n, op.idx)]
    BY <2>1, <2>2, WriteStep
  <2> HIDE DEF u
  <2> QED BY <1>1, <1>4, <2>1, <2>3 DEF Written, u
<1>5. CASE op.kind = "update" /\ op.to # None
  <2>1. op.key \in Keys /\ op.to \in Keys /\ u = Write(t, op.to, Updated(t, op)) /\ Target(op) = op.to
    BY <1>5, OpTypes DEF Applied, Target
  <2>2. (IF t.items[op.key] = None THEN 0 ELSE t.items[op.key].val) \in Nat
    BY <1>1, <2>1 DEF Items
  <2>3. Updated(t, op) \in Items /\ Updated(t, op).idx = op.idx
    BY <2>2, OpTypes DEF Item, Items, Updated
  <2>4. Evolves(t, u) /\ u.items = [t.items EXCEPT ![op.to] = Updated(t, op)]
    BY <2>1, <2>3, WriteStep
  <2> HIDE DEF u
  <2>5. u.items[op.to] = Updated(t, op) /\ \A k \in Keys : k # op.to => u.items[k] = t.items[k]
    BY <1>1, <2>1, <2>4
  <2>6. Written(u, n, op)
    BY <1>2, <1>5, <2>3, <2>5 DEF Written
  <2> QED BY <2>1, <2>4, <2>5, <2>6 DEF u
<1>6. CASE op.kind = "check" \/ (op.kind \in {"put", "update"} /\ op.to = None)
  <2>1. u = t /\ Target(op) = None
    BY <1>6 DEF Applied, Target
  <2> QED BY <2>1, EvolvesReflexive
<1> QED BY <1>3, <1>4, <1>5, <1>6, OpTypes

\* The writes of a batch, one after the other: Batched is the last value of a function that
\* there is, and no least number of writes does anything but let the table evolve.
LEMMA BatchedStep ==
    ASSUME NEW t, TableInv(t), NEW n \in Nat, NEW name, NEW ops \in Seq(Ops)
    PROVE  Evolves(t, Batched(t, n, name, ops))
<1> DEFINE value(f, i) ==
               IF i = 0 THEN t
               ELSE IF ops[i].table = name THEN Applied(f[i - 1], n, ops[i]) ELSE f[i - 1]
           upTo(f, m) == f = [i \in 0..m |-> value(f, i)]
           len == Len(ops)
<1>1. len \in Nat
  OBVIOUS
<1>2. \E f : upTo(f, len)
  <2> DEFINE missing == {m \in 0..len : ~ \E f : upTo(f, m)}
  <2> SUFFICES ASSUME missing # {} PROVE FALSE
    BY <1>1
  <2>1. missing \in SUBSET Nat
    BY <1>1
  <2>2. PICK m \in missing : \A x \in missing : m <= x
    BY <2>1, LeastNat
  <2>3. CASE m = 0
    <3>1. upTo([i \in 0..0 |-> t], 0)
      OBVIOUS
    <3> QED BY <2>2, <2>3, <3>1
  <2>4. CASE m # 0
    <3>1. m \in Nat /\ m - 1 \in 0..len /\ m - 1 < m
      BY <1>1, <2>1, <2>4
    <3>2. PICK g : upTo(g, m - 1)
      BY <2>2, <3>1
    <3> DEFINE f == [i \in 0..m |-> value(g, i)]
    <3>3. \A i \in 0..(m - 1) : g[i] = value(g, i)
      BY <3>2
    <3>4. \A i \in 0..m : i # 0 => i - 1 \in 0..(m - 1) /\ i - 1 \in 0..m
      BY <3>1
    <3>5. \A i \in 0..m : i # 0 => f[i - 1] = g[i - 1]
      BY <3>3, <3>4
    <3> HIDE DEF f
    <3>6. \A i \in 0..m : value(f, i) = value(g, i)
      BY <3>5
    <3>7. upTo(f, m)
      BY <3>6 DEF f
    <3> QED BY <2>2, <3>7
  <2> QED BY <2>3, <2>4
<1> DEFINE after == CHOOSE f : upTo(f, len)
<1>3. upTo(after, len)
  BY <1>2
<1>4. Batched(t, n, name, ops) = after[len]
  BY DEF Batched
<1> HIDE DEF after
<1>5. \A i \in 0..len : after[i] = value(after, i)
  BY <1>3
<1> DEFINE astray == {i \in 0..len : ~Evolves(t, after[i])}
<1>6. astray = {}
  <2> SUFFICES ASSUME astray # {} PROVE FALSE
    OBVIOUS
  <2>1. astray \in SUBSET Nat
    BY <1>1
  <2>2. PICK i \in astray : \A x \in astray : i <= x
    BY <2>1, LeastNat
  <2>3. i \in 0..len /\ ~Evolves(t, after[i])
    BY <2>2
  <2>4. CASE i = 0
    BY <1>5, <2>3, <2>4, EvolvesReflexive
  <2>5. CASE i # 0
    <3>1. i \in 1..len /\ i - 1 \in 0..len /\ ~(i <= i - 1)
      BY <1>1, <2>3, <2>5
    <3>2. Evolves(t, after[i - 1])
      BY <2>2, <3>1
    <3>3. ops[i] \in Ops
      BY <3>1
    <3>4. Evolves(after[i - 1], Applied(after[i - 1], n, ops[i]))
      BY <3>2, <3>3, AppliedStep DEF Evolves
    <3>5. after[i] \in {after[i - 1], Applied(after[i - 1], n, ops[i])}
      BY <1>5, <2>3, <2>5
    <3> QED BY <2>3, <3>2, <3>4, <3>5, EvolvesTransitive
  <2> QED BY <2>4, <2>5
<1> QED BY <1>1, <1>4, <1>6

-----------------------------------------------------------------------------
(* Requests in flight *)

Pcs == {"lock", "exist", "check", "apply"}

LEMMA TaskTypes ==
    ASSUME TasksInv, NEW n \in DOMAIN tasks
    PROVE  /\ n \in Nat /\ tasks[n] \in TaskRecords
           /\ tasks[n].kind \in {"write", "batch", "transact"} /\ tasks[n].pc \in Pcs
           /\ tasks[n].ops \in Seq(Ops) /\ DOMAIN tasks[n].ops = 1..Len(tasks[n].ops)
           /\ Len(tasks[n].ops) \in Nat /\ tasks[n].at \in 1..Len(tasks[n].ops)
           /\ tasks[n].held \in SUBSET Tables /\ tasks[n].wiped \in SUBSET Tables
           /\ \A i \in DOMAIN tasks[n].ops :
                  /\ tasks[n].ops[i] \in Ops /\ tasks[n].ops[i].table \in Tables
                  /\ tasks[n].ops[i].table \in Touched(n)
           /\ Current(n) \in Ops /\ Current(n).table \in Touched(n) /\ Touched(n) \subseteq Tables
<1>1. n \in Nat /\ tasks[n] \in TaskRecords /\ tasks[n].at \in DOMAIN tasks[n].ops
  BY DEF TasksInv
<1>2. /\ tasks[n].kind \in {"write", "batch", "transact"} /\ tasks[n].pc \in Pcs
      /\ tasks[n].ops \in Seq(Ops) /\ tasks[n].held \in SUBSET Tables /\ tasks[n].wiped \in SUBSET Tables
  BY <1>1 DEF TaskRecords, Pcs
<1>3. DOMAIN tasks[n].ops = 1..Len(tasks[n].ops) /\ Len(tasks[n].ops) \in Nat
  BY <1>2
<1>4. ASSUME NEW i \in DOMAIN tasks[n].ops
      PROVE  /\ tasks[n].ops[i] \in Ops /\ tasks[n].ops[i].table \in Tables
             /\ tasks[n].ops[i].table \in Touched(n)
  BY <1>2, <1>3, OpTypes DEF Touched
<1>5. Touched(n) \subseteq Tables
  BY <1>4 DEF Touched
<1> QED BY <1>1, <1>2, <1>3, <1>4, <1>5 DEF Current

LEMMA TaskFields ==
    ASSUME NEW kind, NEW ops, NEW pc, NEW at, NEW held, NEW wiped
    PROVE  LET c == Task(kind, ops, pc, at, held, wiped)
           IN  /\ c.kind = kind /\ c.ops = ops /\ c.pc = pc /\ c.at = at /\ c.held = held /\ c.wiped = wiped
               /\ (kind \in {"write", "batch", "transact"} /\ ops \in Seq(Ops) /\ pc \in Pcs /\ at \in Nat
                   /\ held \in SUBSET Tables /\ wiped \in SUBSET Tables) => c \in TaskRecords
  BY DEF Task, TaskRecords, Pcs

\* A request that goes on to pc and at with these locks, which nobody else has.
LEMMA TaskMoved ==
    ASSUME TasksInv, NEW n \in DOMAIN tasks, NEW pc \in Pcs, NEW at \in DOMAIN tasks[n].ops,
           NEW held \in SUBSET Touched(n), Move(n, pc, at, held), LockedAt(n, pc, at, held),
           \A m \in DOMAIN tasks : m # n => tasks[m].held \cap held = {},
           UNCHANGED requests
    PROVE  /\ TasksInv' /\ DOMAIN tasks' = DOMAIN tasks
           /\ \A m \in DOMAIN tasks : m # n => tasks'[m] = tasks[m]
           /\ tasks'[n].kind = tasks[n].kind /\ tasks'[n].ops = tasks[n].ops
           /\ tasks'[n].pc = pc /\ tasks'[n].at = at /\ tasks'[n].wiped = tasks[n].wiped
<1> DEFINE c == Task(tasks[n].kind, tasks[n].ops, pc, at, held, tasks[n].wiped)
<1>1. /\ c.kind = tasks[n].kind /\ c.ops = tasks[n].ops /\ c.pc = pc /\ c.at = at /\ c.held = held
      /\ c.wiped = tasks[n].wiped
  BY TaskFields
<1>2. at \in Nat /\ held \in SUBSET Tables
  BY TaskTypes
<1>3. c \in TaskRecords
  BY <1>2, TaskTypes, TaskFields
<1>4. tasks' = [tasks EXCEPT ![n] = c]
  BY DEF Move
<1> HIDE DEF c
<1>5. /\ DOMAIN tasks' = DOMAIN tasks /\ tasks'[n] = c
      /\ \A m \in DOMAIN tasks : m # n => tasks'[m] = tasks[m]
      /\ tasks' \in [DOMAIN tasks' -> TaskRecords]
  BY <1>3, <1>4 DEF TasksInv
<1>6. \A m \in DOMAIN tasks : Touched(m)' = Touched(m)
  BY <1>1, <1>5 DEF Touched
<1>7. \A m \in DOMAIN tasks : Locked(m)'
  <2>1. ASSUME NEW m \in DOMAIN tasks, m # n PROVE Locked(m)'
    BY <1>5, <1>6, <2>1 DEF TasksInv, Locked, LockedAt
  <2>2. Locked(n)'
    BY <1>1, <1>5, <1>6 DEF Locked, LockedAt
  <2> QED BY <2>1, <2>2
<1>8. \A m \in DOMAIN tasks : tasks'[m].at \in DOMAIN tasks'[m].ops /\ tasks'[m].held \subseteq Touched(m)'
  BY <1>1, <1>5, <1>6 DEF TasksInv
<1>9. \A m, k \in DOMAIN tasks : k # m => tasks'[k].held \cap tasks'[m].held = {}
  BY <1>1, <1>5 DEF TasksInv
<1>10. TasksInv'
  BY <1>5, <1>7, <1>8, <1>9 DEF TasksInv
<1> QED BY <1>1, <1>5, <1>10

\* A request that ends takes nothing with it but its locks.
LEMMA TaskFinished ==
    ASSUME TasksInv, NEW n \in DOMAIN tasks, Finish(n), UNCHANGED requests
    PROVE  /\ TasksInv' /\ DOMAIN tasks' = DOMAIN tasks \ {n}
           /\ \A m \in DOMAIN tasks : m # n => tasks'[m] = tasks[m]
<1>1. /\ DOMAIN tasks' = DOMAIN tasks \ {n} /\ \A m \in DOMAIN tasks : m # n => tasks'[m] = tasks[m]
      /\ tasks' \in [DOMAIN tasks' -> TaskRecords]
  BY DEF Finish, TasksInv
<1>2. \A m \in DOMAIN tasks' : m \in DOMAIN tasks /\ tasks'[m] = tasks[m] /\ Touched(m)' = Touched(m)
  BY <1>1 DEF Touched
<1>3. \A m \in DOMAIN tasks' : Locked(m)'
  BY <1>2 DEF TasksInv, Locked, LockedAt
<1>4. TasksInv'
  BY <1>1, <1>2, <1>3 DEF TasksInv
<1> QED BY <1>1, <1>4

\* What a transaction knows of its tables stays true as long as nobody else writes to those it
\* holds, and those that are deleted are noted.
LEMMA StaysIsolated ==
    ASSUME TasksInv, NEW m \in DOMAIN tasks, Isolated(m),
           tasks'[m].kind = tasks[m].kind, tasks'[m].ops = tasks[m].ops, tasks'[m].pc = tasks[m].pc,
           tasks'[m].at = tasks[m].at, tasks[m].wiped \subseteq tasks'[m].wiped,
           \A t \in tasks[m].held : t \notin tasks'[m].wiped /\ tables[t] # None =>
               tables'[t] # None /\ tables'[t].items = tables[t].items
    PROVE  Isolated(m)'
<1> SUFFICES ASSUME tasks[m].kind = "transact", tasks[m].pc # "lock", NEW i \in DOMAIN tasks[m].ops,
                    tasks[m].ops[i].table \notin tasks'[m].wiped
             PROVE  IF tasks[m].pc = "exist" THEN i < tasks[m].at => tables'[tasks[m].ops[i].table] # None
                    ELSE Known(tables[tasks[m].ops[i].table], m, tasks[m].pc, tasks[m].at, i)'
  BY DEF Isolated, IsolatedAt
<1> DEFINE op == tasks[m].ops[i]
           t == op.table
<1>1. t \in tasks[m].held
  BY TaskTypes DEF TasksInv, Locked, LockedAt
<1>2. t \notin tasks[m].wiped
  OBVIOUS
<1>3. IF tasks[m].pc = "exist" THEN i < tasks[m].at => tables[t] # None
      ELSE Known(tables[t], m, tasks[m].pc, tasks[m].at, i)
  BY <1>2 DEF Isolated, IsolatedAt
<1>4. CASE tasks[m].pc = "exist"
  BY <1>1, <1>3, <1>4
<1>5. CASE tasks[m].pc # "exist"
  <2>1. tables[t] # None
    BY <1>3, <1>5 DEF Known
  <2>2. tables'[t] # None /\ tables'[t].items = tables[t].items
    BY <1>1, <2>1
  <2>3. Holds(tables[t], op) => Holds(tables'[t], op)
    BY <2>2 DEF Holds
  <2>4. Written(tables[t], m, op) => Written(tables'[t], m, op)
    BY <2>2 DEF Written
  <2>5. \A k, lo, hi : NotWritten(m, t, k, lo, hi)' <=> NotWritten(m, t, k, lo, hi)
    BY DEF NotWritten
  <2>6. Known(tables[t], m, tasks[m].pc, tasks[m].at, i)'
    BY <1>3, <1>5, <2>2, <2>3, <2>4, <2>5 DEF Known
  <2> QED BY <1>5, <2>6
<1> QED BY <1>4, <1>5

-----------------------------------------------------------------------------
(* The steps of requests *)

\* Writes, of whatever number to whatever tables, keep tables and readers as they should be.
LEMMA TablesEvolve ==
    ASSUME TablesInv, ReadersInv, UNCHANGED <<arns, readers>>, tables' = [t \in Tables |-> tables'[t]],
           \A t \in Tables : tables'[t] = tables[t] \/ (tables[t] # None /\ Evolves(tables[t], tables'[t]))
    PROVE  TablesInv' /\ ReadersInv'
<1>1. ASSUME NEW t \in Tables, tables'[t] # tables[t]
      PROVE  /\ tables[t] # None /\ tables'[t] # None /\ tables'[t] \in TableRecords /\ TableInv(tables'[t])
             /\ tables'[t].on = tables[t].on /\ tables'[t].arn = tables[t].arn
             /\ \A x \in ReaderRecords : Follows(x, tables[t]) => Follows(x, tables'[t])
  <2>1. tables[t] # None /\ Evolves(tables[t], tables'[t])
    BY <1>1
  <2>2. tables'[t] \in TableRecords
    BY <2>1 DEF Evolves, TableInv
  <2> QED BY <2>1, <2>2, NoneAssumption DEF Evolves
<1>2. \A t \in Tables : /\ (tables'[t] = None) <=> (tables[t] = None)
                        /\ tables'[t] # None =>
                               tables'[t].on = tables[t].on /\ tables'[t].arn = tables[t].arn
  BY <1>1
<1>3. tables' \in [Tables -> {None} \cup TableRecords]
  BY <1>1 DEF TablesInv
<1>4. \A t \in Tables : tables'[t] # None => TableInv(tables'[t])
  BY <1>1 DEF TablesInv
<1>5. TablesInv'
  BY <1>2, <1>3, <1>4 DEF TablesInv
<1>6. ASSUME NEW r \in Readers, readers[r] # None, NEW t \in Tables, tables'[t] # None,
             tables'[t].arn = readers[r].arn
      PROVE  Follows(readers[r], tables'[t])
  <2>1. readers[r] \in ReaderRecords
    BY <1>6 DEF ReadersInv
  <2>2. Follows(readers[r], tables[t])
    BY <1>2, <1>6 DEF ReadersInv
  <2> QED BY <1>1, <2>1, <2>2
<1>7. ReadersInv'
  BY <1>6 DEF ReadersInv, Follows, Replays
<1> QED BY <1>5, <1>7

\* Steps that leave tables and readers alone.
LEMMA TablesStay ==
    ASSUME TablesInv, ReadersInv, UNCHANGED <<tables, arns, readers>>
    PROVE  TablesInv' /\ ReadersInv'
  BY DEF TablesInv, ReadersInv

\* A request comes.
LEMMA ArriveStep ==
    ASSUME IInv, NEW q \in Requests, Arrive(q)
    PROVE  IInv'
<1> PICK n \in Nat : n = requests + 1
  BY DEF IInv, TasksInv
<1> DEFINE c == Task(q.kind, q.ops, "lock", 1, {}, {})
<1>1. q.kind \in {"write", "batch", "transact"} /\ q.ops \in Seq(Ops) /\ q.ops # <<>>
  BY DynamoDbAssumption
<1>2. /\ requests \in Nat /\ n \notin DOMAIN tasks /\ n \in Nat /\ DOMAIN tasks \subseteq 1..n
      /\ n \in 1..n
  BY DEF IInv, TasksInv
<1>3. /\ requests' = n /\ UNCHANGED <<tables, admin, arns, readers, reads>>
      /\ tasks' = [m \in DOMAIN tasks \cup {n} |-> IF m = n THEN c ELSE tasks[m]]
  BY DEF Arrive
<1>4. /\ c.kind = q.kind /\ c.ops = q.ops /\ c.pc = "lock" /\ c.at = 1 /\ c.held = {} /\ c.wiped = {}
  BY TaskFields
<1>5. c \in TaskRecords
  <2>1. "lock" \in Pcs
    BY DEF Pcs
  <2>2. 1 \in Nat /\ {} \in SUBSET Tables
    OBVIOUS
  <2> QED BY <1>1, <2>1, <2>2, TaskFields
<1> HIDE DEF c
<1>6. /\ DOMAIN tasks' = DOMAIN tasks \cup {n} /\ tasks'[n] = c
      /\ \A m \in DOMAIN tasks : tasks'[m] = tasks[m]
      /\ tasks' \in [DOMAIN tasks' -> TaskRecords]
  BY <1>2, <1>3, <1>5 DEF IInv, TasksInv
<1>7. 1 \in DOMAIN q.ops
  BY <1>1
<1>8. Touched(n)' # {} /\ \A m \in DOMAIN tasks : Touched(m)' = Touched(m)
  <2>1. q.ops[1].table \in Touched(n)'
    BY <1>4, <1>6, <1>7 DEF Touched
  <2> QED BY <1>6, <2>1 DEF Touched
<1>9. \A m \in DOMAIN tasks' : Locked(m)'
  <2>1. ASSUME NEW m \in DOMAIN tasks PROVE Locked(m)'
    BY <1>6, <1>8 DEF IInv, TasksInv, Locked, LockedAt
  <2>2. Locked(n)'
    BY <1>4, <1>6, <1>8 DEF Locked, LockedAt
  <2> QED BY <1>6, <2>1, <2>2
<1>10. \A m \in DOMAIN tasks' : tasks'[m].at \in DOMAIN tasks'[m].ops /\ tasks'[m].held \subseteq Touched(m)'
  BY <1>4, <1>6, <1>7, <1>8 DEF IInv, TasksInv
<1>11. \A m, k \in DOMAIN tasks' : k # m => tasks'[k].held \cap tasks'[m].held = {}
  BY <1>4, <1>6 DEF IInv, TasksInv
<1>12. TasksInv'
  BY <1>2, <1>3, <1>6, <1>9, <1>10, <1>11 DEF TasksInv
<1>13. ASSUME NEW m \in DOMAIN tasks' PROVE Isolated(m)'
  <2>1. CASE m = n
    BY <1>4, <1>6, <2>1 DEF Isolated, IsolatedAt
  <2>2. CASE m # n
    BY <1>3, <1>6, <2>2, StaysIsolated DEF IInv
  <2> QED BY <2>1, <2>2
<1> QED BY <1>3, <1>12, <1>13, TablesStay DEF IInv

\* A request waits for a lock, gets it, and has them all or goes on to the next one.
LEMMA AcquireStep ==
    ASSUME IInv, NEW n \in DOMAIN tasks, Acquire(n)
    PROVE  IInv'
<1> DEFINE lock == NextLock(n)
           held == tasks[n].held \cup {lock}
           transact == tasks[n].kind = "transact"
           pc == IF ~transact THEN "apply" ELSE IF Touched(n) \subseteq held THEN "exist" ELSE "lock"
           at == IF ~transact THEN tasks[n].at ELSE 1
<1>1. /\ tasks[n].pc = "lock" /\ \A m \in DOMAIN tasks : lock \notin tasks[m].held
      /\ Move(n, pc, at, held) /\ UNCHANGED <<tables, requests, admin, arns, readers, reads>>
  BY DEF Acquire
<1>2. TasksInv
  BY DEF IInv
<1>3. tasks[n].held \subseteq Touched(n) /\ Locked(n) /\ tasks[n].at \in DOMAIN tasks[n].ops
  BY <1>2 DEF TasksInv
<1>4. lock \in Touched(n) /\ (~transact => lock = tasks[n].ops[at].table)
  <2>1. CASE transact
    <3>1. Touched(n) \ tasks[n].held # {} /\ Touched(n) \ tasks[n].held \in SUBSET Nat
      BY <1>1, <1>2, <1>3, <2>1, TaskTypes, DynamoDbAssumption DEF Locked, LockedAt
    <3>2. \E t \in Touched(n) \ tasks[n].held : \A u \in Touched(n) \ tasks[n].held : t <= u
      BY <3>1, LeastNat
    <3> QED BY <2>1, <3>2 DEF NextLock
  <2>2. CASE ~transact
    BY <1>2, <2>2, TaskTypes DEF NextLock, Current
  <2> QED BY <2>1, <2>2
<1>5. pc \in Pcs
  BY DEF Pcs
<1>6. at \in DOMAIN tasks[n].ops
  BY <1>2, TaskTypes
<1>7. held \in SUBSET Touched(n)
  BY <1>3, <1>4
<1>8. LockedAt(n, pc, at, held)
  BY <1>4, <1>7 DEF LockedAt
<1>9. \A m \in DOMAIN tasks : m # n => tasks[m].held \cap held = {}
  BY <1>1, <1>2 DEF TasksInv
<1> HIDE DEF pc, at, held, lock
<1>10. /\ TasksInv' /\ DOMAIN tasks' = DOMAIN tasks
       /\ \A m \in DOMAIN tasks : m # n => tasks'[m] = tasks[m]
       /\ tasks'[n].kind = tasks[n].kind /\ tasks'[n].ops = tasks[n].ops
       /\ tasks'[n].pc = pc /\ tasks'[n].at = at /\ tasks'[n].wiped = tasks[n].wiped
  BY <1>1, <1>2, <1>5, <1>6, <1>7, <1>8, <1>9, TaskMoved
<1>11. ASSUME NEW m \in DOMAIN tasks, m # n PROVE Isolated(m)'
  BY <1>1, <1>2, <1>10, <1>11, StaysIsolated DEF IInv
<1>12. Isolated(n)'
  BY <1>2, <1>6, <1>10, TaskTypes DEF Isolated, IsolatedAt, pc, at
<1> QED BY <1>1, <1>10, <1>11, <1>12, TablesStay DEF IInv

\* A request that ends without a write: the others go on as before.
LEMMA FinishStep ==
    ASSUME IInv, NEW n \in DOMAIN tasks, Finish(n), UNCHANGED <<tables, requests, admin, arns, readers, reads>>
    PROVE  IInv'
<1>1. TasksInv /\ TasksInv' /\ DOMAIN tasks' = DOMAIN tasks \ {n}
  BY TaskFinished DEF IInv
<1>2. \A m \in DOMAIN tasks : m # n => tasks'[m] = tasks[m]
  BY TaskFinished DEF IInv
<1>3. ASSUME NEW m \in DOMAIN tasks' PROVE Isolated(m)'
  <2>1. m \in DOMAIN tasks /\ tasks'[m] = tasks[m]
    BY <1>1, <1>2
  <2> QED BY <1>1, <2>1, StaysIsolated DEF IInv
<1> QED BY <1>1, <1>3, TablesStay DEF IInv

\* A transaction goes on to its next write, to the next pass, or ends.
LEMMA TaskAdvanced ==
    ASSUME TasksInv, NEW n \in DOMAIN tasks, tasks[n].kind = "transact", tasks[n].pc # "lock",
           NEW next, next \in Pcs \/ next = "done", next # "lock", Advance(n, next), UNCHANGED requests
    PROVE  /\ TasksInv' /\ \A m \in DOMAIN tasks : m # n => tasks'[m] = tasks[m]
           /\ \/ DOMAIN tasks' = DOMAIN tasks \ {n}
              \/ /\ DOMAIN tasks' = DOMAIN tasks
                 /\ tasks'[n].kind = tasks[n].kind /\ tasks'[n].ops = tasks[n].ops
                 /\ tasks'[n].wiped = tasks[n].wiped
                 /\ \/ /\ tasks[n].at < Len(tasks[n].ops)
                       /\ tasks'[n].pc = tasks[n].pc /\ tasks'[n].at = tasks[n].at + 1
                    \/ /\ tasks[n].at = Len(tasks[n].ops) /\ next # "done"
                       /\ tasks'[n].pc = next /\ tasks'[n].at = 1
<1>1. /\ tasks[n].pc \in Pcs /\ DOMAIN tasks[n].ops = 1..Len(tasks[n].ops) /\ Len(tasks[n].ops) \in Nat
      /\ tasks[n].at \in 1..Len(tasks[n].ops)
  BY TaskTypes
<1>2. tasks[n].held = Touched(n) /\ \A m \in DOMAIN tasks : m # n => tasks[m].held \cap tasks[n].held = {}
  BY DEF TasksInv, Locked, LockedAt
<1>3. tasks[n].held \in SUBSET Touched(n)
  BY <1>2
<1>4. CASE tasks[n].at < Len(tasks[n].ops)
  <2>1. Move(n, tasks[n].pc, tasks[n].at + 1, tasks[n].held)
    BY <1>4 DEF Advance
  <2>2. tasks[n].at + 1 \in DOMAIN tasks[n].ops
    BY <1>1, <1>4
  <2>3. LockedAt(n, tasks[n].pc, tasks[n].at + 1, tasks[n].held)
    BY <1>2 DEF LockedAt
  <2>4. /\ TasksInv' /\ DOMAIN tasks' = DOMAIN tasks
        /\ \A m \in DOMAIN tasks : m # n => tasks'[m] = tasks[m]
        /\ tasks'[n].kind = tasks[n].kind /\ tasks'[n].ops = tasks[n].ops
        /\ tasks'[n].pc = tasks[n].pc /\ tasks'[n].at = tasks[n].at + 1 /\ tasks'[n].wiped = tasks[n].wiped
    BY <1>1, <1>2, <1>3, <2>1, <2>2, <2>3, TaskMoved
  <2> QED BY <1>4, <2>4
<1>5. CASE ~(tasks[n].at < Len(tasks[n].ops)) /\ next # "done"
  <2>1. Move(n, next, 1, tasks[n].held)
    BY <1>5 DEF Advance
  <2>2. 1 \in DOMAIN tasks[n].ops /\ tasks[n].at = Len(tasks[n].ops) /\ next \in Pcs
    BY <1>1, <1>5
  <2>3. LockedAt(n, next, 1, tasks[n].held)
    BY <1>2 DEF LockedAt
  <2> QED BY <1>2, <1>3, <1>5, <2>1, <2>2, <2>3, TaskMoved
<1>6. CASE ~(tasks[n].at < Len(tasks[n].ops)) /\ next = "done"
  BY <1>6, TaskFinished DEF Advance
<1> QED BY <1>4, <1>5, <1>6

\* A request that changes only a table it holds leaves the transactions of others alone.
LEMMA OthersStayIsolated ==
    ASSUME IInv, NEW n \in DOMAIN tasks, \A m \in DOMAIN tasks : m # n => tasks'[m] = tasks[m],
           NEW t \in tasks[n].held, \A u \in Tables : u # t => tables'[u] = tables[u]
    PROVE  \A m \in DOMAIN tasks : m # n => Isolated(m)'
<1> SUFFICES ASSUME NEW m \in DOMAIN tasks, m # n PROVE Isolated(m)'
  OBVIOUS
<1>1. TasksInv /\ Isolated(m) /\ tasks'[m] = tasks[m]
  BY DEF IInv
<1>2. t \notin tasks[m].held
  BY <1>1 DEF TasksInv
<1>3. \A u \in tasks[m].held : tables'[u] = tables[u]
  BY <1>1, <1>2, TaskTypes
<1> QED BY <1>1, <1>3, StaysIsolated

\* ... and neither does one that changes no table.
LEMMA OthersStay ==
    ASSUME IInv, NEW n \in DOMAIN tasks, \A m \in DOMAIN tasks : m # n => tasks'[m] = tasks[m], UNCHANGED tables
    PROVE  \A m \in DOMAIN tasks : m # n => Isolated(m)'
<1> SUFFICES ASSUME NEW m \in DOMAIN tasks, m # n PROVE Isolated(m)'
  OBVIOUS
<1> QED BY StaysIsolated DEF IInv

\* The tables of a transaction are looked for.
LEMMA ExistStep ==
    ASSUME IInv, NEW n \in DOMAIN tasks, Exist(n)
    PROVE  IInv'
<1>1. TasksInv /\ Locked(n) /\ tasks[n].pc = "exist" /\ UNCHANGED <<tables, requests, admin, arns, readers, reads>>
  BY DEF IInv, TasksInv, Exist
<1>2. CASE tables[Current(n).table] = None
  BY <1>1, <1>2, FinishStep DEF Exist
<1>3. CASE tables[Current(n).table] # None
  <2>1. tasks[n].kind = "transact"
    BY <1>1 DEF Locked, LockedAt
  <2>2. "check" \in Pcs /\ Advance(n, "check")
    BY <1>3 DEF Pcs, Exist
  <2>3. /\ TasksInv' /\ \A m \in DOMAIN tasks : m # n => tasks'[m] = tasks[m]
        /\ \/ DOMAIN tasks' = DOMAIN tasks \ {n}
           \/ /\ DOMAIN tasks' = DOMAIN tasks
              /\ tasks'[n].kind = tasks[n].kind /\ tasks'[n].ops = tasks[n].ops
              /\ tasks'[n].wiped = tasks[n].wiped
              /\ \/ /\ tasks[n].at < Len(tasks[n].ops)
                    /\ tasks'[n].pc = tasks[n].pc /\ tasks'[n].at = tasks[n].at + 1
                 \/ /\ tasks[n].at = Len(tasks[n].ops)
                    /\ tasks'[n].pc = "check" /\ tasks'[n].at = 1
    BY <1>1, <2>1, <2>2, TaskAdvanced
  <2>4. \A m \in DOMAIN tasks : m # n => Isolated(m)'
    BY <1>1, <2>3, OthersStay
  <2>5. \A i \in DOMAIN tasks[n].ops : i <= tasks[n].at /\ tasks[n].ops[i].table \notin tasks[n].wiped =>
            tables[tasks[n].ops[i].table] # None
    BY <1>1, <1>3, <2>1, TaskTypes DEF IInv, Isolated, IsolatedAt, Current
  <2>6. ASSUME n \in DOMAIN tasks' PROVE Isolated(n)'
    <3>1. CASE tasks'[n].pc = "exist" /\ tasks'[n].at = tasks[n].at + 1
      <4>1. ASSUME NEW i \in DOMAIN tasks[n].ops, tasks[n].ops[i].table \notin tasks[n].wiped, i < tasks[n].at + 1
            PROVE  tables[tasks[n].ops[i].table] # None
        BY <1>1, <2>5, <4>1, TaskTypes
      <4> QED BY <1>1, <2>3, <2>6, <3>1, <4>1 DEF Isolated, IsolatedAt
    <3>2. CASE tasks[n].at = Len(tasks[n].ops) /\ tasks'[n].pc = "check" /\ tasks'[n].at = 1
      <4>1. ASSUME NEW i \in DOMAIN tasks[n].ops, tasks[n].ops[i].table \notin tasks[n].wiped
            PROVE  Known(tables[tasks[n].ops[i].table], n, "check", 1, i)'
        <5>1. tables[tasks[n].ops[i].table] # None
          BY <1>1, <2>5, <3>2, <4>1, TaskTypes
        <5>2. i \in Nat /\ i >= 1
          BY <1>1, TaskTypes
        <5>3. tasks'[n].ops = tasks[n].ops /\ tables' = tables
          BY <1>1, <2>3, <2>6
        <5> QED BY <5>1, <5>2, <5>3 DEF Known
      <4> QED BY <1>1, <2>3, <2>6, <3>2, <4>1 DEF Isolated, IsolatedAt
    <3> QED BY <1>1, <2>3, <2>6, <3>1, <3>2
  <2> QED BY <1>1, <2>3, <2>4, <2>6, TablesStay DEF IInv
<1> QED BY <1>2, <1>3

\* The conditions of a transaction are checked.
LEMMA CheckStep ==
    ASSUME IInv, NEW n \in DOMAIN tasks, Check(n)
    PROVE  IInv'
<1>1. TasksInv /\ Locked(n) /\ tasks[n].pc = "check" /\ UNCHANGED <<tables, requests, admin, arns, readers, reads>>
  BY DEF IInv, TasksInv, Check
<1>2. CASE ~Passes(n)
  BY <1>1, <1>2, FinishStep DEF Check
<1>3. CASE Passes(n)
  <2>1. tasks[n].kind = "transact"
    BY <1>1 DEF Locked, LockedAt
  <2>2. "apply" \in Pcs /\ Advance(n, "apply")
    BY <1>3 DEF Pcs, Check
  <2>3. /\ TasksInv' /\ \A m \in DOMAIN tasks : m # n => tasks'[m] = tasks[m]
        /\ \/ DOMAIN tasks' = DOMAIN tasks \ {n}
           \/ /\ DOMAIN tasks' = DOMAIN tasks
              /\ tasks'[n].kind = tasks[n].kind /\ tasks'[n].ops = tasks[n].ops
              /\ tasks'[n].wiped = tasks[n].wiped
              /\ \/ /\ tasks[n].at < Len(tasks[n].ops)
                    /\ tasks'[n].pc = tasks[n].pc /\ tasks'[n].at = tasks[n].at + 1
                 \/ /\ tasks[n].at = Len(tasks[n].ops)
                    /\ tasks'[n].pc = "apply" /\ tasks'[n].at = 1
    BY <1>1, <2>1, <2>2, TaskAdvanced
  <2>4. \A m \in DOMAIN tasks : m # n => Isolated(m)'
    BY <1>1, <2>3, OthersStay
  <2>5. ASSUME NEW i \in DOMAIN tasks[n].ops, tasks[n].ops[i].table \notin tasks[n].wiped
        PROVE  /\ tables[tasks[n].ops[i].table] # None
               /\ i <= tasks[n].at => Holds(tables[tasks[n].ops[i].table], tasks[n].ops[i])
    <3>1. i \in Nat /\ tasks[n].at \in Nat /\ i >= 1
      BY <1>1, TaskTypes
    <3>2. Known(tables[tasks[n].ops[i].table], n, "check", tasks[n].at, i)
      BY <1>1, <2>1, <2>5 DEF IInv, Isolated, IsolatedAt
    <3>3. tables[tasks[n].ops[i].table] # None
      BY <3>2 DEF Known
    <3>4. CASE i < tasks[n].at
      <4>1. NotWritten(n, tasks[n].ops[i].table, tasks[n].ops[i].key, 1, 0)
        BY DEF NotWritten
      <4> QED BY <3>1, <3>2, <3>3, <3>4, <4>1 DEF Known
    <3>5. CASE i = tasks[n].at
      <4>1. tasks[n].ops[i].cond # None => Holds(tables[tasks[n].ops[i].table], tasks[n].ops[i])
        BY <1>3, <3>5 DEF Passes, Current
      <4>2. tasks[n].ops[i].cond = None => Holds(tables[tasks[n].ops[i].table], tasks[n].ops[i])
        BY NoneAssumption DEF Holds
      <4> QED BY <3>3, <4>1, <4>2
    <3> QED BY <3>1, <3>3, <3>4, <3>5
  <2>6. ASSUME n \in DOMAIN tasks' PROVE Isolated(n)'
    <3>1. CASE tasks'[n].pc = "check" /\ tasks'[n].at = tasks[n].at + 1
      <4>1. ASSUME NEW i \in DOMAIN tasks[n].ops, tasks[n].ops[i].table \notin tasks[n].wiped
            PROVE  Known(tables[tasks[n].ops[i].table], n, "check", tasks[n].at, i)'
        <5>1. i \in Nat /\ tasks[n].at \in Nat /\ i >= 1
          BY <1>1, TaskTypes
        <5>2. tasks'[n].ops = tasks[n].ops /\ tables' = tables /\ tasks'[n].at = tasks[n].at + 1
          BY <1>1, <2>3, <2>6, <3>1
        <5> QED BY <2>5, <4>1, <5>1, <5>2 DEF Known
      <4> QED BY <1>1, <2>3, <2>6, <3>1, <4>1 DEF Isolated, IsolatedAt
    <3>2. CASE tasks[n].at = Len(tasks[n].ops) /\ tasks'[n].pc = "apply" /\ tasks'[n].at = 1
      <4>1. ASSUME NEW i \in DOMAIN tasks[n].ops, tasks[n].ops[i].table \notin tasks[n].wiped
            PROVE  Known(tables[tasks[n].ops[i].table], n, "apply", 1, i)'
        <5>1. i \in Nat /\ i >= 1 /\ i <= tasks[n].at
          BY <1>1, <3>2, TaskTypes
        <5>2. tasks'[n].ops = tasks[n].ops /\ tables' = tables
          BY <1>1, <2>3, <2>6
        <5> QED BY <2>5, <4>1, <5>1, <5>2 DEF Known
      <4> QED BY <1>1, <2>3, <2>6, <3>2, <4>1 DEF Isolated, IsolatedAt
    <3> QED BY <1>1, <2>3, <2>6, <3>1, <3>2
  <2> QED BY <1>1, <2>3, <2>4, <2>6, TablesStay DEF IInv
<1> QED BY <1>2, <1>3

\* A write to a table that the request holds, or none: tables, readers and the transactions of
\* others are as they should be.
LEMMA TableWritten ==
    ASSUME IInv, NEW n \in DOMAIN tasks, \A m \in DOMAIN tasks : m # n => tasks'[m] = tasks[m],
           NEW t \in tasks[n].held, NEW u, u = tables[t] \/ (tables[t] # None /\ Evolves(tables[t], u)),
           tables' = [tables EXCEPT ![t] = u], UNCHANGED <<arns, readers>>
    PROVE  /\ TablesInv' /\ ReadersInv' /\ tables'[t] = u /\ \A s \in Tables : s # t => tables'[s] = tables[s]
           /\ \A m \in DOMAIN tasks : m # n => Isolated(m)'
<1>1. TablesInv /\ ReadersInv /\ TasksInv
  BY DEF IInv
<1>2. t \in Tables
  BY <1>1, TaskTypes
<1>3. /\ tables'[t] = u /\ \A s \in Tables : s # t => tables'[s] = tables[s]
      /\ tables' = [s \in Tables |-> tables'[s]]
  BY <1>1, <1>2 DEF TablesInv
<1>4. \A s \in Tables : tables'[s] = tables[s] \/ (tables[s] # None /\ Evolves(tables[s], tables'[s]))
  BY <1>3
<1>5. TablesInv' /\ ReadersInv'
  BY <1>1, <1>3, <1>4, TablesEvolve
<1>6. \A m \in DOMAIN tasks : m # n => Isolated(m)'
  BY <1>3, OthersStayIsolated
<1> QED BY <1>3, <1>5, <1>6

\* A condition, and a write, are about one key.
LEMMA HoldsOfKey ==
    ASSUME NEW op \in Ops, NEW t, NEW u, op.key \in Keys => u.items[op.key] = t.items[op.key], Holds(t, op)
    PROVE  Holds(u, op)
<1>1. CASE op.cond = None
  BY <1>1, NoneAssumption DEF Holds
<1>2. CASE op.cond # None
  <2>1. op.key \in Keys
    BY <1>2, OpTypes
  <2> QED BY <2>1 DEF Holds
<1> QED BY <1>1, <1>2

LEMMA WrittenOfKey ==
    ASSUME NEW op \in Ops, NEW t, NEW u, NEW n, Target(op) # None,
           u.items[Target(op)] = t.items[Target(op)], Written(t, n, op)
    PROVE  Written(u, n, op)
<1>1. CASE op.kind = "delete"
  BY <1>1 DEF Written, Target
<1>2. CASE op.kind # "delete"
  <2>1. Target(op) = op.to
    BY <1>2 DEF Target
  <2> QED BY <1>2, <2>1 DEF Written
<1> QED BY <1>1, <1>2

\* What a transaction knows of a table after its next write to that table or to another.
LEMMA KnownAfter ==
    ASSUME TasksInv, NEW n \in DOMAIN tasks, tasks[n].pc = "apply", NEW i \in DOMAIN tasks[n].ops,
           NEW t, NEW u, TableInv(t), Known(t, n, "apply", tasks[n].at, i),
           u = IF tasks[n].ops[i].table = Current(n).table THEN Applied(t, n, Current(n)) ELSE t
    PROVE  Known(u, n, "apply", tasks[n].at + 1, i)
<1> DEFINE op == tasks[n].ops[i]
           cur == Current(n)
           at == tasks[n].at
           same == op.table = cur.table
<1>1. n \in Nat /\ op \in Ops /\ cur \in Ops /\ at \in Nat /\ at >= 1 /\ i \in Nat /\ i >= 1 /\ cur = tasks[n].ops[at]
  BY TaskTypes DEF Current
<1>2. at - 1 \in Nat /\ at + 1 - 1 = at /\ (i > at => i > at - 1) /\ (i <= at => i <= at - 1 \/ i = at)
  BY <1>1
<1>3. /\ Evolves(t, Applied(t, n, cur))
      /\ \A k \in Keys : k # Target(cur) => Applied(t, n, cur).items[k] = t.items[k]
      /\ Target(cur) # None => Written(Applied(t, n, cur), n, cur)
  BY <1>1, AppliedStep
<1>4. u # None
  <2>1. Applied(t, n, cur) \in TableRecords /\ t \in TableRecords
    BY <1>3 DEF Evolves, TableInv
  <2> QED BY <2>1, NoneAssumption
<1>5. \A k \in Keys : (same => k # Target(cur)) => u.items[k] = t.items[k]
  BY <1>3
<1>6. \A k, lo : lo \in Nat /\ lo <= at /\ NotWritten(n, op.table, k, lo, at) =>
          NotWritten(n, op.table, k, lo, at - 1) /\ (same => Target(cur) # k)
  BY <1>1 DEF NotWritten
<1>7. ASSUME i > at, NotWritten(n, op.table, op.key, 1, at) PROVE Holds(u, op)
  <2>1. NotWritten(n, op.table, op.key, 1, at - 1) /\ (same => Target(cur) # op.key)
    BY <1>1, <1>6, <1>7
  <2>2. Holds(t, op)
    BY <1>2, <1>7, <2>1 DEF Known
  <2>3. op.key \in Keys => u.items[op.key] = t.items[op.key]
    BY <1>5, <2>1
  <2> QED BY <1>1, <2>2, <2>3, HoldsOfKey
<1>8. ASSUME i <= at, Target(op) # None, NotWritten(n, op.table, Target(op), i + 1, at) PROVE Written(u, n, op)
  <2>1. CASE i = at
    BY <1>1, <1>3, <1>8, <2>1
  <2>2. CASE i <= at - 1
    <3>1. i + 1 \in Nat /\ i + 1 <= at
      BY <1>1, <2>2
    <3>2. NotWritten(n, op.table, Target(op), i + 1, at - 1) /\ (same => Target(cur) # Target(op))
      BY <1>6, <1>8, <3>1
    <3>3. Written(t, n, op)
      BY <1>8, <2>2, <3>2 DEF Known
    <3>4. Target(op) \in Keys
      BY <1>1, <1>8, OpTypes
    <3>5. u.items[Target(op)] = t.items[Target(op)]
      BY <1>5, <3>2, <3>4
    <3> QED BY <1>1, <1>8, <3>3, <3>5, WrittenOfKey
  <2> QED BY <1>2, <1>8, <2>1, <2>2
<1>9. (at + 1) - 1 = at
  BY <1>1
<1>10. i > (at + 1) - 1 /\ NotWritten(n, op.table, op.key, 1, (at + 1) - 1) => Holds(u, op)
  BY <1>7, <1>9, Zenon
<1>11. i <= (at + 1) - 1 /\ Target(op) # None /\ NotWritten(n, op.table, Target(op), i + 1, (at + 1) - 1) =>
           Written(u, n, op)
  BY <1>8, <1>9, Zenon
<1> QED BY <1>4, <1>10, <1>11 DEF Known

\* The second pass of a transaction.
LEMMA ApplyTransactStep ==
    ASSUME IInv, NEW n \in DOMAIN tasks, ApplyTransact(n)
    PROVE  IInv'
<1> DEFINE cur == Current(n)
           t == cur.table
           u == IF tables[t] = None THEN None ELSE Applied(tables[t], n, cur)
<1>1. /\ TasksInv /\ TablesInv /\ Isolated(n) /\ Locked(n)
      /\ tasks[n].kind = "transact" /\ tasks[n].pc = "apply" /\ Advance(n, "done")
      /\ UNCHANGED <<requests, admin, arns, readers, reads>>
  BY DEF IInv, TasksInv, ApplyTransact
<1>2. t \in tasks[n].held /\ t \in Tables /\ cur \in Ops /\ n \in Nat
  BY <1>1, TaskTypes DEF Locked, LockedAt
<1>3. tables' = [tables EXCEPT ![t] = u]
  BY <1>1, <1>2 DEF ApplyTransact, TablesInv
<1>4. u = tables[t] \/ (tables[t] # None /\ Evolves(tables[t], u))
  BY <1>1, <1>2, AppliedStep DEF TablesInv
<1>5. /\ TasksInv' /\ \A m \in DOMAIN tasks : m # n => tasks'[m] = tasks[m]
      /\ \/ DOMAIN tasks' = DOMAIN tasks \ {n}
         \/ /\ DOMAIN tasks' = DOMAIN tasks
            /\ tasks'[n].kind = tasks[n].kind /\ tasks'[n].ops = tasks[n].ops
            /\ tasks'[n].wiped = tasks[n].wiped
            /\ tasks'[n].pc = "apply" /\ tasks'[n].at = tasks[n].at + 1
  BY <1>1, TaskAdvanced
<1> HIDE DEF u
<1>6. /\ TablesInv' /\ ReadersInv' /\ tables'[t] = u /\ \A s \in Tables : s # t => tables'[s] = tables[s]
      /\ \A m \in DOMAIN tasks : m # n => Isolated(m)'
  BY <1>1, <1>2, <1>3, <1>4, <1>5, TableWritten
<1>7. ASSUME n \in DOMAIN tasks', NEW i \in DOMAIN tasks[n].ops, tasks[n].ops[i].table \notin tasks[n].wiped
      PROVE  Known(tables[tasks[n].ops[i].table], n, "apply", tasks[n].at, i)'
  <2> DEFINE s == tasks[n].ops[i].table
  <2>1. Known(tables[s], n, "apply", tasks[n].at, i)
    BY <1>1, <1>7 DEF Isolated, IsolatedAt
  <2>2. tables[s] # None /\ s \in Tables
    BY <1>1, <2>1, TaskTypes DEF Known
  <2>3. tables'[s] = IF s = t THEN Applied(tables[s], n, cur) ELSE tables[s]
    BY <1>6, <2>2 DEF u
  <2>4. Known(tables'[s], n, "apply", tasks[n].at + 1, i)
    BY <1>1, <2>1, <2>2, <2>3, KnownAfter DEF TablesInv
  <2>5. tasks'[n].ops = tasks[n].ops /\ tasks'[n].at = tasks[n].at + 1
    BY <1>5, <1>7
  <2>6. \A k, lo, hi : NotWritten(n, s, k, lo, hi)' <=> NotWritten(n, s, k, lo, hi)
    BY <2>5 DEF NotWritten
  <2> QED BY <2>4, <2>5, <2>6 DEF Known
<1>8. ASSUME n \in DOMAIN tasks' PROVE Isolated(n)'
  BY <1>5, <1>7, <1>8 DEF Isolated, IsolatedAt
<1> QED BY <1>1, <1>5, <1>6, <1>8 DEF IInv

\* PutItem, UpdateItem and DeleteItem.
LEMMA WriteItemStep ==
    ASSUME IInv, NEW n \in DOMAIN tasks, NEW kind, WriteItem(n, kind)
    PROVE  IInv'
<1> DEFINE cur == Current(n)
           t == cur.table
           u == IF tables[t] = None \/ ~Holds(tables[t], cur) THEN tables[t] ELSE Applied(tables[t], n, cur)
<1>1. /\ TasksInv /\ TablesInv /\ Locked(n)
      /\ tasks[n].kind = "write" /\ tasks[n].pc = "apply" /\ Finish(n)
      /\ UNCHANGED <<requests, admin, arns, readers, reads>>
  BY DEF IInv, TasksInv, WriteItem
<1>2. t \in tasks[n].held /\ t \in Tables /\ cur \in Ops /\ n \in Nat
  BY <1>1, TaskTypes DEF Locked, LockedAt, Current
<1>3. tables' = [tables EXCEPT ![t] = u]
  BY <1>1, <1>2 DEF WriteItem, TablesInv
<1>4. u = tables[t] \/ (tables[t] # None /\ Evolves(tables[t], u))
  BY <1>1, <1>2, AppliedStep DEF TablesInv
<1>5. /\ TasksInv' /\ DOMAIN tasks' = DOMAIN tasks \ {n}
      /\ \A m \in DOMAIN tasks : m # n => tasks'[m] = tasks[m]
  BY <1>1, TaskFinished
<1> HIDE DEF u
<1>6. TablesInv' /\ ReadersInv' /\ \A m \in DOMAIN tasks : m # n => Isolated(m)'
  BY <1>1, <1>2, <1>3, <1>4, <1>5, TableWritten
<1> QED BY <1>1, <1>5, <1>6 DEF IInv

\* A batch writes to one table, and goes on to the next or ends.
LEMMA BatchWriteItemStep ==
    ASSUME IInv, NEW n \in DOMAIN tasks, BatchWriteItem(n)
    PROVE  IInv'
<1> DEFINE t == Current(n).table
           ops == tasks[n].ops
           u == Batched(tables[t], n, t, ops)
           next == tasks[n].at + Cardinality({i \in DOMAIN ops : ops[i].table = t})
<1>1. /\ TasksInv /\ TablesInv /\ Locked(n)
      /\ tasks[n].kind = "batch" /\ tasks[n].pc = "apply" /\ UNCHANGED <<requests, admin, arns, readers, reads>>
  BY DEF IInv, TasksInv, BatchWriteItem
<1>2. t \in tasks[n].held /\ t \in Tables /\ n \in Nat /\ ops \in Seq(Ops)
  BY <1>1, TaskTypes DEF Locked, LockedAt, Current
<1>3. CASE tables[t] = None
  BY <1>1, <1>3, FinishStep DEF BatchWriteItem
<1>4. CASE tables[t] # None
  <2>1. tables' = [tables EXCEPT ![t] = u]
    BY <1>1, <1>2, <1>4 DEF BatchWriteItem, TablesInv
  <2>2. Evolves(tables[t], u)
    BY <1>1, <1>2, <1>4, BatchedStep DEF TablesInv
  <2>3. IF next > Len(ops) THEN Finish(n) ELSE Move(n, "lock", next, {})
    BY <1>4 DEF BatchWriteItem
  <2> HIDE DEF u
  <2>4. TasksInv' /\ \A m \in DOMAIN tasks : m # n => tasks'[m] = tasks[m]
    <3>1. CASE next > Len(ops)
      BY <1>1, <2>3, <3>1, TaskFinished
    <3>2. CASE ~(next > Len(ops))
      <4>1. IsFiniteSet({i \in DOMAIN ops : ops[i].table = t})
        <5>1. IsFiniteSet(1..Len(ops)) /\ DOMAIN ops = 1..Len(ops)
          <6>1. Len(ops) \in Int /\ 1 \in Int /\ DOMAIN ops = 1..Len(ops)
            BY <1>2
          <6> QED BY <6>1, FS_Interval
        <5> QED BY <5>1, FS_Subset
      <4>2. Cardinality({i \in DOMAIN ops : ops[i].table = t}) \in Nat
        BY <4>1, FS_CardinalityType
      <4>3. next \in DOMAIN ops
        BY <1>1, <1>2, <3>2, <4>2, TaskTypes
      <4> HIDE DEF next
      <4>4. "lock" \in Pcs /\ {} \in SUBSET Touched(n) /\ LockedAt(n, "lock", next, {})
        BY <1>1 DEF Pcs, LockedAt
      <4> QED BY <1>1, <2>3, <3>2, <4>3, <4>4, TaskMoved
    <3> QED BY <3>1, <3>2
  <2>5. TablesInv' /\ ReadersInv' /\ \A m \in DOMAIN tasks : m # n => Isolated(m)'
    BY <1>1, <1>2, <1>4, <2>1, <2>2, <2>4, TableWritten
  <2>6. DOMAIN tasks' \subseteq DOMAIN tasks /\ (n \in DOMAIN tasks' => tasks'[n].kind # "transact")
    <3>1. CASE Finish(n)
      BY <3>1 DEF Finish
    <3>2. CASE Move(n, "lock", next, {})
      BY <1>1, <3>2, TaskFields DEF Move
    <3> QED BY <2>3, <3>1, <3>2
  <2>7. n \in DOMAIN tasks' => Isolated(n)'
    BY <2>6 DEF Isolated, IsolatedAt
  <2> QED BY <1>1, <2>4, <2>5, <2>6, <2>7 DEF IInv
<1> QED BY <1>3, <1>4

-----------------------------------------------------------------------------
(* Operations on whole tables *)

\* A table is made, deleted or changed: it has no stream, a new one or the one it had.
LEMMA TableChanged ==
    ASSUME TablesInv, ReadersInv, NEW t \in Tables, NEW u, tables' = [tables EXCEPT ![t] = u],
           arns' \in {arns, arns + 1}, UNCHANGED readers,
           u # None =>
               /\ u.on => u.arn \in 1..arns'
               /\ u.arn # None =>
                      \/ u.arn = arns + 1 /\ arns' = arns + 1
                      \/ /\ tables[t] # None /\ u.arn = tables[t].arn
                         /\ \A x \in ReaderRecords : Follows(x, tables[t]) => Follows(x, u),
           u # None => TableInv(u)
    PROVE  TablesInv' /\ ReadersInv'
<1>1. /\ tables'[t] = u /\ \A s \in Tables : s # t => tables'[s] = tables[s]
      /\ arns \in Nat /\ arns' \in Nat /\ arns <= arns'
  BY DEF TablesInv
<1>2. u # None => u \in TableRecords
  BY DEF TableInv
<1>3. tables' \in [Tables -> {None} \cup TableRecords]
  BY <1>2 DEF TablesInv
<1>4. \A s \in Tables : tables[s] # None => tables[s].arn \in {None} \cup Nat
  BY TableTypes DEF TablesInv, TableInv
<1>5. \A s \in Tables : tables'[s] # None =>
          /\ TableInv(tables'[s])
          /\ tables'[s].on => tables'[s].arn \in 1..arns'
  <2>1. ASSUME NEW s \in Tables, s # t, tables[s] # None
        PROVE  TableInv(tables[s]) /\ (tables[s].on => tables[s].arn \in 1..arns')
    BY <1>1, <2>1 DEF TablesInv
  <2> QED BY <1>1, <2>1
<1>6. ASSUME NEW s \in Tables, tables'[s] # None, tables'[s].arn # None
      PROVE  /\ tables'[s].arn <= arns'
             /\ \A w \in Tables : w # s /\ tables'[w] # None => tables'[w].arn # tables'[s].arn
  <2>1. CASE s # t
    <3>1. tables[s] # None /\ tables'[s] = tables[s] /\ tables[s].arn \in Nat /\ tables[s].arn <= arns
      BY <1>1, <1>4, <1>6, <2>1 DEF TablesInv
    <3>2. ASSUME NEW w \in Tables, w # s, tables'[w] # None, w # t PROVE tables'[w].arn # tables[s].arn
      BY <1>1, <1>6, <3>1, <3>2 DEF TablesInv
    <3>3. ASSUME u # None PROVE u.arn # tables[s].arn
      BY <1>1, <1>6, <2>1, <3>1, <3>3 DEF TablesInv
    <3> QED BY <1>1, <3>1, <3>2, <3>3
  <2>2. CASE s = t
    <3>1. u.arn <= arns'
      BY <1>1, <1>4, <1>6, <2>2 DEF TablesInv
    <3>2. ASSUME NEW w \in Tables, w # t, tables[w] # None PROVE tables[w].arn # u.arn
      <4>1. tables[w].arn # None => tables[w].arn \in Nat /\ tables[w].arn <= arns
        BY <1>4, <3>2 DEF TablesInv
      <4> QED BY <1>1, <1>6, <2>2, <3>2, <4>1 DEF TablesInv
    <3> QED BY <1>1, <2>2, <3>1, <3>2
  <2> QED BY <2>1, <2>2
<1>7. TablesInv'
  BY <1>1, <1>3, <1>5, <1>6 DEF TablesInv
<1>8. ASSUME NEW r \in Readers, readers[r] # None
      PROVE  /\ readers[r].arn <= arns'
             /\ \A s \in Tables : tables'[s] # None /\ tables'[s].arn = readers[r].arn => Follows(readers[r], tables'[s])
  <2>1. readers[r] \in ReaderRecords /\ readers[r].arn \in Nat /\ readers[r].arn <= arns
    BY <1>8 DEF ReadersInv, ReaderRecords
  <2>2. ASSUME NEW s \in Tables, s # t, tables[s] # None, tables[s].arn = readers[r].arn
        PROVE  Follows(readers[r], tables[s])
    BY <1>8, <2>2 DEF ReadersInv
  <2>3. ASSUME u # None, u.arn = readers[r].arn PROVE Follows(readers[r], u)
    <3>1. u.arn # None /\ u.arn # arns + 1
      BY <1>1, <2>1, <2>3, NoneAssumption
    <3>2. tables[t] # None /\ u.arn = tables[t].arn
      BY <2>3, <3>1
    <3>3. Follows(readers[r], tables[t])
      BY <1>8, <2>3, <3>2 DEF ReadersInv
    <3> QED BY <2>1, <2>3, <3>1, <3>3
  <2> QED BY <1>1, <2>1, <2>2, <2>3
<1>9. ReadersInv'
  BY <1>8 DEF ReadersInv, Follows, Replays
<1> QED BY <1>7, <1>9

\* A table that is new is as it should be.
LEMMA NewTableInv ==
    ASSUME NEW indexed \in BOOLEAN, NEW arn \in {None} \cup Nat
    PROVE  /\ TableInv(NewTable(indexed, arn))
           /\ NewTable(indexed, arn).arn = arn /\ NewTable(indexed, arn).on = (arn # None)
<1> DEFINE index == IF indexed THEN EmptyIndex ELSE None
           u == Table(NoItems, 0, index, arn # None, arn, <<>>, 0, FALSE)
<1>1. u = NewTable(indexed, arn)
  BY DEF NewTable, NoItems
<1>2. EmptyIndex \in Indexes /\ index \in {None} \cup Indexes
  BY DEF EmptyIndex, Indexes
<1>3. NoItems \in [Keys -> {None} \cup Items] /\ \A k \in Keys : NoItems[k] = None
  BY DEF NoItems
<1>4. <<>> \in Seq(LogRecords) /\ Len(<<>>) = 0 /\ DOMAIN <<>> = {} /\ 0 \in Nat
  OBVIOUS
<1> HIDE DEF index
<1>5. /\ u.items = NoItems /\ u.count = 0 /\ u.index = index /\ u.on = (arn # None)
      /\ u.arn = arn /\ u.log = <<>> /\ u.seq = 0 /\ u.muted = FALSE
  BY DEF Table
<1>6. u \in TableRecords
  BY <1>2, <1>3, <1>4, TableFields
<1> HIDE DEF u
<1>7. Stored(u) = {} /\ \A v : Carrying(u, v) = {}
  BY <1>3, <1>5 DEF Stored, Carrying
<1>8. index # None => \A v \in IdxVals : index[v] = {}
  BY DEF index, EmptyIndex
<1>9. Counted(u)
  BY <1>5, <1>7, <1>8, FS_EmptySet DEF Counted
<1>10. Contiguous(u)
  BY <1>4, <1>5, DynamoDbAssumption DEF Contiguous
<1>11. Latest(u)
  BY <1>4, <1>5 DEF Latest
<1>12. Replays(u, 0, NoItems)
  BY <1>5 DEF Replays
<1> QED BY <1>1, <1>5, <1>6, <1>9, <1>10, <1>11, <1>12 DEF TableInv

\* The tables that transactions hold are what they were, unless they are deleted.
LEMMA TransactionsStay ==
    ASSUME IInv, UNCHANGED <<tasks, requests>>,
           \A t \in Tables : tables[t] # None => tables'[t] # None /\ tables'[t].items = tables[t].items
    PROVE  TasksInv' /\ \A n \in DOMAIN tasks' : Isolated(n)'
<1>1. TasksInv
  BY DEF IInv
<1>2. ASSUME NEW n \in DOMAIN tasks PROVE Isolated(n)'
  <2>1. \A t \in tasks[n].held : t \in Tables
    BY <1>1, TaskTypes
  <2> QED BY <1>1, <2>1, StaysIsolated DEF IInv
<1>3. TasksInv'
  BY <1>1 DEF TasksInv, Touched, Locked, LockedAt
<1> QED BY <1>2, <1>3

LEMMA CreateTableStep ==
    ASSUME IInv, NEW t \in Tables, NEW indexed \in BOOLEAN, NEW streamed \in BOOLEAN,
           CreateTable(t, indexed, streamed)
    PROVE  IInv'
<1> DEFINE arn == IF streamed THEN arns + 1 ELSE None
           u == NewTable(indexed, arn)
<1>1. /\ tables[t] = None /\ tables' = [tables EXCEPT ![t] = u] /\ admin' = admin + 1
      /\ arns' = (IF streamed THEN arns + 1 ELSE arns) /\ UNCHANGED <<tasks, requests, readers, reads>>
  BY DEF CreateTable
<1>2. arns \in Nat /\ TablesInv /\ ReadersInv
  BY DEF IInv, TablesInv
<1>3. arn \in {None} \cup Nat /\ (arn # None => arn = arns + 1 /\ arns' = arns + 1 /\ arn \in 1..arns')
  BY <1>1, <1>2
<1>4. TableInv(u) /\ u.arn = arn /\ u.on = (arn # None)
  BY <1>3, NewTableInv
<1>5. arns' \in {arns, arns + 1}
  BY <1>1
<1> HIDE DEF u, arn
<1>6. TablesInv' /\ ReadersInv'
  BY <1>1, <1>2, <1>3, <1>4, <1>5, TableChanged
<1>7. \A s \in Tables : tables[s] # None => tables'[s] # None /\ tables'[s].items = tables[s].items
  BY <1>1, <1>2 DEF TablesInv
<1>8. TasksInv' /\ \A n \in DOMAIN tasks' : Isolated(n)'
  BY <1>1, <1>7, TransactionsStay
<1> QED BY <1>1, <1>6, <1>8 DEF IInv

\* A table is deleted under those who hold its lock, who are not told.
LEMMA DeleteTableStep ==
    ASSUME IInv, NEW t \in Tables, DeleteTable(t)
    PROVE  IInv'
<1> DEFINE c(n) == Task(tasks[n].kind, tasks[n].ops, tasks[n].pc, tasks[n].at, tasks[n].held,
                        tasks[n].wiped \cup {t})
<1>1. /\ tables' = [tables EXCEPT ![t] = None] /\ tasks' = [n \in DOMAIN tasks |-> c(n)]
      /\ admin' = admin + 1 /\ UNCHANGED <<requests, arns, readers, reads>>
  BY DEF DeleteTable
<1>2. TasksInv /\ TablesInv /\ ReadersInv
  BY DEF IInv
<1>3. TablesInv' /\ ReadersInv'
  BY <1>1, <1>2, TableChanged
<1>4. ASSUME NEW n \in DOMAIN tasks
      PROVE  /\ tasks'[n] \in TaskRecords /\ tasks'[n].kind = tasks[n].kind /\ tasks'[n].ops = tasks[n].ops
             /\ tasks'[n].pc = tasks[n].pc /\ tasks'[n].at = tasks[n].at /\ tasks'[n].held = tasks[n].held
             /\ tasks'[n].wiped = tasks[n].wiped \cup {t}
  <2>1. tasks'[n] = c(n)
    BY <1>1
  <2>2. tasks[n].at \in Nat /\ tasks[n].wiped \cup {t} \in SUBSET Tables
    BY <1>2, TaskTypes
  <2>3. c(n) \in TaskRecords
    BY <1>2, <2>2, TaskTypes, TaskFields
  <2> QED BY <2>1, <2>3, TaskFields
<1>5. DOMAIN tasks' = DOMAIN tasks /\ tasks' \in [DOMAIN tasks' -> TaskRecords]
  BY <1>1, <1>4
<1>6. \A n \in DOMAIN tasks : Touched(n)' = Touched(n)
  BY <1>4 DEF Touched
<1>7. \A n \in DOMAIN tasks : Locked(n)'
  BY <1>2, <1>4, <1>6 DEF TasksInv, Locked, LockedAt
<1>8. TasksInv'
  <2>1. \A n \in DOMAIN tasks : tasks'[n].at \in DOMAIN tasks'[n].ops /\ tasks'[n].held \subseteq Touched(n)'
    BY <1>2, <1>4, <1>6 DEF TasksInv
  <2>2. \A n, m \in DOMAIN tasks : m # n => tasks'[m].held \cap tasks'[n].held = {}
    BY <1>2, <1>4 DEF TasksInv
  <2>3. DOMAIN tasks \subseteq 1..requests /\ requests \in Nat
    BY <1>2 DEF TasksInv
  <2> QED BY <1>1, <1>5, <1>7, <2>1, <2>2, <2>3 DEF TasksInv
<1>9. ASSUME NEW n \in DOMAIN tasks PROVE Isolated(n)'
  <2>1. \A s \in tasks[n].held : s \in Tables
    BY <1>2, TaskTypes
  <2>2. \A s \in tasks[n].held : s \notin tasks'[n].wiped /\ tables[s] # None =>
            tables'[s] # None /\ tables'[s].items = tables[s].items
    BY <1>1, <1>2, <1>4, <2>1 DEF TablesInv
  <2> QED BY <1>2, <1>4, <2>2, StaysIsolated DEF IInv
<1> QED BY <1>1, <1>3, <1>5, <1>8, <1>9 DEF IInv

\* The index is made anew from the items, or goes; the stream is switched.
LEMMA UpdateTableStep ==
    ASSUME IInv, NEW t \in Tables, NEW stream, NEW index, UpdateTable(t, stream, index)
    PROVE  IInv'
<1> DEFINE old == tables[t]
           on == IF stream = "keep" THEN old.on ELSE stream = "on"
           fresh == on /\ ~old.on
           idx == IF index = "create" THEN Backfilled(old) ELSE IF index = "delete" THEN None ELSE old.index
           arn == IF fresh THEN arns + 1 ELSE old.arn
           u == Table(old.items, old.count, idx, on, arn, old.log, old.seq, old.muted)
<1>1. /\ old # None /\ tables' = [tables EXCEPT ![t] = u] /\ admin' = admin + 1
      /\ arns' = (IF fresh THEN arns + 1 ELSE arns) /\ UNCHANGED <<tasks, requests, readers, reads>>
  BY DEF UpdateTable
<1>2. TablesInv /\ ReadersInv /\ arns \in Nat
  BY DEF IInv, TablesInv
<1>3. TableInv(old) /\ old \in TableRecords /\ (old.on => old.arn \in 1..arns)
  BY <1>1, <1>2 DEF TablesInv, TableInv
<1>4. /\ old.items \in [Keys -> {None} \cup Items] /\ old.count \in Nat
      /\ old.index \in {None} \cup Indexes /\ old.on \in BOOLEAN /\ old.arn \in {None} \cup Nat
      /\ old.log \in Seq(LogRecords) /\ old.seq \in Nat /\ old.muted \in BOOLEAN
  BY <1>3, TableTypes
<1>5. Backfilled(old) \in Indexes /\ \A v \in IdxVals : Backfilled(old)[v] = Carrying(old, v)
  BY DEF Backfilled, Indexes, Carrying
<1>6. idx \in {None} \cup Indexes
  BY <1>4, <1>5
<1>7. idx # None => \A v \in IdxVals :
          /\ Carrying(old, v) \subseteq idx[v]
          /\ v \notin BoolVals => idx[v] = Carrying(old, v)
  BY <1>3, <1>5 DEF TableInv, Counted
<1>8. on \in BOOLEAN /\ arn \in {None} \cup Nat
  <2>1. on \in BOOLEAN
    BY <1>4, Zenon
  <2>2. arns + 1 \in Nat
    BY <1>2
  <2> QED BY <1>4, <2>1, <2>2
<1>9. /\ on => arn \in 1..arns'
      /\ arn # None => (arn = arns + 1 /\ arns' = arns + 1) \/ arn = old.arn
      /\ arns' \in {arns, arns + 1}
  BY <1>1, <1>2, <1>3, <1>4
<1> HIDE DEF on, fresh, idx, arn
<1>10. /\ u.items = old.items /\ u.count = old.count /\ u.index = idx /\ u.on = on
       /\ u.arn = arn /\ u.log = old.log /\ u.seq = old.seq /\ u.muted = old.muted
  BY DEF Table
<1>11. u \in TableRecords
  BY <1>4, <1>6, <1>8, TableFields
<1> HIDE DEF u
<1>12. TableInv(u)
  <2>1. Counted(u)
    BY <1>3, <1>7, <1>10 DEF TableInv, Counted, Stored, Carrying
  <2>2. Contiguous(u) /\ Latest(u) /\ Replays(u, 0, NoItems)
    BY <1>3, <1>10 DEF TableInv, Contiguous, Latest, Replays
  <2> QED BY <1>11, <2>1, <2>2 DEF TableInv
<1>13. \A x \in ReaderRecords : Follows(x, old) => Follows(x, u)
  BY <1>10 DEF Follows, Replays
<1>14. TablesInv' /\ ReadersInv'
  BY <1>1, <1>2, <1>9, <1>10, <1>12, <1>13, TableChanged
<1>15. u # None
  BY <1>11, NoneAssumption
<1>16. \A s \in Tables : tables[s] # None => tables'[s] # None /\ tables'[s].items = tables[s].items
  BY <1>1, <1>2, <1>10, <1>15 DEF TablesInv
<1>17. TasksInv' /\ \A n \in DOMAIN tasks' : Isolated(n)'
  BY <1>1, <1>16, TransactionsStay
<1> QED BY <1>1, <1>14, <1>17 DEF IInv

-----------------------------------------------------------------------------
(* Readers *)

\* A reader that is at one table follows it: no other has its stream.
LEMMA ReaderChanged ==
    ASSUME IInv, NEW r \in Readers, NEW t \in Tables, NEW y \in ReaderRecords,
           readers' = [readers EXCEPT ![r] = y], UNCHANGED <<tables, tasks, requests, admin, arns>>,
           reads' = reads + 1, tables[t] # None, tables[t].arn = y.arn,
           y.seen > 0 => y.next = y.seen + 1, Follows(y, tables[t])
    PROVE  IInv'
<1>1. TablesInv /\ ReadersInv /\ y.arn \in Nat
  BY DEF IInv, ReaderRecords
<1>2. readers'[r] = y /\ \A q \in Readers : q # r => readers'[q] = readers[q]
  BY <1>1 DEF ReadersInv
<1>3. y.arn # None /\ y.arn <= arns /\ \A s \in Tables : s # t /\ tables[s] # None => tables[s].arn # y.arn
  BY <1>1, NoneAssumption DEF TablesInv
<1>4. readers' \in [Readers -> {None} \cup ReaderRecords]
  BY <1>1 DEF ReadersInv
<1>5. \A q \in Readers : readers'[q] # None =>
           /\ readers'[q].arn <= arns
           /\ readers'[q].seen > 0 => readers'[q].next = readers'[q].seen + 1
           /\ \A s \in Tables : tables[s] # None /\ tables[s].arn = readers'[q].arn => Follows(readers'[q], tables[s])
  BY <1>1, <1>2, <1>3 DEF ReadersInv
<1>6. ReadersInv'
  BY <1>4, <1>5 DEF ReadersInv
<1>7. TasksInv' /\ \A n \in DOMAIN tasks' : Isolated(n)'
  BY TransactionsStay
<1> QED BY <1>6, <1>7 DEF IInv, TablesInv

LEMMA GetShardIteratorStep ==
    ASSUME IInv, NEW r \in Readers, NEW t \in Tables, GetShardIterator(r, t)
    PROVE  IInv'
<1>1. /\ tables[t] # None /\ tables[t].arn # None /\ reads' = reads + 1
      /\ UNCHANGED <<tables, tasks, requests, admin, arns>>
  BY DEF GetShardIterator
<1>2. PICK next \in 0..(tables[t].seq + 1) : readers' = [readers EXCEPT ![r] = Reader(tables[t].arn, next, 0, TRUE, NoItems)]
  BY DEF GetShardIterator, NoItems
<1>3. TableInv(tables[t]) /\ tables[t].arn \in Nat /\ tables[t].seq \in Nat
  BY <1>1, TableTypes DEF IInv, TablesInv, TableInv
<1> DEFINE y == Reader(tables[t].arn, next, 0, TRUE, NoItems)
<1>4. y.arn = tables[t].arn /\ y.next = next /\ y.seen = 0 /\ y.whole = TRUE /\ y.replica = NoItems
  BY DEF Reader
<1>5. NoItems \in [Keys -> {None} \cup Items] /\ next \in Nat
  BY <1>3 DEF NoItems
<1>6. y \in ReaderRecords
  BY <1>3, <1>5 DEF Reader, ReaderRecords
<1> HIDE DEF y
<1>7. Follows(y, tables[t])
  BY <1>3, <1>4 DEF Follows, TableInv
<1>8. readers' = [readers EXCEPT ![r] = y]
  BY <1>2 DEF y
<1>9. tables[t].arn = y.arn /\ (y.seen > 0 => y.next = y.seen + 1)
  BY <1>4
<1> QED BY <1>1, <1>6, <1>7, <1>8, <1>9, ReaderChanged

LEMMA GetRecordsStep ==
    ASSUME IInv, NEW r \in Readers, NEW t \in Tables, GetRecords(r, t)
    PROVE  IInv'
<1> DEFINE x == readers[r]
           tab == tables[t]
           log == tab.log
<1>1. /\ x # None /\ tab # None /\ tab.arn = x.arn /\ reads' = reads + 1
      /\ UNCHANGED <<tables, tasks, requests, admin, arns>>
  BY DEF GetRecords
<1> DEFINE y(i) == Reader(x.arn, NextSequence(log[i].seq), log[i].seq, x.whole /\ log[i].seq = x.seen + 1,
                          [x.replica EXCEPT ![log[i].key] = log[i].new])
<1>2. PICK i \in DOMAIN log : readers' = [readers EXCEPT ![r] = y(i)]
  BY DEF GetRecords
<1>3. TableInv(tab) /\ tab \in TableRecords /\ x \in ReaderRecords /\ Follows(x, tab)
  BY <1>1 DEF IInv, TablesInv, ReadersInv, TableInv
<1>4. x.arn \in Nat /\ x.seen \in Nat /\ x.whole \in BOOLEAN /\ x.replica \in [Keys -> {None} \cup Items]
  BY <1>3 DEF ReaderRecords
<1>5. log \in Seq(LogRecords) /\ tab.seq \in Nat
  BY <1>3, TableTypes
<1>6. \A j \in DOMAIN log : log[j] \in LogRecords
  BY <1>5
<1>7. \A j \in DOMAIN log : /\ log[j].seq \in Nat /\ log[j].key \in Keys /\ log[j].new \in {None} \cup Items
  BY <1>6 DEF LogRecords
<1>8. \A j \in DOMAIN log : log[j].seq + Len(log) = tab.seq + j /\ j \in Nat /\ j >= 1 /\ j <= Len(log)
  BY <1>3, <1>5 DEF TableInv, Contiguous
<1>9. /\ y(i).arn = x.arn /\ y(i).next = log[i].seq + 1 /\ y(i).seen = log[i].seq
      /\ y(i).whole = (x.whole /\ log[i].seq = x.seen + 1)
      /\ y(i).replica = [x.replica EXCEPT ![log[i].key] = log[i].new]
  BY DEF Reader, NextSequence
<1>10. [x.replica EXCEPT ![log[i].key] = log[i].new] \in [Keys -> {None} \cup Items]
  BY <1>4, <1>7
<1>11. y(i) \in ReaderRecords
  BY <1>4, <1>7, <1>10 DEF Reader, ReaderRecords, NextSequence
<1> HIDE DEF y
<1>12. log[i].seq <= tab.seq /\ Len(log) \in Nat
  BY <1>5, <1>7, <1>8
\* The record is the next one: for its key it tells the item, for all others it tells nothing.
<1>13. ASSUME x.whole, log[i].seq = x.seen + 1, ~tab.muted, tab.seq <= log[i].seq + Len(log), NEW k \in Keys,
              \A j \in DOMAIN log : log[j].seq > log[i].seq => log[j].key # k
       PROVE  tab.items[k] = y(i).replica[k]
  <2>1. CASE k = log[i].key
    <3>1. \A j \in DOMAIN log : j > i => log[j].key # log[i].key
      <4>1. ASSUME NEW j \in DOMAIN log, j > i PROVE log[j].seq > log[i].seq
        <5>1. /\ log[i].seq + Len(log) = tab.seq + i /\ i \in Nat /\ log[i].seq \in Nat
              /\ log[j].seq + Len(log) = tab.seq + j /\ j \in Nat /\ log[j].seq \in Nat
          BY <1>7, <1>8
        <5>2. tab.seq \in Nat /\ Len(log) \in Nat
          BY <1>5, <1>12
        <5> HIDE DEF log, tab, x
        <5> QED BY <4>1, <5>1, <5>2
      <4> QED BY <1>13, <2>1, <4>1
    <3>2. tab.items[log[i].key] = log[i].new
      BY <1>3, <1>13, <3>1 DEF TableInv, Latest
    <3> QED BY <1>4, <1>9, <2>1, <3>2
  <2>2. CASE k # log[i].key
    <3>1. tab.seq <= x.seen + Len(log)
      <4>1. log[i].seq + Len(log) = tab.seq + i /\ i \in Nat /\ i >= 1
        BY <1>8
      <4>2. log[i].seq = x.seen + 1
        BY <1>13
      <4> QED BY <1>4, <1>5, <1>12, <4>1, <4>2
    <3>2. ASSUME NEW j \in DOMAIN log, log[j].seq > x.seen PROVE log[j].key # k
      <4>1. CASE log[j].seq > log[i].seq
        BY <1>13, <4>1
      <4>2. CASE log[j].seq = log[i].seq
        <5>1. j = i
          BY <1>5, <1>8, <1>12, <4>2
        <5> QED BY <2>2, <5>1
      <4> QED BY <1>4, <1>7, <1>13, <3>2, <4>1, <4>2
    <3>3. tab.items[k] = x.replica[k]
      BY <1>3, <1>13, <3>1, <3>2 DEF Follows, Replays
    <3> QED BY <1>4, <1>9, <2>2, <3>3
  <2> QED BY <2>1, <2>2
<1>14. Follows(y(i), tab)
  BY <1>9, <1>12, <1>13 DEF Follows, Replays
<1> DEFINE z == y(i)
<1>15. z \in ReaderRecords /\ readers' = [readers EXCEPT ![r] = z] /\ tab.arn = z.arn /\ Follows(z, tab)
  BY <1>1, <1>2, <1>9, <1>11, <1>14
<1>16. z.next = z.seen + 1
  BY <1>9
<1> HIDE DEF z
<1> QED BY <1>1, <1>15, <1>16, ReaderChanged

-----------------------------------------------------------------------------
(* The inductive invariant *)

\* At the start there are no tables, no requests and no readers.
LEMMA InitInv == Init => IInv
<1> SUFFICES ASSUME Init PROVE IInv
  OBVIOUS
<1>1. TablesInv
  BY DEF Init, TablesInv
<1>2. ReadersInv
  BY DEF Init, ReadersInv
<1>3. TasksInv /\ DOMAIN tasks = {}
  BY DEF Init, TasksInv
<1> QED BY <1>1, <1>2, <1>3 DEF Init, IInv

LEMMA Invariance == Spec => []IInv
<1>1. IInv /\ [Next]_vars => IInv'
  <2> SUFFICES ASSUME IInv, [Next]_vars PROVE IInv'
    OBVIOUS
  <2>1. ASSUME NEW q \in Requests, Arrive(q) PROVE IInv'
    BY <2>1, ArriveStep
  <2>2. ASSUME NEW n \in DOMAIN tasks, Acquire(n) PROVE IInv'
    BY <2>2, AcquireStep
  <2>3. ASSUME NEW n \in DOMAIN tasks, Cancel(n) PROVE IInv'
    BY <2>3, FinishStep DEF Cancel
  <2>4. ASSUME NEW n \in DOMAIN tasks, Step(n) PROVE IInv'
    BY <2>4, ExistStep, CheckStep, ApplyTransactStep, WriteItemStep, BatchWriteItemStep
    DEF Step, PutItem, DeleteItem, UpdateItem
  <2>5. ASSUME NEW t \in Tables, DeleteTable(t) PROVE IInv'
    BY <2>5, DeleteTableStep
  <2>6. ASSUME NEW t \in Tables, NEW c \in Creations, CreateTable(t, c.indexed, c.streamed) PROVE IInv'
    <3>1. c.indexed \in BOOLEAN /\ c.streamed \in BOOLEAN
      BY DynamoDbAssumption
    <3> QED BY <2>6, <3>1, CreateTableStep
  <2>7. ASSUME NEW t \in Tables, NEW c \in Changes, UpdateTable(t, c.stream, c.index) PROVE IInv'
    BY <2>7, UpdateTableStep
  <2>8. ASSUME NEW t \in Tables, NEW r \in Readers, GetShardIterator(r, t) \/ GetRecords(r, t) PROVE IInv'
    BY <2>8, GetShardIteratorStep, GetRecordsStep
  <2>9. CASE UNCHANGED vars
    <3>1. UNCHANGED <<tables, tasks, requests, admin, arns, readers, reads>>
      BY <2>9 DEF vars
    <3>2. TablesInv' /\ ReadersInv'
      BY <3>1, TablesStay DEF IInv
    <3>3. TasksInv' /\ \A n \in DOMAIN tasks' : Isolated(n)'
      BY <3>1, TransactionsStay
    <3> QED BY <3>1, <3>2, <3>3 DEF IInv
  <2> QED BY <2>1, <2>2, <2>3, <2>4, <2>5, <2>6, <2>7, <2>8, <2>9 DEF Next
<1> QED BY <1>1, InitInv, PTL DEF Spec

-----------------------------------------------------------------------------
(* The theorems *)

\* Whatever the tables, keys and requests: every variable has its type, and a table's Mutex one
\* holder (get_table_lock).
THEOREM TypeCorrect == Spec => []TypeOK
<1>1. IInv => TypeOK
  <2> SUFFICES ASSUME IInv PROVE TypeOK
    OBVIOUS
  <2>1. \A t \in Tables : tables[t] # None => Len(tables[t].log) <= MaxLog
    BY DEF IInv, TablesInv, TableInv, Contiguous
  <2> QED BY <2>1 DEF IInv, TablesInv, ReadersInv, TasksInv, TypeOK
<1> QED BY <1>1, Invariance, PTL

\* Whatever order writes, batches, transactions and changes of the index come in: the count and
\* the index of every table say what its items say (put_item, delete_item, add_gsi).
THEOREM IndexesFollowItems == Spec => []IndexesAgree
<1>1. IInv => IndexesAgree
  BY DEF IInv, TablesInv, TableInv, Counted, Stored, IndexesAgree
<1> QED BY <1>1, Invariance, PTL

\* However many requests write to however many tables: between the check of a transaction's
\* condition and its last write nobody else writes to its tables (table_locks).
THEOREM TransactionIsolation == Spec => []TransactionsAreIsolated
<1>1. IInv /\ TypeOK => TransactionsAreIsolated
  <2> SUFFICES ASSUME IInv, TypeOK, NEW n \in DOMAIN tasks, tasks[n].kind = "transact",
                      tasks[n].pc \in {"check", "apply"}, NEW i \in DOMAIN tasks[n].ops,
                      tasks[n].ops[i].table \notin tasks[n].wiped
               PROVE  LET op == tasks[n].ops[i]
                          done == IF tasks[n].pc = "apply" THEN tasks[n].at - 1 ELSE 0
                          checked == tasks[n].pc = "apply" \/ i < tasks[n].at
                          t == tables[op.table]
                      IN  /\ t # None
                          /\ (checked /\ i > done /\ NotWritten(n, op.table, op.key, 1, done)) => Holds(t, op)
                          /\ (i <= done /\ Target(op) # None
                              /\ NotWritten(n, op.table, Target(op), i + 1, done)) =>
                                 CASE op.kind = "delete" -> t.items[op.key] = None
                                   [] op.kind = "put" -> t.items[op.to] = Item(n, op.idx)
                                   [] OTHER -> t.items[op.to] # None /\ t.items[op.to].idx = op.idx
    BY DEF TransactionsAreIsolated
  <2>1. Known(tables[tasks[n].ops[i].table], n, tasks[n].pc, tasks[n].at, i)
    BY DEF IInv, Isolated, IsolatedAt
  <2> QED BY <2>1 DEF Known, Written
<1> QED BY <1>1, Invariance, TypeCorrect, PTL

\* However many readers there are and however short the log: who follows the iterators sees
\* every record that is kept, once, and who saw them all knows the table (append_stream_record,
\* GetShardIterator, GetRecords).
THEOREM StreamReplication == Spec => []StreamsReplicate
<1>1. IInv => StreamsReplicate
  <2> SUFFICES ASSUME IInv, NEW r \in Readers, NEW t \in Tables, readers[r] # None, tables[t] # None,
                      tables[t].arn = readers[r].arn
               PROVE  LET x == readers[r]
                      IN  /\ x.seen > 0 =>
                                 /\ x.next > x.seen
                                 /\ \A i \in DOMAIN tables[t].log :
                                        tables[t].log[i].seq > x.seen => tables[t].log[i].seq >= x.next
                          /\ x.whole /\ x.seen = tables[t].seq /\ ~tables[t].muted => x.replica = tables[t].items
    BY DEF StreamsReplicate
  <2> DEFINE x == readers[r]
             tab == tables[t]
  <2>1. /\ x \in ReaderRecords /\ Follows(x, tab) /\ (x.seen > 0 => x.next = x.seen + 1)
        /\ TableInv(tab) /\ tab \in TableRecords
    BY DEF IInv, TablesInv, ReadersInv, TableInv
  <2>2. x.seen \in Nat /\ x.replica \in [Keys -> {None} \cup Items]
    BY <2>1 DEF ReaderRecords
  <2>3. tab.items \in [Keys -> {None} \cup Items] /\ tab.log \in Seq(LogRecords) /\ tab.seq \in Nat
    BY <2>1, TableTypes
  <2>4. \A i \in DOMAIN tab.log : tab.log[i] \in LogRecords /\ i <= Len(tab.log) /\ i \in Nat /\ Len(tab.log) \in Nat
    BY <2>3
  <2>5. \A i \in DOMAIN tab.log : tab.log[i].seq \in Nat
    BY <2>4 DEF LogRecords
  <2>6. ASSUME x.seen > 0
        PROVE  x.next > x.seen /\ \A i \in DOMAIN tab.log : tab.log[i].seq > x.seen => tab.log[i].seq >= x.next
    <3>1. x.next = x.seen + 1
      BY <2>1, <2>6
    <3> QED BY <2>2, <2>5, <3>1
  <2>7. ASSUME x.whole, x.seen = tab.seq, ~tab.muted PROVE x.replica = tab.items
    <3>1. Replays(tab, x.seen, x.replica)
      BY <2>1, <2>7 DEF Follows
    <3>2. ASSUME NEW i \in DOMAIN tab.log PROVE ~(tab.log[i].seq > x.seen)
      <4>1. tab.log[i].seq + Len(tab.log) = tab.seq + i
        BY <2>1 DEF TableInv, Contiguous
      <4> QED BY <2>3, <2>4, <2>5, <2>7, <4>1
    <3>3. tab.seq <= x.seen + Len(tab.log)
      BY <2>3, <2>7
    <3>4. \A k \in Keys : tab.items[k] = x.replica[k]
      BY <2>7, <3>1, <3>2, <3>3 DEF Replays
    <3> QED BY <2>2, <2>3, <3>4
  <2> QED BY <2>6, <2>7
<1> QED BY <1>1, Invariance, PTL
===============================================================================
