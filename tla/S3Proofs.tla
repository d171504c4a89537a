------------------------------ MODULE S3Proofs -------------------------------
(***************************************************************************)
(* For any buckets, keys and requests, failing and dropped anywhere:       *)
(* versions keep their bytes, reads are whole, the files and the metadata  *)
(* of a key nobody raced on agree and no file of it is left behind, an     *)
(* upload becomes an object once, and the parts of one that is not         *)
(* complete keep their bytes.                                              *)
(***************************************************************************)
EXTENDS S3Invariants, FiniteSetTheorems, WellFoundedInduction, TLAPS

-----------------------------------------------------------------------------
(* Numbers *)

\* Every set of numbers that is not empty has a least one.  What a recursive function gives is
\* shown with it: there is no least argument for which it gives anything else.
LEMMA LeastNat ==
    ASSUME NEW T \in SUBSET Nat, T # {}
    PROVE  \E x \in T : \A y \in T : x <= y
<1> DEFINE R == {ss \in Nat \X Nat : ss[1] < ss[2]}
<1>1. IsWellFoundedOn(R, Nat) BY NatLessThanWellFounded DEF OpToRel
<1>2. PICK x \in T : \A y \in T : <<y, x>> \notin R BY <1>1, WFMin
<1>3. ASSUME NEW y \in T PROVE x <= y
  <2>1. x \in Nat /\ y \in Nat OBVIOUS
  <2>2. <<y, x>> \notin R BY <1>2
  <2> QED BY <2>1, <2>2
<1> QED BY <1>3

\* There is such a function, so that the recursive definitions below are of one.
LEMMA Iteration ==
    ASSUME NEW S, NEW base \in S, NEW n \in Nat, NEW G \in [1..n -> [S -> S]]
    PROVE  \E f \in [0..n -> S] : Iterates(f, base, G, n)
<1> DEFINE Fails == {m \in 0..n : ~\E f \in [0..m -> S] : Iterates(f, base, G, m)}
<1>1. CASE Fails = {}
  <2>1. n \in 0..n /\ n \notin Fails BY <1>1
  <2> QED BY <2>1
<1>2. CASE Fails # {}
  <2>1. PICK m \in Fails : \A y \in Fails : m <= y
    <3>1. Fails \in SUBSET Nat OBVIOUS
    <3> QED BY <3>1, <1>2, LeastNat
  <2>2. m \in 0..n /\ ~\E f \in [0..m -> S] : Iterates(f, base, G, m) BY <2>1
  <2> HIDE DEF Fails
  <2>3. m # 0
    <3>1. ASSUME m = 0 PROVE FALSE
      <4> DEFINE f == [i \in 0..0 |-> base]
      <4>1. f \in [0..0 -> S] /\ f[0] = base OBVIOUS
      <4>2. Iterates(f, base, G, 0) BY <4>1 DEF Iterates
      <4> QED BY <3>1, <2>2, <4>1, <4>2
    <3> QED BY <3>1
  <2>4. PICK f \in [0..(m - 1) -> S] : Iterates(f, base, G, m - 1)
    <3>1. m - 1 \in 0..n /\ ~(m <= m - 1) BY <2>2, <2>3
    <3>2. m - 1 \notin Fails BY <3>1, <2>1
    <3> QED BY <3>1, <3>2 DEF Fails
  <2> DEFINE g == [i \in 0..m |-> IF i = m THEN G[m][f[m - 1]] ELSE f[i]]
  <2>5. m - 1 \in 0..(m - 1) /\ m \in 1..n /\ f[m - 1] \in S BY <2>2, <2>3
  <2>6. G[m][f[m - 1]] \in S BY <2>5
  <2>7. \A i \in 0..(m - 1) : g[i] = f[i] /\ f[i] \in S BY <2>2, <2>3
  <2>8. g \in [0..m -> S]
    <3>1. \A i \in 0..m : i = m \/ i \in 0..(m - 1) BY <2>2
    <3> QED BY <3>1, <2>6, <2>7
  <2>9. g[m] = G[m][f[m - 1]] BY <2>2
  <2> HIDE DEF g
  <2>10. ASSUME NEW i \in 1..m PROVE g[i] = G[i][g[i - 1]]
    <3>1. i - 1 \in 0..(m - 1) BY <2>2
    <3>2. CASE i = m BY <3>2, <3>1, <2>9, <2>7
    <3>3. CASE i # m
      <4>1. i \in 1..(m - 1) /\ i \in 0..(m - 1) BY <3>3, <2>2
      <4> QED BY <4>1, <3>1, <2>7, <2>4 DEF Iterates
    <3> QED BY <3>2, <3>3
  <2>11. g[0] = base
    <3>1. 0 \in 0..(m - 1) BY <2>2, <2>3
    <3> QED BY <3>1, <2>7, <2>4 DEF Iterates
  <2>12. Iterates(g, base, G, m) BY <2>10, <2>11 DEF Iterates
  <2> QED BY <2>12, <2>8, <2>2
<1> QED BY <1>1, <1>2

-----------------------------------------------------------------------------
(* Tasks *)

\* What a request is doing says what it has in hand.
LEMMA Kinds ==
    ASSUME NEW t \in TaskRecords
    PROVE  /\ t.op \in Ops /\ t.touches \in Touches
           /\ t.pc \in {"ensureDir", "remember"} => t \in PutTasks \cup CopyTasks
           /\ t.pc = "commit" => t \in PutTasks \cup CopyTasks
           /\ t.pc \in {"write", "rename"} => t \in PutTasks
           /\ t.pc \in {"copyRead", "copyResolve", "copyLink", "copyFill"} => t \in CopyTasks
           /\ t.pc = "copyVersioning" => t \in LookupTasks
           /\ t.pc = "cleanup" => t \in CleanupTasks
           /\ t.pc \in BucketPcs => t \in BucketTasks
           /\ t.pc = "delete" => t \in DeleteTasks
           /\ t.pc = "read" => t \in GetTasks
<1>1. CASE t \in PutTasks BY <1>1 DEF PutTasks, PutPcs, BucketPcs, Ops
<1>2. CASE t \in LookupTasks BY <1>2 DEF LookupTasks, BucketPcs, Ops
<1>3. CASE t \in CopyTasks BY <1>3 DEF CopyTasks, CopyPcs, BucketPcs, Ops
<1>4. CASE t \in CleanupTasks BY <1>4 DEF CleanupTasks, BucketPcs, Ops
<1>5. CASE t \in BucketTasks BY <1>5 DEF BucketTasks, BucketPcs, Ops
<1>6. CASE t \in DeleteTasks BY <1>6 DEF DeleteTasks, BucketPcs, Ops
<1>7. CASE t \in GetTasks BY <1>7 DEF GetTasks, BucketPcs, Ops, Touches
<1>8. CASE t \in EndedTasks BY <1>8 DEF EndedTasks, BucketPcs, Ops, Touches
<1> QED BY <1>1, <1>2, <1>3, <1>4, <1>5, <1>6, <1>7, <1>8 DEF TaskRecords

\* Which requests are putting and copying objects.
LEMMA Writers ==
    ASSUME NEW n \in DOMAIN tasks, tasks[n] \in TaskRecords
    PROVE  /\ Putting(n) => tasks[n] \in PutTasks
           /\ Copying(n) => tasks[n] \in CopyTasks
<1> DEFINE t == tasks[n]
<1>1. CASE t \in PutTasks BY <1>1 DEF PutTasks, Putting, Copying
<1>2. CASE t \in LookupTasks BY <1>2 DEF LookupTasks, Putting, Copying, CopyPcs
<1>3. CASE t \in CopyTasks BY <1>3 DEF CopyTasks, Putting, Copying
<1>4. CASE t \in CleanupTasks BY <1>4 DEF CleanupTasks, Putting, Copying, PutPcs, CopyPcs
<1>5. CASE t \in BucketTasks BY <1>5 DEF BucketTasks, Putting, Copying
<1>6. CASE t \in DeleteTasks BY <1>6 DEF DeleteTasks, Putting, Copying
<1>7. CASE t \in GetTasks BY <1>7 DEF GetTasks, Putting, Copying
<1>8. CASE t \in EndedTasks BY <1>8 DEF EndedTasks, Putting, Copying, PutPcs, CopyPcs
<1> QED BY <1>1, <1>2, <1>3, <1>4, <1>5, <1>6, <1>7, <1>8 DEF TaskRecords

LEMMA Numbered ==
    ASSUME TypeInv
    PROVE  /\ DOMAIN tasks = 1..Len(tasks) /\ Len(tasks) \in Nat /\ Len(tasks) <= MaxOps
           /\ DOMAIN tasks \subseteq Nat /\ DOMAIN tasks \subseteq 1..MaxOps
           /\ \A n \in DOMAIN tasks : tasks[n] \in TaskRecords /\ n \in Nat
<1>1. tasks \in Seq(TaskRecords) /\ Len(tasks) <= MaxOps /\ MaxOps \in Nat
  BY S3Assumption DEF TypeInv, TypeOK
<1>2. DOMAIN tasks = 1..Len(tasks) /\ Len(tasks) \in Nat /\ \A n \in DOMAIN tasks : tasks[n] \in TaskRecords
  BY <1>1
<1> QED BY <1>1, <1>2

LEMMA Update ==
    ASSUME tasks \in Seq(TaskRecords), NEW n \in DOMAIN tasks, NEW u \in TaskRecords,
           tasks' = [tasks EXCEPT ![n] = u]
    PROVE  /\ tasks' \in Seq(TaskRecords) /\ Len(tasks') = Len(tasks) /\ DOMAIN tasks' = DOMAIN tasks
           /\ tasks'[n] = u
           /\ \A m \in DOMAIN tasks : m # n => tasks'[m] = tasks[m]
OBVIOUS

\* The request goes on with u in hand.
LEMMA MovesTo ==
    ASSUME TypeInv, NEW n \in InFlight, NEW u \in TaskRecords, tasks' = [tasks EXCEPT ![n] = u],
           u.op = tasks[n].op, u.touches \in {tasks[n].touches, {}},
           tasks[n].pc = "cleanup" => u.pc \in {"cleanup", "done", "dropped"},
           u.pc \in BucketPcs => (tasks[n].pc \in BucketPcs /\ u.b = tasks[n].b),
           torn' = torn
    PROVE  Moves(n) /\ tasks' \in Seq(TaskRecords) /\ tasks'[n] = u
<1>1. tasks \in Seq(TaskRecords) /\ n \in DOMAIN tasks BY DEF TypeInv, InFlight
<1>2. /\ tasks' \in Seq(TaskRecords) /\ Len(tasks') = Len(tasks) /\ DOMAIN tasks' = DOMAIN tasks
      /\ tasks'[n] = u
      /\ \A m \in DOMAIN tasks : m # n => tasks'[m] = tasks[m]
  BY <1>1, Update
<1>3. Past(n) => Past(n)' BY <1>2 DEF Past, InFlight
<1> QED BY <1>2, <1>3 DEF Moves

\* The request is answered.
LEMMA Finished ==
    ASSUME TypeInv, NEW n \in InFlight, Finish(n), torn' = torn
    PROVE  /\ Moves(n) /\ tasks' \in Seq(TaskRecords) /\ tasks'[n] = Done(tasks[n].op)
           /\ TaskInv(n)'
<1>1. n \in DOMAIN tasks /\ tasks[n] \in TaskRecords BY Numbered DEF InFlight
<1>2. Done(tasks[n].op) \in EndedTasks BY <1>1, Kinds DEF Done, EndedTasks, Ops
<1>3. tasks' = [tasks EXCEPT ![n] = Done(tasks[n].op)] /\ Done(tasks[n].op) \in TaskRecords
  BY <1>2 DEF Finish, TaskRecords
<1>4. Done(tasks[n].op).pc = "done" /\ Done(tasks[n].op).op = tasks[n].op /\ Done(tasks[n].op).touches = {}
  BY DEF Done
<1>5. Moves(n) /\ tasks' \in Seq(TaskRecords) /\ tasks'[n] = Done(tasks[n].op)
  BY <1>3, <1>4, MovesTo DEF BucketPcs
<1>6. TaskInv(n)' BY <1>4, <1>5 DEF TaskInv, Putting, Copying, PutPcs, CopyPcs, BucketPcs
<1> QED BY <1>5, <1>6

-----------------------------------------------------------------------------
(* What a request leaves alone as it moves on *)

LEMMA TasksStay ==
    ASSUME TypeInv, TasksInv, NEW n, Moves(n), TaskInv(n)',
           DOMAIN disk \subseteq DOMAIN disk', DOMAIN disk' \subseteq DOMAIN disk \cup {n},
           inPlace \subseteq inPlace'
    PROVE  TasksInv'
<1> SUFFICES ASSUME NEW m \in DOMAIN tasks, m # n PROVE TaskInv(m)'
  BY DEF TasksInv, Moves
<1>1. tasks'[m] = tasks[m] /\ TaskInv(m) BY DEF Moves, TasksInv
<1>2. /\ Putting(m)' = Putting(m) /\ Copying(m)' = Copying(m)
      /\ PutInv(m) => PutInv(m)'
      /\ LookupInv(m) => LookupInv(m)'
      /\ CopyInv(m) => CopyInv(m)'
      /\ DeleteInv(m) => DeleteInv(m)'
  BY <1>1 DEF Putting, Copying, PutInv, LookupInv, CopyInv, DeleteInv
<1> QED BY <1>1, <1>2 DEF TaskInv

LEMMA VersionStays ==
    ASSUME TypeInv, NEW n, Moves(n), NEW b, NEW k, NEW v, VersionInv(b, k, v)
    PROVE  VersionInv(b, k, v)'
<1>1. \A m \in DOMAIN tasks : m \in DOMAIN tasks' /\ (Past(m) => Past(m)') /\ tasks'[m].op = tasks[m].op
  BY DEF Moves, Past
<1> QED BY <1>1 DEF VersionInv

LEMMA VersionsStay ==
    ASSUME TypeInv, VersionsInv, NEW n, Moves(n), objects' = objects
    PROVE  VersionsInv'
<1> SUFFICES ASSUME NEW b \in Buckets, NEW k \in Keys
             PROVE  /\ \A i \in DOMAIN objects[b][k] : VersionInv(b, k, objects[b][k][i])'
                    /\ \A i, j \in DOMAIN objects[b][k] : objects[b][k][i].vid = objects[b][k][j].vid => i = j
  BY DEF VersionsInv
<1>1. \A i \in DOMAIN objects[b][k] : VersionInv(b, k, objects[b][k][i])'
  BY VersionStays DEF VersionsInv
<1> QED BY <1>1 DEF VersionsInv

LEMMA FilesStay ==
    ASSUME TypeInv, FilesInv, NEW n, Moves(n), UNCHANGED <<link, disk, inPlace>>,
           tasks'[n].pc = "rename" => tasks[n].pc = "rename"
    PROVE  FilesInv'
<1>1. DOMAIN tasks' = DOMAIN tasks
      /\ \A m \in DOMAIN tasks : tasks'[m].op = tasks[m].op /\ (tasks'[m].pc = "rename" => tasks[m].pc = "rename")
  BY DEF Moves
<1>2. ASSUME NEW p \in DOMAIN link PROVE FileInv(p)'
  <2>1. FileInv(p) BY DEF FilesInv
  <2> QED BY <2>1, <1>1 DEF FileInv, IsTmp
<1> QED BY <1>1, <1>2 DEF FilesInv

LEMMA CleanupStays ==
    ASSUME TypeInv, CleanupInv, NEW n, Moves(n), objects' = objects,
           tasks'[n].pc = "cleanup" => (tasks[n].pc = "cleanup" /\ tasks'[n].remove \subseteq tasks[n].remove)
    PROVE  CleanupInv'
<1> SUFFICES ASSUME NEW m \in DOMAIN tasks, tasks'[m].pc = "cleanup", NEW p \in tasks'[m].remove, p[3] # Null
             PROVE  /\ p[3][1] \in DOMAIN tasks /\ Past(p[3][1])'
                    /\ \A v \in Versions(p[1], p[2]) : v.data.file # p
  BY DEF CleanupInv, Moves, Versions
<1>1. tasks[m].pc = "cleanup" /\ p \in tasks[m].remove BY DEF Moves
<1>2. /\ p[3][1] \in DOMAIN tasks /\ Past(p[3][1])
      /\ \A v \in Versions(p[1], p[2]) : v.data.file # p
  BY <1>1 DEF CleanupInv
<1>3. Past(p[3][1])' BY <1>2 DEF Moves, Past
<1> QED BY <1>2, <1>3

\* Requests in flight were.
LEMMA FlightsStay ==
    ASSUME TypeInv, NEW n, Moves(n)
    PROVE  /\ InFlight' \subseteq InFlight
           /\ \A m \in InFlight' : /\ tasks'[m].op = tasks[m].op /\ tasks'[m].touches \subseteq tasks[m].touches
                                   /\ tasks'[m].pc \in BucketPcs => (tasks[m].pc \in BucketPcs /\ tasks'[m].b = tasks[m].b)
<1>1. InFlight' \subseteq InFlight BY DEF Moves, InFlight
<1>2. ASSUME NEW m \in InFlight'
      PROVE  /\ tasks'[m].op = tasks[m].op /\ tasks'[m].touches \subseteq tasks[m].touches
             /\ tasks'[m].pc \in BucketPcs => (tasks[m].pc \in BucketPcs /\ tasks'[m].b = tasks[m].b)
  BY <1>2, <1>1 DEF Moves, InFlight
<1> QED BY <1>1, <1>2

\* A request gives versions only to keys it touches.
LEMMA DeletionStays ==
    ASSUME TypeInv, DeletionInv, NEW n, Moves(n),
           \A b \in Buckets, k \in Keys :
               \/ objects'[b][k] \in {objects[b][k], <<>>}
               \/ <<b, k>> \in tasks[n].touches /\ tasks[n].pc \notin BucketPcs
    PROVE  DeletionInv'
<1> SUFFICES ASSUME NEW d \in InFlight', tasks'[d].pc \in BucketPcs, ~({tasks'[d].b} \X Keys \subseteq torn')
             PROVE  /\ \A k \in Keys : objects'[tasks'[d].b][k] = <<>>
                    /\ \A m \in InFlight' \ {d} : tasks'[m].touches \cap ({tasks'[d].b} \X Keys) = {}
  BY DEF DeletionInv
<1>1. d \in InFlight /\ tasks[d].pc \in BucketPcs /\ tasks'[d].b = tasks[d].b /\ torn' = torn
  BY FlightsStay DEF Moves
<1> DEFINE b == tasks[d].b
<1>2. b \in Buckets BY <1>1, Numbered, Kinds DEF InFlight, BucketTasks
<1>3. /\ \A k \in Keys : objects[b][k] = <<>>
      /\ \A m \in InFlight \ {d} : tasks[m].touches \cap ({b} \X Keys) = {}
  BY <1>1 DEF DeletionInv
<1> HIDE DEF b
<1>4. ASSUME NEW k \in Keys PROVE objects'[b][k] = <<>>
  <2>1. CASE <<b, k>> \in tasks[n].touches /\ tasks[n].pc \notin BucketPcs
    <3>1. n \in InFlight \ {d} BY <2>1, <1>1 DEF Moves
    <3> QED BY <3>1, <2>1, <1>3
  <2>2. CASE objects'[b][k] \in {objects[b][k], <<>>} BY <2>2, <1>3
  <2> QED BY <2>1, <2>2, <1>2
<1>5. ASSUME NEW m \in InFlight' \ {d} PROVE tasks'[m].touches \cap ({b} \X Keys) = {}
  BY FlightsStay, <1>3
<1> QED BY <1>1, <1>4, <1>5 DEF b

LEMMA VersionTypes ==
    ASSUME TypeInv, NEW b \in Buckets, NEW k \in Keys, NEW v \in Versions(b, k)
    PROVE  v \in VersionRecords
<1>1. objects[b][k] \in Seq(VersionRecords) BY DEF TypeInv, TypeOK
<1>2. PICK i \in DOMAIN objects[b][k] : v = objects[b][k][i] BY DEF Versions
<1> QED BY <1>1, <1>2

LEMMA DurableStays ==
    ASSUME TypeInv, VersionsInv, DurableInv, NEW n, Moves(n), objects' = objects,
           \A p \in Paths : p \in DOMAIN link => p \in DOMAIN link',
           (tasks'[n].op = "put" /\ tasks'[n].pc = "commit") =>
               \/ tasks'[n] = tasks[n]
               \/ tasks'[n].path \in DOMAIN link'
    PROVE  DurableInv'
<1>1. \A m \in DOMAIN tasks : tasks'[m].op = tasks[m].op BY DEF Moves
<1>2. ASSUME NEW b \in Buckets, NEW k \in Keys, <<b, k>> \notin torn, NEW v \in Versions(b, k), v.vid # Null,
             ~v.marker, tasks'[v.vid[1]].op = "put", v.data.file # None
      PROVE  v.data.file \in DOMAIN link'
  <2>1. v.vid[1] \in DOMAIN tasks BY <1>2 DEF VersionsInv, VersionInv, Versions
  <2>2. v.data.file \in Paths BY <1>2, VersionTypes DEF VersionRecords, DataRecords
  <2> QED BY <2>1, <2>2, <1>2, <1>1 DEF DurableInv, Linked
<1>3. ASSUME NEW m \in DOMAIN tasks, tasks'[m].op = "put", tasks'[m].pc = "commit", tasks'[m].data.file # None,
             tasks'[m].vid # Null, <<tasks'[m].b, tasks'[m].k>> \notin torn
      PROVE  tasks'[m].path \in DOMAIN link'
  <2>1. CASE tasks'[m] = tasks[m]
    <3>1. tasks[m].path \in Paths BY <2>1, <1>3, Numbered, Kinds DEF PutTasks, CopyTasks
    <3> QED BY <2>1, <3>1, <1>3 DEF DurableInv, Linked
  <2>2. CASE tasks'[m] # tasks[m] BY <2>2, <1>3 DEF Moves
  <2> QED BY <2>1, <2>2
<1> QED BY <1>2, <1>3 DEF DurableInv, Moves, Versions, Linked

LEMMA ReadStays ==
    ASSUME TypeInv, ReadsInv, NEW n, Moves(n), NEW m \in DOMAIN tasks, tasks'[m] = tasks[m],
           inPlace' = {} => inPlace = {}
    PROVE  LET t == tasks'[m]
           IN  (t.op = "get" /\ t \in GetTasks) =>
                 /\ t.pc = "read" => t.path # None
                 /\ t.vid # Null /\ t.path # None =>
                        /\ t.path[3] = t.vid /\ t.vid[1] \in DOMAIN tasks'
                        /\ tasks'[t.vid[1]].op = "put" => t.etag = <<t.vid[1]>>
                 /\ (t.pc = "done" /\ t.path # None /\ inPlace' = {}) =>
                        /\ Len(t.got) = 1
                        /\ t.vid # Null /\ tasks'[t.vid[1]].op = "put" => t.got = t.etag
<1>1. \A i \in DOMAIN tasks : tasks'[i].op = tasks[i].op BY DEF Moves
<1>2. DOMAIN tasks' = DOMAIN tasks BY DEF Moves
<1> QED BY <1>1, <1>2 DEF ReadsInv

LEMMA ReadsStay ==
    ASSUME TypeInv, ReadsInv, NEW n, Moves(n), tasks[n].op # "get", inPlace' = {} => inPlace = {}
    PROVE  ReadsInv'
<1>1. DOMAIN tasks' = DOMAIN tasks /\ tasks'[n].op # "get" /\ \A m \in DOMAIN tasks : m = n \/ tasks'[m] = tasks[m]
  BY DEF Moves
<1> QED BY <1>1, ReadStays DEF ReadsInv

LEMMA TypesStay ==
    ASSUME TypeInv, NEW n, Moves(n), tasks' \in Seq(TaskRecords), contended' \subseteq Buckets \X Keys,
           UNCHANGED <<versioning, objects, disk, inPlace, everEnabled>>,
           \A p \in DOMAIN link' : link'[p] \in DOMAIN disk /\ p[1] \in Buckets,
           dirs' \subseteq Buckets \X (Keys \cup Nat), known' \subseteq Buckets \X (Keys \cup Nat)
    PROVE  TypeInv'
BY DEF TypeInv, TypeOK, Moves

LEMMA AsideKeeps ==
    ASSUME IInv, NEW n, Aside(n), TaskInv(n)', ReadsInv'
    PROVE  IInv'
<1>1. /\ TypeInv /\ TasksInv /\ VersionsInv /\ FilesInv /\ CleanupInv /\ DeletionInv /\ DurableInv /\ ReadsInv
      /\ Moves(n) /\ objects' = objects /\ link' = link /\ disk' = disk /\ inPlace' = inPlace
  BY DEF IInv, Aside
<1>2. TypeInv'
  <2>1. \A p \in DOMAIN link' : link'[p] \in DOMAIN disk /\ p[1] \in Buckets
    BY <1>1 DEF TypeInv, TypeOK
  <2> QED BY <1>1, <2>1, TypesStay DEF Aside
<1>3. TasksInv' BY <1>1, TasksStay
<1>4. VersionsInv' BY <1>1, VersionsStay
<1>5. FilesInv' BY <1>1, FilesStay DEF Aside
<1>6. CleanupInv' BY <1>1, CleanupStays DEF Aside
<1>7. DeletionInv' BY <1>1, DeletionStays
<1>8. DurableInv' BY <1>1, DurableStays DEF Aside
<1> QED BY <1>2, <1>3, <1>4, <1>5, <1>6, <1>7, <1>8 DEF IInv

\* ... of a request other than GetObject.
LEMMA AsideIs ==
    ASSUME IInv, NEW n, Aside(n), TaskInv(n)', tasks[n].op # "get"
    PROVE  IInv'
<1>1. TypeInv /\ ReadsInv /\ Moves(n) /\ inPlace' = inPlace BY DEF IInv, Aside
<1>2. ReadsInv' BY <1>1, ReadsStay
<1> QED BY <1>2, AsideKeeps

\* Another stage of the same request.
LEMMA Going ==
    ASSUME TypeInv, NEW n \in InFlight, NEW pc, Goto(n, pc), torn' = torn,
           \/ tasks[n] \in PutTasks /\ pc \in PutPcs
           \/ tasks[n] \in CopyTasks /\ pc \in CopyPcs
           \/ tasks[n] \in BucketTasks /\ pc \in BucketPcs
    PROVE  /\ Moves(n) /\ tasks' \in Seq(TaskRecords)
           /\ tasks'[n] = [tasks[n] EXCEPT !.pc = pc]
<1> DEFINE u == [tasks[n] EXCEPT !.pc = pc]
<1>1. n \in DOMAIN tasks /\ tasks \in Seq(TaskRecords) BY DEF InFlight, TypeInv
<1>2. tasks' = [tasks EXCEPT ![n] = u] BY <1>1 DEF Goto
<1>3. /\ u \in TaskRecords /\ u.op = tasks[n].op /\ u.touches = tasks[n].touches
      /\ tasks[n].pc = "cleanup" => u.pc \in {"cleanup", "done", "dropped"}
      /\ u.pc \in BucketPcs => (tasks[n].pc \in BucketPcs /\ u.b = tasks[n].b)
  <2>1. CASE tasks[n] \in PutTasks /\ pc \in PutPcs
    <3>1. u \in PutTasks BY <2>1 DEF PutTasks
    <3>2. u.op = tasks[n].op /\ u.touches = tasks[n].touches /\ u.pc = pc /\ tasks[n].pc # "cleanup"
      BY <2>1 DEF PutTasks, PutPcs
    <3> QED BY <3>1, <3>2, <2>1 DEF TaskRecords, PutPcs, BucketPcs
  <2>2. CASE tasks[n] \in CopyTasks /\ pc \in CopyPcs
    <3>1. u \in CopyTasks BY <2>2 DEF CopyTasks
    <3>2. u.op = tasks[n].op /\ u.touches = tasks[n].touches /\ u.pc = pc /\ tasks[n].pc # "cleanup"
      BY <2>2 DEF CopyTasks, CopyPcs
    <3> QED BY <3>1, <3>2, <2>2 DEF TaskRecords, CopyPcs, BucketPcs
  <2>3. CASE tasks[n] \in BucketTasks /\ pc \in BucketPcs
    <3>1. u \in BucketTasks BY <2>3 DEF BucketTasks
    <3>2. u.op = tasks[n].op /\ u.touches = tasks[n].touches /\ u.pc = pc /\ tasks[n].pc # "cleanup"
          /\ u.b = tasks[n].b /\ tasks[n].pc \in BucketPcs
      BY <2>3 DEF BucketTasks, BucketPcs
    <3> QED BY <3>1, <3>2 DEF TaskRecords
  <2> QED BY <2>1, <2>2, <2>3
<1> HIDE DEF u
<1>4. Moves(n) /\ tasks' \in Seq(TaskRecords) /\ tasks'[n] = u BY <1>2, <1>3, MovesTo
<1> QED BY <1>4 DEF u
LEMMA PutGoes ==
    ASSUME NEW n, TaskInv(n), tasks[n] \in PutTasks, tasks[n].pc # "commit", NEW pc \in PutPcs,
           tasks'[n] = [tasks[n] EXCEPT !.pc = pc],
           pc \in {"ensureDir", "remember", "write"} => n \notin DOMAIN disk'
    PROVE  TaskInv(n)'
<1> DEFINE t == tasks[n]
           u == tasks'[n]
<1>1. /\ u.pc = pc /\ u.op = "put" /\ u.touches = t.touches /\ u.b = t.b /\ u.k = t.k /\ u.vid = t.vid
      /\ u.path = t.path /\ u.body = t.body /\ u.etag = t.etag /\ u.data = t.data
  BY DEF PutTasks
<1>2. PutInv(n) BY DEF TaskInv, Putting, PutTasks
<1> HIDE DEF u
<1>3. PutInv(n)' BY <1>1, <1>2 DEF PutInv, u
<1> QED BY <1>1, <1>3 DEF TaskInv, Copying, u, PutPcs, BucketPcs

LEMMA CopyGoes ==
    ASSUME NEW n, TaskInv(n), tasks[n] \in CopyTasks, tasks[n].pc \notin {"commit", "copyRead"},
           NEW pc \in CopyPcs \ {"copyRead", "copyFill"}, tasks'[n] = [tasks[n] EXCEPT !.pc = pc]
    PROVE  TaskInv(n)'
<1> DEFINE t == tasks[n]
           u == tasks'[n]
<1>1. /\ u.pc = pc /\ u.op = "copy" /\ u.touches = t.touches /\ u.b = t.b /\ u.k = t.k /\ u.vid = t.vid
      /\ u.path = t.path /\ u.srcPath = t.srcPath /\ u.size = t.size /\ u.data = t.data
  BY DEF CopyTasks
<1>2. CopyInv(n) /\ t.data.file = t.path /\ t.size > Threshold
  BY DEF TaskInv, Copying, CopyTasks, CopyInv
<1> HIDE DEF u
<1>3. CopyInv(n)' BY <1>1, <1>2 DEF CopyInv, u
<1> QED BY <1>1, <1>3 DEF TaskInv, Putting, u, CopyPcs, BucketPcs

-----------------------------------------------------------------------------
(* Every step keeps the invariant *)

LEMMA Busy ==
    ASSUME IInv, NEW n, NEW pc, At(n, pc), pc \notin {"done", "dropped"}
    PROVE  /\ n \in InFlight /\ n \in DOMAIN tasks /\ n \in Nat /\ tasks[n] \in TaskRecords /\ TaskInv(n)
           /\ TypeInv /\ tasks[n].pc = pc
BY Numbered DEF IInv, At, InFlight, TasksInv

\* A request that writes files has a directory to write them in.
LEMMA Directory ==
    ASSUME NEW t \in PutTasks \cup CopyTasks
    PROVE  /\ t.path \in Paths /\ Dir(t.path) \in Buckets \X Keys
           /\ t \in PutTasks => t.then = "write"
           /\ t \in CopyTasks => t.then = "copyLink"
           /\ t.op # "get"
<1>1. t.path \in Paths /\ t.op # "get" BY DEF PutTasks, CopyTasks
<1>2. Dir(t.path) \in Buckets \X Keys BY <1>1 DEF Dir, Paths
<1> QED BY <1>1, <1>2 DEF PutTasks, CopyTasks

LEMMA EnsureDirKeeps ==
    ASSUME IInv, NEW n, EnsureDir(n)
    PROVE  IInv'
<1>1. /\ n \in InFlight /\ tasks[n] \in PutTasks \cup CopyTasks /\ TaskInv(n) /\ TypeInv
      /\ tasks[n].pc = "ensureDir"
  BY Busy, Kinds DEF EnsureDir
<1>2. PICK pc \in {tasks[n].then, "remember"} : Goto(n, pc) BY DEF EnsureDir
<1>3. /\ UNCHANGED <<versioning, objects, link, disk, known, inPlace, everEnabled, contended, torn>>
      /\ dirs' \subseteq dirs \cup {Dir(tasks[n].path)}
  BY DEF EnsureDir, meta, history
<1>4. /\ dirs' \subseteq Buckets \X (Keys \cup Nat) /\ known' \subseteq Buckets \X (Keys \cup Nat)
      /\ contended' \subseteq Buckets \X Keys
  BY <1>1, <1>3, Directory DEF TypeInv, TypeOK
<1>5. CASE tasks[n] \in PutTasks
  <2>1. pc \in {"write", "remember"} BY <1>5, Directory
  <2>2. Moves(n) /\ tasks' \in Seq(TaskRecords) /\ tasks'[n] = [tasks[n] EXCEPT !.pc = pc]
    BY <2>1, <1>1, <1>2, <1>3, <1>5, Going DEF PutPcs
  <2>3. TaskInv(n)'
    <3>1. n \notin DOMAIN disk'
      BY <1>1, <1>3, <1>5 DEF TaskInv, PutInv, Putting, PutPcs, PutTasks
    <3> QED BY <2>1, <2>2, <3>1, <1>1, <1>5, PutGoes DEF PutPcs
  <2>4. tasks'[n].pc = pc /\ tasks[n].op # "get" BY <2>2, <1>5 DEF PutTasks
  <2>5. Aside(n) BY <2>1, <2>2, <2>4, <1>3, <1>4 DEF Aside
  <2> QED BY <2>3, <2>4, <2>5, AsideIs
<1>6. CASE tasks[n] \in CopyTasks
  <2>1. pc \in {"copyLink", "remember"} BY <1>6, Directory
  <2>2. Moves(n) /\ tasks' \in Seq(TaskRecords) /\ tasks'[n] = [tasks[n] EXCEPT !.pc = pc]
    BY <2>1, <1>1, <1>2, <1>3, <1>6, Going DEF CopyPcs
  <2>3. TaskInv(n)' BY <2>1, <2>2, <1>1, <1>6, CopyGoes DEF CopyPcs
  <2>4. tasks'[n].pc = pc /\ tasks[n].op # "get" BY <2>2, <1>6 DEF CopyTasks
  <2>5. Aside(n) BY <2>1, <2>2, <2>4, <1>3, <1>4 DEF Aside
  <2> QED BY <2>3, <2>4, <2>5, AsideIs
<1> QED BY <1>1, <1>5, <1>6

LEMMA RememberDirKeeps ==
    ASSUME IInv, NEW n, RememberDir(n)
    PROVE  IInv'
<1>1. /\ n \in InFlight /\ tasks[n] \in PutTasks \cup CopyTasks /\ TaskInv(n) /\ TypeInv
      /\ tasks[n].pc = "remember"
  BY Busy, Kinds DEF RememberDir
<1>2. /\ UNCHANGED <<versioning, objects, link, disk, dirs, inPlace, everEnabled, contended, torn>>
      /\ known' = known \cup {Dir(tasks[n].path)} /\ Goto(n, tasks[n].then)
  BY DEF RememberDir, meta, history
<1>3. /\ dirs' \subseteq Buckets \X (Keys \cup Nat) /\ known' \subseteq Buckets \X (Keys \cup Nat)
      /\ contended' \subseteq Buckets \X Keys
  BY <1>1, <1>2, Directory DEF TypeInv, TypeOK
<1>4. CASE tasks[n] \in PutTasks
  <2>1. Goto(n, "write") BY <1>2, <1>4, Directory
  <2>2. Moves(n) /\ tasks' \in Seq(TaskRecords) /\ tasks'[n] = [tasks[n] EXCEPT !.pc = "write"]
    BY <2>1, <1>1, <1>2, <1>4, Going DEF PutPcs
  <2>3. TaskInv(n)'
    <3>1. n \notin DOMAIN disk'
      BY <1>1, <1>2, <1>4 DEF TaskInv, PutInv, Putting, PutPcs, PutTasks
    <3> QED BY <2>2, <3>1, <1>1, <1>4, PutGoes DEF PutPcs
  <2>4. tasks'[n].pc = "write" /\ tasks[n].op # "get" BY <2>2, <1>4 DEF PutTasks
  <2>5. Aside(n) BY <2>2, <2>4, <1>2, <1>3 DEF Aside
  <2> QED BY <2>3, <2>4, <2>5, AsideIs
<1>5. CASE tasks[n] \in CopyTasks
  <2>1. Goto(n, "copyLink") BY <1>2, <1>5, Directory
  <2>2. Moves(n) /\ tasks' \in Seq(TaskRecords) /\ tasks'[n] = [tasks[n] EXCEPT !.pc = "copyLink"]
    BY <2>1, <1>1, <1>2, <1>5, Going DEF CopyPcs
  <2>3. TaskInv(n)' BY <2>2, <1>1, <1>5, CopyGoes DEF CopyPcs
  <2>4. tasks'[n].pc = "copyLink" /\ tasks[n].op # "get" BY <2>2, <1>5 DEF CopyTasks
  <2>5. Aside(n) BY <2>2, <2>4, <1>2, <1>3 DEF Aside
  <2> QED BY <2>3, <2>4, <2>5, AsideIs
<1> QED BY <1>1, <1>4, <1>5

\* A request that fails, or has nothing left to do.
LEMMA Stops ==
    ASSUME IInv, NEW n \in InFlight, Finish(n), tasks[n].op # "get",
           UNCHANGED <<versioning, objects, link, disk, inPlace, everEnabled, contended, torn>>,
           dirs' \subseteq Buckets \X (Keys \cup Nat), known' \subseteq Buckets \X (Keys \cup Nat)
    PROVE  IInv'
<1>1. TypeInv BY DEF IInv
<1>2. /\ Moves(n) /\ tasks' \in Seq(TaskRecords) /\ tasks'[n] = Done(tasks[n].op) /\ TaskInv(n)'
  BY <1>1, Finished
<1>3. contended' \subseteq Buckets \X Keys BY <1>1 DEF TypeInv, TypeOK
<1>4. Aside(n) BY <1>2, <1>3 DEF Aside, Done
<1> QED BY <1>2, <1>4, AsideIs

LEMMA FilesTyped ==
    ASSUME TypeInv, UNCHANGED <<dirs, known>>
    PROVE  dirs' \subseteq Buckets \X (Keys \cup Nat) /\ known' \subseteq Buckets \X (Keys \cup Nat)
BY DEF TypeInv, TypeOK

\* An answered request is no read that got something.
LEMMA NothingGot ==
    ASSUME NEW op
    PROVE  Done(op) \notin GetTasks /\ Dropped(op) \notin GetTasks
<1>1. Dropped(op) \notin GetTasks BY DEF Dropped, GetTasks
<1>2. "vid" \notin DOMAIN Done(op) BY DEF Done
<1>3. \A t \in GetTasks : "vid" \in DOMAIN t BY DEF GetTasks
<1> QED BY <1>1, <1>2, <1>3

LEMMA GetEnds ==
    ASSUME TypeInv, ReadsInv, NEW n, Moves(n), tasks'[n] \notin GetTasks, inPlace' = {} => inPlace = {}
    PROVE  ReadsInv'
<1>1. DOMAIN tasks' = DOMAIN tasks /\ \A m \in DOMAIN tasks : m = n \/ tasks'[m] = tasks[m]
  BY DEF Moves
<1> QED BY <1>1, ReadStays DEF ReadsInv

LEMMA CancelKeeps ==
    ASSUME IInv, NEW n, Cancel(n)
    PROVE  IInv'
<1>1. n \in InFlight /\ TypeInv /\ ReadsInv /\ n \in DOMAIN tasks /\ tasks[n] \in TaskRecords
  BY Numbered DEF Cancel, IInv, InFlight
<1> DEFINE u == Dropped(tasks[n].op)
<1>2. u \in TaskRecords /\ u.pc = "dropped" /\ u.op = tasks[n].op /\ u.touches = {}
  BY <1>1, Kinds DEF Dropped, Ops, EndedTasks, TaskRecords
<1>3. u \notin GetTasks BY NothingGot
<1>4. tasks' = [tasks EXCEPT ![n] = u] BY DEF Cancel
<1> HIDE DEF u
<1>5. /\ UNCHANGED <<versioning, objects, link, disk, dirs, known, inPlace, everEnabled, torn>>
      /\ contended' = contended \cup tasks[n].touches
  BY DEF Cancel, meta, files
<1>6. Moves(n) /\ tasks' \in Seq(TaskRecords) /\ tasks'[n] = u
  BY <1>1, <1>2, <1>4, <1>5, MovesTo DEF BucketPcs
<1>7. contended' \subseteq Buckets \X Keys
  <2>1. tasks[n].touches \subseteq Buckets \X Keys BY <1>1, Kinds DEF Touches
  <2>2. contended \subseteq Buckets \X Keys BY <1>1 DEF TypeInv, TypeOK
  <2> QED BY <2>1, <2>2, <1>5
<1>8. Aside(n) BY <1>1, <1>2, <1>5, <1>6, <1>7, FilesTyped DEF Aside
<1>9. TaskInv(n)' BY <1>2, <1>6 DEF TaskInv, Putting, Copying, PutPcs, CopyPcs, BucketPcs
<1>10. ReadsInv' BY <1>1, <1>3, <1>5, <1>6, GetEnds
<1> QED BY <1>8, <1>9, <1>10, AsideKeeps

LEMMA ForgetDirsKeeps ==
    ASSUME IInv, NEW n, ForgetDirs(n)
    PROVE  IInv'
<1>1. n \in InFlight /\ tasks[n] \in BucketTasks /\ TypeInv
  BY Busy, Kinds DEF ForgetDirs, BucketPcs
<1>2. /\ UNCHANGED <<versioning, objects, link, disk, dirs, inPlace, everEnabled, contended, torn>>
      /\ known' \subseteq known /\ Finish(n)
  BY DEF ForgetDirs, meta, history
<1>3. /\ dirs' \subseteq Buckets \X (Keys \cup Nat) /\ known' \subseteq Buckets \X (Keys \cup Nat)
  BY <1>1, <1>2 DEF TypeInv, TypeOK
<1>4. tasks[n].op # "get" BY <1>1 DEF BucketTasks
<1> QED BY <1>1, <1>2, <1>3, <1>4, Stops

\* What ReadFile answers is what the path says.
LEMMA ReadFileKeeps ==
    ASSUME IInv, NEW n, ReadFile(n)
    PROVE  IInv'
<1>1. /\ n \in InFlight /\ n \in DOMAIN tasks /\ tasks[n] \in GetTasks /\ TypeInv /\ ReadsInv /\ FilesInv
      /\ tasks[n].pc = "read" /\ tasks[n].op = "get"
  BY Busy, Kinds DEF ReadFile, IInv, GetTasks
<1>2. /\ UNCHANGED <<versioning, objects, link, disk, dirs, known, inPlace, everEnabled, contended, torn>>
  BY DEF ReadFile, meta, files, history
<1>3. contended' \subseteq Buckets \X Keys BY <1>1, <1>2 DEF TypeInv, TypeOK
<1>4. CASE Linked(tasks[n].path)
  <2> DEFINE t == tasks[n]
             got == disk[link[t.path]]
             u == [t EXCEPT !.pc = "done", !.got = got]
  <2>1. t.path # None /\ t.path \in Paths BY <1>1 DEF ReadsInv, GetTasks
  <2>2. FileInv(t.path) /\ link[t.path] \in DOMAIN disk
    BY <1>4, <1>1 DEF FilesInv, Linked, FileInv
  <2>3. got \in Contents BY <2>2, <1>1 DEF TypeInv, TypeOK
  <2>4. tasks' = [tasks EXCEPT ![n] = u]
    <3>1. tasks' = [tasks EXCEPT ![n].pc = "done", ![n].got = disk[link[tasks[n].path]]]
      BY <1>4 DEF ReadFile
    <3> QED BY <3>1, <1>1 DEF TypeInv
  <2>5. u \in GetTasks /\ u.pc = "done" /\ u.got = got /\ u.op = "get" /\ u.touches = t.touches
        /\ u.vid = t.vid /\ u.etag = t.etag /\ u.path = t.path
    <3> HIDE DEF got
    <3> QED BY <1>1, <2>3 DEF GetTasks
  <2> HIDE DEF u
  <2>6. u \in TaskRecords BY <2>5 DEF TaskRecords
  <2>7. Moves(n) /\ tasks' \in Seq(TaskRecords) /\ tasks'[n] = u
    BY <1>1, <1>2, <2>4, <2>5, <2>6, MovesTo DEF BucketPcs
  <2>8. Aside(n) BY <1>1, <1>2, <1>3, <2>5, <2>7, FilesTyped DEF Aside
  <2>9. TaskInv(n)' BY <2>5, <2>7 DEF TaskInv, Putting, Copying, BucketPcs
  <2>10. /\ t.vid # Null => /\ t.path[3] = t.vid /\ t.vid[1] \in DOMAIN tasks
                            /\ tasks[t.vid[1]].op = "put" => t.etag = <<t.vid[1]>>
    BY <1>1, <2>1 DEF ReadsInv
  <2>11. ASSUME inPlace = {}
         PROVE  Len(got) = 1 /\ ((t.vid # Null /\ tasks[t.vid[1]].op = "put") => got = t.etag)
    <3>2. got = <<link[t.path]>> BY <2>11, <2>1, <2>2 DEF FileInv
    <3>3. ASSUME t.vid # Null, tasks[t.vid[1]].op = "put" PROVE got = t.etag
      <4>1. t.path[3] = t.vid /\ t.vid[1] \in DOMAIN tasks /\ t.etag = <<t.vid[1]>>
        BY <3>3, <2>10
      <4>2. t.path[3] = <<t.vid[1], 1>> BY <2>1, <4>1, <3>3 DEF Paths
      <4>3. link[t.path] = t.vid[1] BY <2>1, <2>2, <4>1, <4>2, <3>3 DEF FileInv
      <4> QED BY <4>1, <4>3, <3>2
    <3> QED BY <3>2, <3>3
  <2> HIDE DEF got
  <2>12. ReadsInv'
    <3>1. DOMAIN tasks' = DOMAIN tasks /\ \A m \in DOMAIN tasks : tasks'[m].op = tasks[m].op /\ (m = n \/ tasks'[m] = tasks[m])
      BY <2>7 DEF Moves
    <3> SUFFICES ASSUME NEW m \in DOMAIN tasks
                 PROVE LET w == tasks'[m]
                       IN  (w.op = "get" /\ w \in GetTasks) =>
                 /\ w.pc = "read" => w.path # None
                 /\ w.vid # Null /\ w.path # None =>
                        /\ w.path[3] = w.vid /\ w.vid[1] \in DOMAIN tasks'
                        /\ tasks'[w.vid[1]].op = "put" => w.etag = <<w.vid[1]>>
                 /\ (w.pc = "done" /\ w.path # None /\ inPlace' = {}) =>
                        /\ Len(w.got) = 1
                        /\ w.vid # Null /\ tasks'[w.vid[1]].op = "put" => w.got = w.etag
      BY <3>1 DEF ReadsInv
    <3>2. CASE m # n BY <3>2, <3>1, <2>7, <1>1, <1>2, ReadStays
    <3>3. CASE m = n BY <3>3, <3>1, <2>1, <2>5, <2>7, <2>10, <2>11, <1>2
    <3> QED BY <3>2, <3>3
  <2> QED BY <2>8, <2>9, <2>12, AsideKeeps
<1>5. CASE ~Linked(tasks[n].path)
  <2>1. Finish(n) BY <1>5 DEF ReadFile
  <2>2. Moves(n) /\ tasks' \in Seq(TaskRecords) /\ tasks'[n] = Done(tasks[n].op) /\ TaskInv(n)'
    BY <2>1, <1>1, <1>2, Finished
  <2>3. Aside(n) BY <2>2, <1>1, <1>2, <1>3, FilesTyped DEF Aside, Done
  <2>4. ReadsInv' BY <2>2, <1>1, <1>2, NothingGot, GetEnds
  <2> QED BY <2>2, <2>3, <2>4, AsideKeeps
<1> QED BY <1>4, <1>5

\* The name of what a request writes.
LEMMA NewName ==
    ASSUME NEW n \in 1..MaxOps, NEW b \in Buckets, NEW k \in Keys
    PROVE  /\ NewVersionId(b, n) \in {Null, <<n, 1>>} /\ NewVersionId(b, n) \in Vids
           /\ <<b, k, NewVersionId(b, n)>> \in Paths
           /\ FileRef(<<b, k, NewVersionId(b, n)>>) \in DataRecords
<1>1. n \in Nat OBVIOUS
<1>2. NewVersionId(b, n) \in {Null, <<n, 1>>} BY DEF NewVersionId, Uuid
<1>3. NewVersionId(b, n) \in Vids /\ NewVersionId(b, n) \in {Null} \cup ((1..MaxOps) \X {1})
  BY <1>1, <1>2 DEF Vids
<1>4. <<b, k, NewVersionId(b, n)>> \in Paths BY <1>3 DEF Paths
<1>5. FileRef(<<b, k, NewVersionId(b, n)>>) \in DataRecords
  BY <1>4 DEF FileRef, DataRecords, Contents
<1> QED BY <1>2, <1>3, <1>4, <1>5

LEMMA CopyVersioningKeeps ==
    ASSUME IInv, NEW n, CopyVersioning(n)
    PROVE  IInv'
<1>1. /\ n \in InFlight /\ n \in DOMAIN tasks /\ tasks[n] \in LookupTasks /\ TypeInv /\ TaskInv(n)
      /\ tasks[n].pc = "copyVersioning"
  BY Busy, Kinds DEF CopyVersioning
<1>2. UNCHANGED <<versioning, objects, link, disk, dirs, known, inPlace, everEnabled, contended, torn>>
  BY DEF CopyVersioning, meta, files, history
<1> DEFINE t == tasks[n]
           vid == NewVersionId(t.b, n)
           path == <<t.b, t.k, vid>>
           toFile == t.src.data.file # None /\ t.src.size > Threshold
           pc == CASE t.src.data.file = None -> "commit"
                   [] toFile -> "copyResolve"
                   [] OTHER -> "copyRead"
           data == IF toFile THEN FileRef(path) ELSE t.src.data
           u == [op |-> "copy", pc |-> pc, touches |-> t.touches, b |-> t.b, k |-> t.k, vid |-> vid,
                 etag |-> t.src.etag, size |-> t.src.size, data |-> data,
                 srcPath |-> t.srcPath, path |-> path, then |-> "copyLink", from |-> None, to |-> None]
<1>3. tasks' = [tasks EXCEPT ![n] = u] BY DEF CopyVersioning
<1>4. /\ t.touches \in Touches /\ t.b \in Buckets /\ t.k \in Keys /\ t.src \in VersionRecords /\ t.srcPath \in Paths
      /\ t.op = "copy"
  BY <1>1 DEF LookupTasks
<1>5. /\ t.touches = {KeyOf(t.srcPath), <<t.b, t.k>>} /\ t.src.data.file \in {None, t.srcPath}
  BY <1>1 DEF TaskInv, LookupInv
<1>6. t.src.etag \in Contents /\ t.src.size \in Nat /\ t.src.data \in DataRecords
  BY <1>4 DEF VersionRecords
<1>7. vid \in {Null, <<n, 1>>} /\ vid \in Vids /\ path \in Paths /\ FileRef(path) \in DataRecords /\ FileRef(path).file = path
  BY <1>1, <1>4, Numbered, NewName DEF FileRef
<1> HIDE DEF vid, path
<1>8. /\ data \in DataRecords
      /\ \/ pc = "commit" /\ data.file = None
         \/ pc = "copyResolve" /\ data.file = path /\ t.src.size > Threshold
         \/ pc = "copyRead" /\ data.file = t.srcPath /\ t.src.size <= Threshold
  <2>1. Threshold \in Nat BY S3Assumption
  <2>2. CASE t.src.data.file = None BY <2>2, <1>6
  <2>3. CASE t.src.data.file # None /\ t.src.size > Threshold BY <2>3, <1>7
  <2>4. CASE t.src.data.file # None /\ ~(t.src.size > Threshold)
    <3>1. t.src.size <= Threshold BY <2>1, <2>4, <1>6
    <3> QED BY <3>1, <2>4, <1>5, <1>6
  <2> QED BY <2>2, <2>3, <2>4
<1> HIDE DEF pc, data
<1>9. /\ u \in CopyTasks
      /\ u.pc = pc /\ u.op = "copy" /\ u.touches = t.touches /\ u.b = t.b /\ u.k = t.k /\ u.vid = vid
      /\ u.path = path /\ u.srcPath = t.srcPath /\ u.size = t.src.size /\ u.data = data
  BY <1>4, <1>6, <1>7, <1>8 DEF CopyTasks, CopyPcs
<1> HIDE DEF u
<1>10. Moves(n) /\ tasks' \in Seq(TaskRecords) /\ tasks'[n] = u
  BY <1>1, <1>2, <1>3, <1>4, <1>8, <1>9, MovesTo DEF TaskRecords, BucketPcs
<1>11. CopyInv(n)' BY <1>5, <1>7, <1>8, <1>9, <1>10 DEF CopyInv, path
<1>12. TaskInv(n)' BY <1>8, <1>9, <1>10, <1>11 DEF TaskInv, Putting, BucketPcs
<1>13. contended' \subseteq Buckets \X Keys BY <1>1, <1>2 DEF TypeInv, TypeOK
<1>14. Aside(n) BY <1>1, <1>2, <1>8, <1>9, <1>10, <1>13, FilesTyped DEF Aside
<1> QED BY <1>4, <1>12, <1>14, AsideIs

LEMMA CopyReadKeeps ==
    ASSUME IInv, NEW n, CopyRead(n)
    PROVE  IInv'
<1>1. /\ n \in InFlight /\ n \in DOMAIN tasks /\ tasks[n] \in CopyTasks /\ TypeInv /\ TaskInv(n)
      /\ tasks[n].pc = "copyRead" /\ tasks[n].op = "copy"
  BY Busy, Kinds DEF CopyRead, CopyTasks
<1>2. /\ UNCHANGED <<versioning, objects, link, disk, dirs, known, inPlace, everEnabled, contended, torn>>
  BY DEF CopyRead, meta, files, history
<1>3. contended' \subseteq Buckets \X Keys BY <1>1, <1>2 DEF TypeInv, TypeOK
<1> DEFINE t == tasks[n]
<1>4. CASE Linked(t.data.file)
  <2> DEFINE data == Inline(disk[link[t.data.file]])
             u == [t EXCEPT !.data = data, !.pc = "commit"]
  <2>1. link[t.data.file] \in DOMAIN disk BY <1>1, <1>4 DEF TypeInv, TypeOK, Linked
  <2>2. disk[link[t.data.file]] \in Contents BY <2>1, <1>1 DEF TypeInv, TypeOK
  <2>3. data \in DataRecords /\ data.file = None BY <2>2 DEF DataRecords, Inline
  <2>4. tasks' = [tasks EXCEPT ![n] = u]
    <3>1. tasks' = [tasks EXCEPT ![n].data = data, ![n].pc = "commit"]
      BY <1>4 DEF CopyRead
    <3> QED BY <3>1, <1>1 DEF TypeInv
  <2> HIDE DEF data
  <2>5. /\ u \in CopyTasks
        /\ u.pc = "commit" /\ u.op = "copy" /\ u.touches = t.touches /\ u.b = t.b /\ u.k = t.k /\ u.vid = t.vid
        /\ u.path = t.path /\ u.srcPath = t.srcPath /\ u.data = data
    BY <2>3, <1>1 DEF CopyTasks, CopyPcs
  <2> HIDE DEF u
  <2>6. Moves(n) /\ tasks' \in Seq(TaskRecords) /\ tasks'[n] = u
    BY <1>1, <1>2, <2>4, <2>5, MovesTo DEF TaskRecords, BucketPcs
  <2>7. CopyInv(n) BY <1>1 DEF TaskInv, Copying, CopyPcs
  <2>8. CopyInv(n)' BY <2>3, <2>5, <2>6, <2>7 DEF CopyInv
  <2>9. TaskInv(n)' BY <2>5, <2>6, <2>8 DEF TaskInv, Putting, BucketPcs
  <2>10. Aside(n) BY <2>5, <2>6, <1>1, <1>2, <1>3, FilesTyped DEF Aside
  <2> QED BY <2>9, <2>10, <1>1, AsideIs
<1>5. CASE ~Linked(t.data.file)
  <2>1. Finish(n) BY <1>5 DEF CopyRead
  <2> QED BY <2>1, <1>1, <1>2, FilesTyped, Stops
<1> QED BY <1>4, <1>5

LEMMA CopyResolveKeeps ==
    ASSUME IInv, NEW n, CopyResolve(n)
    PROVE  IInv'
<1>1. /\ n \in InFlight /\ n \in DOMAIN tasks /\ tasks[n] \in CopyTasks /\ TypeInv /\ TaskInv(n)
      /\ tasks[n].pc = "copyResolve" /\ tasks[n].op = "copy"
  BY Busy, Kinds DEF CopyResolve, CopyTasks
<1>2. /\ UNCHANGED <<versioning, objects, link, disk, dirs, known, inPlace, everEnabled, contended, torn>>
  BY DEF CopyResolve, meta, files, history
<1>3. contended' \subseteq Buckets \X Keys BY <1>1, <1>2 DEF TypeInv, TypeOK
<1>4. CASE Goto(n, "ensureDir")
  <2>1. Moves(n) /\ tasks' \in Seq(TaskRecords) /\ tasks'[n] = [tasks[n] EXCEPT !.pc = "ensureDir"]
    BY <1>1, <1>2, <1>4, Going DEF CopyPcs
  <2>2. TaskInv(n)' BY <2>1, <1>1, CopyGoes DEF CopyPcs
  <2>3. tasks'[n].pc = "ensureDir" BY <2>1, <1>1 DEF CopyTasks
  <2>4. Aside(n) BY <2>1, <2>3, <1>1, <1>2, <1>3, FilesTyped DEF Aside
  <2> QED BY <2>2, <2>4, <1>1, AsideIs
<1>5. CASE Finish(n) BY <1>5, <1>1, <1>2, FilesTyped, Stops
<1> QED BY <1>4, <1>5 DEF CopyResolve

-----------------------------------------------------------------------------
(* Writing files *)

LEMMA Names ==
    ASSUME NEW p \in Paths
    PROVE  /\ \A n \in 1..MaxOps : p[3] # <<n>>
           /\ p = <<p[1], p[2], p[3]>> /\ p[1] \in Buckets /\ p[2] \in Keys
           /\ p[3] # Null => (p[3] = <<p[3][1], 1>> /\ p[3][1] \in Nat)
<1>1. p = <<p[1], p[2], p[3]>> /\ p[1] \in Buckets /\ p[2] \in Keys /\ p[3] \in {Null} \cup ((1..MaxOps) \X {1})
  BY DEF Paths
<1>2. p[3] # Null => (p[3] = <<p[3][1], 1>> /\ p[3][1] \in Nat) BY <1>1
<1>3. ASSUME NEW n \in 1..MaxOps PROVE p[3] # <<n>> BY <1>1, NullAssumption
<1> QED BY <1>1, <1>2, <1>3

\* A temporary file has appeared; all else is as it was.
LEMMA TmpWritten ==
    ASSUME IInv, NEW n, tasks[n] \in PutTasks, tasks[n].pc = "write", Moves(n), tasks' \in Seq(TaskRecords), TaskInv(n)',
           NEW c \in Contents, link' = With(link, TmpPath(n), n), disk' = With(disk, n, c),
           tasks'[n].pc \in {"rename", "done"}, tasks'[n].pc = "rename" => c = <<n>>,
           UNCHANGED <<versioning, objects, dirs, known, contended, torn, inPlace, everEnabled>>
    PROVE  IInv'
<1>1. /\ TypeInv /\ TasksInv /\ VersionsInv /\ FilesInv /\ CleanupInv /\ DeletionInv /\ DurableInv /\ ReadsInv
      /\ n \in DOMAIN tasks /\ n \in 1..MaxOps
  BY Numbered DEF IInv, Moves, InFlight
<1>2. n \notin DOMAIN disk /\ tasks[n].op # "get" /\ tasks[n].path \in Paths
  BY <1>1 DEF TasksInv, TaskInv, PutInv, Putting, PutPcs, PutTasks
<1>0. PICK tmp : tmp = TmpPath(n) OBVIOUS
<1>3. tmp = <<tasks[n].path[1], tasks[n].path[2], <<n>>>> /\ tmp[1] \in Buckets /\ tmp[3] = <<n>>
      /\ tmp \in Buckets \X Keys \X {<<n>>}
  BY <1>0, <1>2, Names DEF TmpPath
<1>4. tmp \notin Paths /\ link' = With(link, tmp, n) BY <1>0, <1>1, <1>3, Names
<1>5. /\ DOMAIN link' = DOMAIN link \cup {tmp} /\ link'[tmp] = n
      /\ \A p \in DOMAIN link : p # tmp => link'[p] = link[p]
  BY <1>4 DEF With
<1>6. /\ DOMAIN disk' = DOMAIN disk \cup {n} /\ disk'[n] = c
      /\ \A m \in DOMAIN disk : disk'[m] = disk[m]
  BY <1>2 DEF With
<1>7. TypeInv'
  <2>1. disk' \in [DOMAIN disk' -> Contents]
    <3>1. disk' = [m \in DOMAIN disk \cup {n} |-> IF m = n THEN c ELSE disk[m]]
      BY DEF With
    <3>2. disk \in [DOMAIN disk -> Contents] BY <1>1 DEF TypeInv, TypeOK
    <3> QED BY <3>1, <3>2
  <2>2. \A p \in DOMAIN link' : link'[p] \in DOMAIN disk' /\ p[1] \in Buckets
    BY <1>1, <1>3, <1>5, <1>6 DEF TypeInv, TypeOK
  <2>3. inPlace' \subseteq DOMAIN disk' BY <1>1, <1>6 DEF TypeInv, TypeOK
  <2> QED BY <1>1, <2>1, <2>2, <2>3 DEF TypeInv, TypeOK, Moves
<1>8. TasksInv' BY <1>1, <1>6, TasksStay
<1>9. FilesInv'
  <2>1. DOMAIN tasks' = DOMAIN tasks /\ \A m \in DOMAIN tasks : tasks'[m].op = tasks[m].op /\ (m = n \/ tasks'[m] = tasks[m])
    BY DEF Moves
  <2>2. \A p \in DOMAIN link : link[p] # n BY <1>1, <1>2 DEF FilesInv, FileInv
  <2>3. n \notin inPlace /\ inPlace \subseteq DOMAIN disk /\ DOMAIN disk \subseteq DOMAIN tasks
    BY <1>1, <1>2 DEF FilesInv
  <2>4. ASSUME NEW p \in DOMAIN link, p # tmp PROVE FileInv(p)'
    <3>1. FileInv(p) /\ link'[p] = link[p] /\ link[p] \in DOMAIN disk /\ link[p] # n /\ disk'[link[p]] = disk[link[p]]
      BY <1>1, <1>5, <1>6, <2>2, <2>4 DEF FilesInv, FileInv
    <3>2. ASSUME NEW m \in DOMAIN tasks, IsTmp(p, m)
          PROVE  /\ link'[p] = m /\ m \notin inPlace
                 /\ \A q \in DOMAIN link' : link'[q] = m => q = p
                 /\ tasks'[m].pc = "rename" => disk'[m] = <<m>>
      <4>1. /\ link[p] = m /\ m \notin inPlace
            /\ \A q \in DOMAIN link : link[q] = m => q = p
            /\ tasks[m].pc = "rename" => disk[m] = <<m>>
        BY <3>1, <3>2 DEF FileInv
      <4>2. m # n BY <4>1, <3>1
      <4> QED BY <4>1, <4>2, <3>1, <1>5, <2>1
    <3>3. (p \in Paths \/ \E m \in DOMAIN tasks : p \in Buckets \X Keys \X {<<m>>}) /\ link'[p] \in DOMAIN disk'
      BY <3>1, <1>6 DEF FileInv
    <3>4. p \in Paths =>
             /\ p[3] # Null => p[3][1] \in DOMAIN tasks
             /\ \A m \in DOMAIN tasks : p[3] = <<m, 1>> /\ tasks'[m].op = "put" => link'[p] = m
             /\ link'[p] \notin inPlace => disk'[link'[p]] = <<link'[p]>>
      BY <3>1, <2>1 DEF FileInv
    <3> QED BY <3>2, <3>3, <3>4, <2>1 DEF FileInv, IsTmp
  <2>5. FileInv(tmp)'
    <3>1. ASSUME NEW m \in DOMAIN tasks, IsTmp(tmp, m) PROVE m = n BY <3>1, <1>3 DEF IsTmp
    <3>2. \A q \in DOMAIN link' : link'[q] = n => q = tmp BY <1>5, <2>2
    <3>3. n \in DOMAIN disk' /\ (tasks'[n].pc = "rename" => disk'[n] = <<n>>) BY <1>6
    <3>4. \E m \in DOMAIN tasks' : tmp \in Buckets \X Keys \X {<<m>>} BY <1>1, <1>3, <2>1
    <3> QED BY <3>1, <3>2, <3>3, <3>4, <1>4, <1>5, <2>1, <2>3 DEF FileInv, IsTmp
  <2>6. \A p \in DOMAIN link' : FileInv(p)' BY <1>5, <2>4, <2>5
  <2>7. DOMAIN disk' \subseteq DOMAIN tasks' /\ inPlace' \subseteq DOMAIN disk'
    BY <1>1, <1>6, <2>1, <2>3
  <2> QED BY <2>6, <2>7 DEF FilesInv
<1>10. VersionsInv' BY <1>1, VersionsStay
<1>11. CleanupInv' BY <1>1, CleanupStays
<1>12. DeletionInv' BY <1>1, DeletionStays
<1>13. DurableInv' BY <1>1, <1>5, DurableStays
<1>14. ReadsInv' BY <1>1, <1>2, ReadsStay
<1> QED BY <1>7, <1>8, <1>9, <1>10, <1>11, <1>12, <1>13, <1>14 DEF IInv

LEMMA WriteTmpKeeps ==
    ASSUME IInv, NEW n, WriteTmp(n)
    PROVE  IInv'
<1>1. /\ n \in InFlight /\ n \in DOMAIN tasks /\ n \in Nat /\ tasks[n] \in PutTasks /\ TypeInv /\ TaskInv(n)
      /\ tasks[n].pc = "write" /\ tasks[n].op = "put"
  BY Busy, Kinds DEF WriteTmp, PutTasks
<1>2. UNCHANGED <<versioning, objects, dirs, known, inPlace, everEnabled, contended, torn>>
  BY DEF WriteTmp, meta, history
<1>3. tasks[n].body = <<n>> /\ <<n>> \in Contents
  BY <1>1 DEF TaskInv, PutInv, Putting, PutPcs, Contents
<1>4. CASE Dir(tasks[n].path) \in dirs
  <2>1. link' = With(link, TmpPath(n), n) /\ disk' = With(disk, n, tasks[n].body) /\ Goto(n, "rename")
    BY <1>4 DEF WriteTmp
  <2>2. Moves(n) /\ tasks' \in Seq(TaskRecords) /\ tasks'[n] = [tasks[n] EXCEPT !.pc = "rename"]
    BY <2>1, <1>1, <1>2, Going DEF PutPcs
  <2>3. TaskInv(n)' BY <2>2, <1>1, PutGoes DEF PutPcs
  <2>4. tasks'[n].pc = "rename" BY <2>2, <1>1 DEF PutTasks
  <2> QED BY <2>1, <2>2, <2>3, <2>4, <1>1, <1>2, <1>3, TmpWritten
<1>5. CASE Dir(tasks[n].path) \notin dirs
  <2>1. Finish(n) /\ UNCHANGED <<link, disk>> BY <1>5 DEF WriteTmp
  <2> QED BY <2>1, <1>1, <1>2, FilesTyped, Stops
<1> QED BY <1>4, <1>5

LEMMA WriteFailsKeeps ==
    ASSUME IInv, NEW n, WriteFails(n)
    PROVE  IInv'
<1>1. /\ n \in InFlight /\ tasks[n] \in PutTasks /\ TypeInv /\ tasks[n].pc = "write"
  BY Busy, Kinds DEF WriteFails
<1>2. /\ UNCHANGED <<versioning, objects, dirs, known, inPlace, everEnabled, contended, torn>>
      /\ link' = With(link, TmpPath(n), n) /\ disk' = With(disk, n, <<>>) /\ Finish(n)
  BY DEF WriteFails, meta, history
<1>3. Moves(n) /\ tasks' \in Seq(TaskRecords) /\ tasks'[n] = Done(tasks[n].op) /\ TaskInv(n)'
  BY <1>1, <1>2, Finished
<1>4. tasks'[n].pc = "done" /\ <<>> \in Contents BY <1>3 DEF Done, Contents
<1> QED BY <1>1, <1>2, <1>3, <1>4, TmpWritten

LEMMA RenameKeeps ==
    ASSUME IInv, NEW n, Rename(n)
    PROVE  IInv'
<1>1. /\ n \in InFlight /\ n \in DOMAIN tasks /\ n \in Nat /\ tasks[n] \in PutTasks /\ TaskInv(n)
      /\ tasks[n].pc = "rename" /\ tasks[n].op = "put"
  BY Busy, Kinds DEF Rename, PutTasks
<1>2. /\ TypeInv /\ TasksInv /\ VersionsInv /\ FilesInv /\ CleanupInv /\ DeletionInv /\ DurableInv /\ ReadsInv
  BY DEF IInv
<1>3. UNCHANGED <<versioning, objects, disk, dirs, known, inPlace, everEnabled, contended, torn>>
  BY DEF Rename, meta, history
<1>4. CASE ~Linked(TmpPath(n))
  <2>1. Finish(n) /\ UNCHANGED link BY <1>4 DEF Rename
  <2> QED BY <2>1, <1>1, <1>2, <1>3, FilesTyped, Stops
<1>5. CASE Linked(TmpPath(n))
  <2>0. PICK tmp, path : tmp = TmpPath(n) /\ path = tasks[n].path OBVIOUS
  <2>1. /\ path \in Paths /\ path[3] \in {Null, <<n, 1>>} /\ path[1] \in Buckets
    <3>1. path \in Paths BY <2>0, <1>1 DEF PutTasks
    <3>2. path[3] \in {Null, <<n, 1>>} BY <2>0, <1>1 DEF TaskInv, PutInv, Putting, PutPcs
    <3> QED BY <3>1, <3>2, Names
  <2>2. tmp[3] = <<n>> /\ tmp \in DOMAIN link /\ n \in 1..MaxOps
    BY <2>0, <1>1, <1>2, <1>5, Numbered DEF TmpPath, Linked
  <2>3. tmp # path /\ tmp \notin Paths BY <2>1, <2>2, Names
  <2>4. /\ link[tmp] = n /\ n \notin inPlace /\ n \in DOMAIN disk
        /\ \A p \in DOMAIN link : link[p] = n => p = tmp
        /\ disk[n] = <<n>>
    <3>1. FileInv(tmp) BY <2>2, <1>2 DEF FilesInv
    <3> QED BY <3>1, <2>2, <1>1 DEF FileInv, IsTmp
  <2>5. link' = With(Restrict(link, DOMAIN link \ {tmp}), path, n) /\ Goto(n, "commit")
    <3>1. tasks[n].after = "commit" BY <1>1 DEF PutTasks
    <3> QED BY <3>1, <2>0, <2>4, <1>5 DEF Rename
  <2>6. /\ DOMAIN link' = (DOMAIN link \ {tmp}) \cup {path} /\ link'[path] = n
        /\ \A p \in DOMAIN link : (p # tmp /\ p # path) => link'[p] = link[p]
    BY <2>5 DEF With, Restrict
  <2>7. Moves(n) /\ tasks' \in Seq(TaskRecords) /\ tasks'[n] = [tasks[n] EXCEPT !.pc = "commit"]
    BY <2>5, <1>1, <1>2, <1>3, Going DEF PutPcs
  <2>8. TaskInv(n)' BY <2>7, <1>1, PutGoes DEF PutPcs
  <2>9. tasks'[n].pc = "commit" /\ tasks'[n].path = path /\ tasks[n].op # "get"
    BY <2>0, <2>7, <1>1 DEF PutTasks
  <2>10. TypeInv'
    <3>1. contended' \subseteq Buckets \X Keys BY <1>2, <1>3 DEF TypeInv, TypeOK
    <3>2. \A p \in DOMAIN link' : link'[p] \in DOMAIN disk /\ p[1] \in Buckets
      BY <1>2, <2>1, <2>4, <2>6 DEF TypeInv, TypeOK
    <3> QED BY <3>1, <3>2, <2>7, <1>2, <1>3, FilesTyped, TypesStay
  <2>11. TasksInv' BY <1>2, <1>3, <2>7, <2>8, TasksStay
  <2>12. FilesInv'
    <3>1. DOMAIN tasks' = DOMAIN tasks /\ \A m \in DOMAIN tasks : tasks'[m].op = tasks[m].op /\ (m = n \/ tasks'[m] = tasks[m])
      BY <2>7 DEF Moves
    <3>2. ASSUME NEW p \in DOMAIN link, p # tmp, p # path PROVE FileInv(p)'
      <4>1. FileInv(p) /\ link'[p] = link[p] BY <3>2, <2>6, <1>2 DEF FilesInv
      <4>2. ASSUME NEW m \in DOMAIN tasks, IsTmp(p, m)
            PROVE  /\ link'[p] = m /\ m \notin inPlace
                   /\ \A q \in DOMAIN link' : link'[q] = m => q = p
                   /\ tasks'[m].pc = "rename" => disk[m] = <<m>>
        <5>1. /\ link[p] = m /\ m \notin inPlace
              /\ \A q \in DOMAIN link : link[q] = m => q = p
              /\ tasks[m].pc = "rename" => disk[m] = <<m>>
          BY <4>1, <4>2 DEF FileInv
        <5>2. m # n BY <5>1, <2>4, <3>2
        <5> QED BY <5>1, <5>2, <4>1, <2>6, <3>1
      <4>3. p \in Paths => \A m \in DOMAIN tasks : (p[3] = <<m, 1>> /\ tasks'[m].op = "put") => link'[p] = m
        BY <4>1, <3>1 DEF FileInv
      <4> QED BY <4>1, <4>2, <4>3, <3>1, <1>3 DEF FileInv, IsTmp
    <3>3. FileInv(path)'
      <4>1. \A m \in DOMAIN tasks : ~IsTmp(path, m)
        BY <2>1, <1>2, Names, Numbered DEF IsTmp
      <4>2. \A m \in DOMAIN tasks : path[3] = <<m, 1>> => m = n
        BY <2>1, NullAssumption, <1>2, Numbered
      <4>3. path[3] # Null => path[3][1] \in DOMAIN tasks BY <2>1, <1>1
      <4> QED BY <4>1, <4>2, <4>3, <3>1, <2>1, <2>4, <2>6, <1>3 DEF FileInv, IsTmp
    <3>4. \A p \in DOMAIN link' : FileInv(p)' BY <2>6, <3>2, <3>3
    <3> QED BY <3>4, <3>1, <1>2, <1>3 DEF FilesInv
  <2>13. VersionsInv' BY <1>2, <1>3, <2>7, VersionsStay
  <2>14. CleanupInv' BY <1>2, <1>3, <2>7, <2>9, CleanupStays
  <2>15. DeletionInv' BY <1>2, <1>3, <2>7, DeletionStays
  <2>16. DurableInv'
    <3>1. \A p \in Paths : p \in DOMAIN link => p \in DOMAIN link' BY <2>3, <2>6
    <3>2. tasks'[n].path \in DOMAIN link' BY <2>6, <2>9
    <3> QED BY <3>1, <3>2, <1>2, <1>3, <2>7, DurableStays
  <2>17. ReadsInv' BY <1>2, <1>3, <2>7, <2>9, ReadsStay
  <2> QED BY <2>10, <2>11, <2>12, <2>13, <2>14, <2>15, <2>16, <2>17 DEF IInv
<1> QED BY <1>4, <1>5

\* The other name of a file.
LEMMA HardLink ==
    ASSUME IInv, NEW n, Moves(n), tasks' \in Seq(TaskRecords), TaskInv(n)', tasks[n] \in CopyTasks,
           tasks[n].pc = "copyLink", tasks'[n].pc = "commit", TaskInv(n),
           Linked(tasks[n].srcPath), ~Linked(tasks[n].path),
           link' = With(link, tasks[n].path, link[tasks[n].srcPath]),
           UNCHANGED <<versioning, objects, disk, dirs, known, contended, torn, inPlace, everEnabled>>
    PROVE  IInv'
<1>1. /\ TypeInv /\ TasksInv /\ VersionsInv /\ FilesInv /\ CleanupInv /\ DeletionInv /\ DurableInv /\ ReadsInv
      /\ n \in DOMAIN tasks /\ n \in 1..MaxOps /\ tasks[n].op = "copy"
  BY Numbered DEF IInv, Moves, InFlight, CopyTasks
<1>2. PICK src, path : src = tasks[n].srcPath /\ path = tasks[n].path OBVIOUS
<1>3. src \in Paths /\ path \in Paths /\ src \in DOMAIN link /\ path \notin DOMAIN link
  BY <1>2 DEF CopyTasks, Linked
<1>4. path[3] \in {Null, <<n, 1>>} /\ path[1] \in Buckets
  <2>1. path[3] \in {Null, <<n, 1>>} BY <1>1, <1>2 DEF TaskInv, CopyInv, Copying, CopyPcs
  <2> QED BY <2>1, <1>3, Names
<1>5. /\ DOMAIN link' = DOMAIN link \cup {path} /\ link'[path] = link[src]
      /\ \A p \in DOMAIN link : link'[p] = link[p]
  BY <1>2, <1>3 DEF With
<1>6. TypeInv'
  <2>1. contended' \subseteq Buckets \X Keys BY <1>1 DEF TypeInv, TypeOK
  <2>2. \A p \in DOMAIN link' : link'[p] \in DOMAIN disk /\ p[1] \in Buckets
    BY <1>1, <1>3, <1>4, <1>5 DEF TypeInv, TypeOK
  <2> QED BY <2>1, <2>2, <1>1, FilesTyped, TypesStay
<1>7. TasksInv' BY <1>1, TasksStay
<1>8. FilesInv'
  <2>1. DOMAIN tasks' = DOMAIN tasks /\ \A m \in DOMAIN tasks : tasks'[m].op = tasks[m].op /\ (m = n \/ tasks'[m] = tasks[m])
    BY DEF Moves
  <2>2. FileInv(src) /\ link[src] \in DOMAIN disk BY <1>1, <1>3 DEF FilesInv, FileInv
  <2>3. ASSUME NEW p \in DOMAIN link PROVE FileInv(p)'
    <3>1. FileInv(p) /\ link'[p] = link[p] BY <1>1, <1>5 DEF FilesInv
    <3>2. ASSUME NEW m \in DOMAIN tasks, IsTmp(p, m)
          PROVE  /\ link'[p] = m /\ m \notin inPlace
                 /\ \A q \in DOMAIN link' : link'[q] = m => q = p
                 /\ tasks'[m].pc = "rename" => disk[m] = <<m>>
      <4>1. /\ link[p] = m /\ m \notin inPlace
            /\ \A q \in DOMAIN link : link[q] = m => q = p
            /\ tasks[m].pc = "rename" => disk[m] = <<m>>
        BY <3>1, <3>2 DEF FileInv
      <4>2. src # p BY <3>2, <1>1, <1>3, Names, Numbered DEF IsTmp
      <4>3. link[src] # m BY <4>1, <4>2, <1>3
      <4> QED BY <4>1, <4>3, <3>1, <1>5, <2>1
    <3>3. p \in Paths => \A m \in DOMAIN tasks : (p[3] = <<m, 1>> /\ tasks'[m].op = "put") => link'[p] = m
      BY <3>1, <2>1 DEF FileInv
    <3> QED BY <3>1, <3>2, <3>3, <2>1 DEF FileInv, IsTmp
  <2>4. FileInv(path)'
    <3>1. \A m \in DOMAIN tasks : ~IsTmp(path, m) BY <1>1, <1>3, Names, Numbered DEF IsTmp
    <3>2. \A m \in DOMAIN tasks : path[3] = <<m, 1>> => m = n
      BY <1>4, NullAssumption, <1>1, Numbered
    <3>3. path[3] # Null => path[3][1] \in DOMAIN tasks BY <1>1, <1>4
    <3>4. link[src] \notin inPlace => disk[link[src]] = <<link[src]>>
      BY <2>2, <1>3 DEF FileInv
    <3>5. tasks'[n].op # "put" BY <2>1, <1>1
    <3> QED BY <3>1, <3>2, <3>3, <3>4, <3>5, <2>1, <2>2, <1>3, <1>5 DEF FileInv, IsTmp
  <2>5. \A p \in DOMAIN link' : FileInv(p)' BY <1>5, <2>3, <2>4
  <2> QED BY <2>5, <2>1, <1>1 DEF FilesInv
<1>9. VersionsInv' BY <1>1, VersionsStay
<1>10. CleanupInv' BY <1>1, CleanupStays
<1>11. DeletionInv' BY <1>1, DeletionStays
<1>12. DurableInv'
  <2>1. tasks'[n].op # "put" BY <1>1 DEF Moves
  <2> QED BY <2>1, <1>1, <1>5, DurableStays
<1>13. ReadsInv' BY <1>1, ReadsStay
<1> QED BY <1>6, <1>7, <1>8, <1>9, <1>10, <1>11, <1>12, <1>13 DEF IInv

\* New bytes in a file that has been, or now is, written over.
LEMMA Overwrite ==
    ASSUME IInv, NEW n, Moves(n), tasks' \in Seq(TaskRecords), TaskInv(n)', tasks[n].op = "copy",
           tasks'[n].pc \in {"copyFill", "commit"}, NEW i \in inPlace', NEW c \in Contents,
           disk' = [disk EXCEPT ![i] = c], inPlace' = inPlace \cup {i},
           i \in DOMAIN disk, i \in inPlace \/ \E p \in Paths : p \in DOMAIN link /\ link[p] = i,
           UNCHANGED <<versioning, objects, link, dirs, known, contended, torn, everEnabled>>
    PROVE  IInv'
<1>1. /\ TypeInv /\ TasksInv /\ VersionsInv /\ FilesInv /\ CleanupInv /\ DeletionInv /\ DurableInv /\ ReadsInv
  BY DEF IInv
<1>2. disk \in [DOMAIN disk -> Contents] BY <1>1 DEF TypeInv, TypeOK
<1>3. /\ DOMAIN disk' = DOMAIN disk /\ disk' \in [DOMAIN disk' -> Contents]
      /\ \A j \in DOMAIN disk : j # i => disk'[j] = disk[j]
  BY <1>2
<1>4. TypeInv' BY <1>1, <1>3 DEF TypeInv, TypeOK, Moves
<1>5. TasksInv' BY <1>1, <1>3, TasksStay
<1>6. FilesInv'
  <2>1. DOMAIN tasks' = DOMAIN tasks /\ \A m \in DOMAIN tasks : tasks'[m].op = tasks[m].op /\ (m = n \/ tasks'[m] = tasks[m])
    BY DEF Moves
  <2>2. ASSUME NEW p \in DOMAIN link PROVE FileInv(p)'
    <3>1. FileInv(p) BY <1>1 DEF FilesInv
    <3>2. ASSUME NEW m \in DOMAIN tasks, IsTmp(p, m)
          PROVE  /\ link[p] = m /\ m \notin inPlace'
                 /\ \A q \in DOMAIN link : link[q] = m => q = p
                 /\ tasks'[m].pc = "rename" => disk'[m] = <<m>>
      <4>1. /\ link[p] = m /\ m \notin inPlace /\ m \in DOMAIN disk
            /\ \A q \in DOMAIN link : link[q] = m => q = p
            /\ tasks[m].pc = "rename" => disk[m] = <<m>>
        BY <3>1, <3>2 DEF FileInv
      <4>2. p \notin Paths BY <3>2, <1>1, Names, Numbered DEF IsTmp
      <4>3. m # i BY <4>1, <4>2
      <4>4. tasks'[m].pc = "rename" => tasks[m].pc = "rename" BY <2>1
      <4> QED BY <4>1, <4>3, <4>4, <1>3
    <3>3. p \in Paths => /\ \A m \in DOMAIN tasks : (p[3] = <<m, 1>> /\ tasks'[m].op = "put") => link[p] = m
                         /\ link[p] \notin inPlace' => disk'[link[p]] = <<link[p]>>
      BY <3>1, <2>1, <1>3 DEF FileInv
    <3> QED BY <3>1, <3>2, <3>3, <2>1, <1>3 DEF FileInv, IsTmp
  <2> QED BY <2>2, <2>1, <1>1, <1>3 DEF FilesInv
<1>7. VersionsInv' BY <1>1, VersionsStay
<1>8. CleanupInv' BY <1>1, CleanupStays
<1>9. DeletionInv' BY <1>1, DeletionStays
<1>10. DurableInv'
  <2>1. tasks'[n].op # "put" BY <1>1 DEF Moves
  <2> QED BY <2>1, <1>1, DurableStays
<1>11. ReadsInv' BY <1>1, ReadsStay
<1> QED BY <1>4, <1>5, <1>6, <1>7, <1>8, <1>9, <1>10, <1>11 DEF IInv

LEMMA CopyLinkKeeps ==
    ASSUME IInv, NEW n, CopyLink(n)
    PROVE  IInv'
<1>1. /\ n \in InFlight /\ n \in DOMAIN tasks /\ tasks[n] \in CopyTasks /\ TypeInv /\ TaskInv(n)
      /\ tasks[n].pc = "copyLink" /\ tasks[n].op = "copy" /\ tasks[n].path \in Paths
  BY Busy, Kinds DEF CopyLink, CopyTasks
<1>2. UNCHANGED <<versioning, objects, dirs, known, everEnabled, contended, torn>>
  BY DEF CopyLink, meta
<1>3. contended' \subseteq Buckets \X Keys BY <1>1, <1>2 DEF TypeInv, TypeOK
<1> DEFINE t == tasks[n]
<1>4. ASSUME Goto(n, "commit")
      PROVE  /\ Moves(n) /\ tasks' \in Seq(TaskRecords) /\ TaskInv(n)' /\ tasks'[n].pc = "commit"
  <2>1. Moves(n) /\ tasks' \in Seq(TaskRecords) /\ tasks'[n] = [tasks[n] EXCEPT !.pc = "commit"]
    BY <1>1, <1>2, <1>4, Going DEF CopyPcs
  <2>2. TaskInv(n)' BY <2>1, <1>1, CopyGoes DEF CopyPcs
  <2>3. tasks'[n].pc = "commit" BY <2>1, <1>1 DEF CopyTasks
  <2> QED BY <2>1, <2>2, <2>3
<1>5. CASE t.srcPath = t.path
  <2>1. Goto(n, "commit") /\ UNCHANGED <<link, disk, inPlace>> BY <1>5 DEF CopyLink
  <2>2. Moves(n) /\ tasks' \in Seq(TaskRecords) /\ TaskInv(n)' /\ tasks'[n].pc = "commit"
    BY <2>1, <1>4
  <2>3. tasks'[n].op = "copy" BY <2>2, <1>1 DEF Moves
  <2>4. Aside(n) BY <2>1, <2>2, <2>3, <1>1, <1>2, <1>3, FilesTyped DEF Aside
  <2> QED BY <2>2, <2>4, <1>1, AsideIs
<1>6. CASE t.srcPath # t.path /\ (~Linked(t.srcPath) \/ Dir(t.path) \notin dirs)
  <2>1. Finish(n) /\ UNCHANGED <<link, disk, inPlace>> BY <1>6 DEF CopyLink
  <2> QED BY <2>1, <1>1, <1>2, FilesTyped, Stops
<1>7. CASE t.srcPath # t.path /\ Linked(t.srcPath) /\ Dir(t.path) \in dirs /\ ~Linked(t.path)
  <2>1. link' = With(link, t.path, link[t.srcPath]) /\ Goto(n, "commit") /\ UNCHANGED <<disk, inPlace>>
    BY <1>7 DEF CopyLink
  <2>2. Moves(n) /\ tasks' \in Seq(TaskRecords) /\ TaskInv(n)' /\ tasks'[n].pc = "commit"
    BY <2>1, <1>4
  <2> QED BY <2>1, <2>2, <1>1, <1>2, <1>7, HardLink
<1>8. CASE t.srcPath # t.path /\ Linked(t.srcPath) /\ Dir(t.path) \in dirs /\ Linked(t.path)
  <2>1. PICK from, to : from = link[t.srcPath] /\ to = link[t.path] OBVIOUS
  <2>2. /\ disk' = [disk EXCEPT ![to] = <<>>] /\ inPlace' = inPlace \cup {to} /\ UNCHANGED link
        /\ tasks' = [tasks EXCEPT ![n].pc = "copyFill", ![n].from = from, ![n].to = to]
    BY <2>1, <1>8 DEF CopyLink
  <2>3. from \in DOMAIN disk /\ to \in DOMAIN disk /\ DOMAIN disk \subseteq DOMAIN tasks
    <3>1. FilesInv BY DEF IInv
    <3> QED BY <3>1, <2>1, <1>8 DEF FilesInv, FileInv, Linked
  <2>4. from \in Nat /\ to \in Nat BY <2>3, <1>1, Numbered
  <2> DEFINE u == [t EXCEPT !.pc = "copyFill", !.from = from, !.to = to]
  <2>5. tasks' = [tasks EXCEPT ![n] = u] BY <2>2, <1>1 DEF TypeInv
  <2>6. /\ u \in CopyTasks /\ u.pc = "copyFill" /\ u.op = "copy" /\ u.touches = t.touches /\ u.b = t.b /\ u.k = t.k
        /\ u.vid = t.vid /\ u.path = t.path /\ u.srcPath = t.srcPath /\ u.data = t.data /\ u.size = t.size
        /\ u.from = from /\ u.to = to
    BY <2>4, <1>1 DEF CopyTasks, CopyPcs
  <2> HIDE DEF u
  <2>7. Moves(n) /\ tasks' \in Seq(TaskRecords) /\ tasks'[n] = u
    BY <1>1, <1>2, <2>5, <2>6, MovesTo DEF TaskRecords, BucketPcs
  <2>8. CopyInv(n) /\ t.data.file = t.path /\ t.size > Threshold
    BY <1>1 DEF TaskInv, Copying, CopyPcs, CopyInv
  <2>9. DOMAIN disk' = DOMAIN disk BY <2>2
  <2>10. CopyInv(n)'
    <3>1. u.from \in DOMAIN disk' /\ u.to \in inPlace' BY <2>2, <2>3, <2>6, <2>9
    <3>2. u.data.file = u.path /\ u.size > Threshold BY <2>6, <2>8
    <3>3. /\ u.touches = {KeyOf(u.srcPath), <<u.b, u.k>>}
          /\ u.vid \in {Null, <<n, 1>>} /\ u.path = <<u.b, u.k, u.vid>>
      BY <2>6, <2>8 DEF CopyInv
    <3> QED BY <3>1, <3>2, <3>3, <2>6, <2>7 DEF CopyInv
  <2>11. TaskInv(n)' BY <2>6, <2>7, <2>10 DEF TaskInv, Putting, BucketPcs
  <2>12. \E p \in Paths : p \in DOMAIN link /\ link[p] = to BY <2>1, <1>1, <1>8 DEF Linked
  <2>13. to \in inPlace' /\ <<>> \in Contents /\ tasks'[n].pc = "copyFill"
    BY <2>2, <2>6, <2>7 DEF Contents
  <2> QED BY <2>2, <2>3, <2>7, <2>11, <2>12, <2>13, <1>1, <1>2, Overwrite
<1> QED BY <1>5, <1>6, <1>7, <1>8

LEMMA CopyFillKeeps ==
    ASSUME IInv, NEW n, CopyFill(n)
    PROVE  IInv'
<1>1. /\ n \in InFlight /\ n \in DOMAIN tasks /\ tasks[n] \in CopyTasks /\ TypeInv /\ TaskInv(n)
      /\ tasks[n].pc = "copyFill" /\ tasks[n].op = "copy"
  BY Busy, Kinds DEF CopyFill, CopyTasks
<1>2. /\ UNCHANGED <<versioning, objects, link, dirs, known, inPlace, everEnabled, contended, torn>>
      /\ disk' = [disk EXCEPT ![tasks[n].to] = disk[tasks[n].from]] /\ Goto(n, "commit")
  BY DEF CopyFill, meta, history
<1>3. tasks[n].from \in DOMAIN disk /\ tasks[n].to \in inPlace /\ inPlace \subseteq DOMAIN disk
  BY <1>1 DEF TaskInv, Copying, CopyPcs, CopyInv, TypeInv, TypeOK
<1>4. disk[tasks[n].from] \in Contents BY <1>1, <1>3 DEF TypeInv, TypeOK
<1>5. Moves(n) /\ tasks' \in Seq(TaskRecords) /\ tasks'[n] = [tasks[n] EXCEPT !.pc = "commit"]
  BY <1>1, <1>2, Going DEF CopyPcs
<1>6. TaskInv(n)' BY <1>5, <1>1, CopyGoes DEF CopyPcs
<1>7. tasks'[n].pc = "commit" BY <1>5, <1>1 DEF CopyTasks
<1>8. inPlace' = inPlace \cup {tasks[n].to} /\ tasks[n].to \in inPlace' BY <1>2, <1>3
<1>9. PICK i \in inPlace', c \in Contents : i = tasks[n].to /\ c = disk[tasks[n].from]
  BY <1>4, <1>8
<1> QED BY <1>1, <1>2, <1>3, <1>5, <1>6, <1>7, <1>8, <1>9, Overwrite

-----------------------------------------------------------------------------
(* Removing files *)

\* Some files are gone, none of them a put's.
LEMMA FilesGone ==
    ASSUME IInv, NEW n, Moves(n), tasks' \in Seq(TaskRecords), TaskInv(n)', tasks[n].op # "get",
           NEW S \in SUBSET DOMAIN link, link' = Restrict(link, S),
           tasks'[n].pc \notin {"rename", "commit"},
           tasks'[n].pc = "cleanup" => (tasks[n].pc = "cleanup" /\ tasks'[n].remove \subseteq tasks[n].remove),
           UNCHANGED <<versioning, objects, disk, known, contended, torn, inPlace, everEnabled>>,
           dirs' \subseteq dirs, DurableInv'
    PROVE  IInv'
<1>1. /\ TypeInv /\ TasksInv /\ VersionsInv /\ FilesInv /\ CleanupInv /\ DeletionInv /\ DurableInv /\ ReadsInv
  BY DEF IInv
<1>2. DOMAIN link' = S /\ \A p \in S : link'[p] = link[p] /\ p \in DOMAIN link
  BY DEF Restrict
<1>3. TypeInv'
  <2>1. /\ contended' \subseteq Buckets \X Keys /\ dirs' \subseteq Buckets \X (Keys \cup Nat)
        /\ known' \subseteq Buckets \X (Keys \cup Nat)
    BY <1>1 DEF TypeInv, TypeOK
  <2>2. \A p \in DOMAIN link' : link'[p] \in DOMAIN disk /\ p[1] \in Buckets
    BY <1>1, <1>2 DEF TypeInv, TypeOK
  <2> QED BY <2>1, <2>2, <1>1, TypesStay
<1>4. TasksInv' BY <1>1, TasksStay
<1>5. FilesInv'
  <2>1. DOMAIN tasks' = DOMAIN tasks
        /\ \A m \in DOMAIN tasks : tasks'[m].op = tasks[m].op /\ (tasks'[m].pc = "rename" => tasks[m].pc = "rename")
    BY DEF Moves
  <2>2. ASSUME NEW p \in S PROVE FileInv(p)'
    <3>1. FileInv(p) BY <1>1, <1>2 DEF FilesInv
    <3>2. ASSUME NEW m \in DOMAIN tasks, IsTmp(p, m)
          PROVE  /\ link'[p] = m /\ m \notin inPlace
                 /\ \A q \in DOMAIN link' : link'[q] = m => q = p
                 /\ tasks'[m].pc = "rename" => disk[m] = <<m>>
      BY <3>1, <3>2, <1>2, <2>1 DEF FileInv
    <3>3. p \in Paths => \A m \in DOMAIN tasks : (p[3] = <<m, 1>> /\ tasks'[m].op = "put") => link'[p] = m
      BY <3>1, <1>2, <2>1 DEF FileInv
    <3> QED BY <3>1, <3>2, <3>3, <1>2, <2>1 DEF FileInv, IsTmp
  <2> QED BY <2>2, <2>1, <1>1, <1>2 DEF FilesInv
<1>6. VersionsInv' BY <1>1, VersionsStay
<1>7. CleanupInv' BY <1>1, CleanupStays
<1>8. DeletionInv' BY <1>1, DeletionStays
<1>9. ReadsInv' BY <1>1, ReadsStay
<1> QED BY <1>3, <1>4, <1>5, <1>6, <1>7, <1>8, <1>9 DEF IInv

\* Only files may go that no version of a put refers to, nor will when it commits.
LEMMA DurableWithout ==
    ASSUME TypeInv, TasksInv, VersionsInv, DurableInv, NEW n, Moves(n), objects' = objects, tasks'[n].pc # "commit",
           \A p \in Paths : p \in DOMAIN link \ DOMAIN link' =>
               \/ p[3] = Null
               \/ <<p[1], p[2]>> \in torn
               \/ /\ \A v \in Versions(p[1], p[2]) : v.data.file # p
                  /\ \A m \in DOMAIN tasks : Putting(m) => tasks[m].path # p
    PROVE  DurableInv'
<1>1. DOMAIN tasks' = DOMAIN tasks /\ torn' = torn
      /\ \A m \in DOMAIN tasks : tasks'[m].op = tasks[m].op /\ (m = n \/ tasks'[m] = tasks[m])
  BY DEF Moves
<1>2. ASSUME NEW b \in Buckets, NEW k \in Keys, <<b, k>> \notin torn, NEW v \in Versions(b, k), v.vid # Null,
             ~v.marker, tasks'[v.vid[1]].op = "put", v.data.file # None
      PROVE  v.data.file \in DOMAIN link'
  <2>1. v.vid[1] \in DOMAIN tasks /\ v.data.file = <<b, k, v.vid>>
    BY <1>2 DEF VersionsInv, VersionInv, Versions
  <2>2. v.data.file \in Paths BY <1>2, VersionTypes DEF VersionRecords, DataRecords
  <2>3. v.data.file \in DOMAIN link BY <2>1, <1>2, <1>1 DEF DurableInv, Linked
  <2>4. v.data.file[1] = b /\ v.data.file[2] = k /\ v.data.file[3] = v.vid BY <2>1
  <2> QED BY <2>2, <2>3, <2>4, <1>2
<1>3. ASSUME NEW m \in DOMAIN tasks, tasks'[m].op = "put", tasks'[m].pc = "commit", tasks'[m].data.file # None,
             tasks'[m].vid # Null, <<tasks'[m].b, tasks'[m].k>> \notin torn
      PROVE  tasks'[m].path \in DOMAIN link'
  <2> DEFINE t == tasks[m]
  <2>1. tasks'[m] = t /\ Putting(m) BY <1>1, <1>3 DEF Putting, PutPcs
  <2>2. t.path = <<t.b, t.k, t.vid>> /\ t.path \in Paths
    BY <2>1, <1>3, Numbered, Writers DEF TasksInv, TaskInv, PutInv, PutTasks
  <2>3. t.path \in DOMAIN link BY <2>1, <1>3 DEF DurableInv, Linked
  <2>4. t.path[1] = t.b /\ t.path[2] = t.k /\ t.path[3] = t.vid BY <2>2
  <2> QED BY <2>1, <2>2, <2>3, <2>4, <1>3
<1> QED BY <1>1, <1>2, <1>3 DEF DurableInv, Versions, Linked

LEMMA RemoveFileKeeps ==
    ASSUME IInv, NEW n, NEW path, RemoveFile(n, path)
    PROVE  IInv'
<1>1. /\ n \in InFlight /\ n \in DOMAIN tasks /\ tasks[n] \in CleanupTasks /\ TaskInv(n)
      /\ tasks[n].pc = "cleanup" /\ path \in tasks[n].remove
  BY Busy, Kinds DEF RemoveFile
<1>2. /\ TypeInv /\ TasksInv /\ VersionsInv /\ CleanupInv /\ DurableInv BY DEF IInv
<1>3. /\ UNCHANGED <<versioning, objects, disk, dirs, known, inPlace, everEnabled, contended, torn>>
      /\ link' = Restrict(link, DOMAIN link \ {path})
  BY DEF RemoveFile, Unlink, meta, history
<1>4. /\ Moves(n) /\ tasks' \in Seq(TaskRecords) /\ TaskInv(n)' /\ tasks'[n].pc \in {"cleanup", "done"}
      /\ tasks'[n].pc = "cleanup" => tasks'[n].remove \subseteq tasks[n].remove
  <2>1. CASE tasks[n].remove = {path}
    <3>1. Finish(n) BY <2>1 DEF RemoveFile
    <3>2. Moves(n) /\ tasks' \in Seq(TaskRecords) /\ TaskInv(n)' /\ tasks'[n] = Done(tasks[n].op)
      BY <3>1, <1>1, <1>2, <1>3, Finished
    <3> QED BY <3>2 DEF Done
  <2>2. CASE tasks[n].remove # {path}
    <3> DEFINE u == [tasks[n] EXCEPT !.remove = tasks[n].remove \ {path}]
    <3>1. tasks' = [tasks EXCEPT ![n] = u] BY <2>2, <1>1 DEF RemoveFile
    <3>2. /\ u \in CleanupTasks /\ u.op = tasks[n].op /\ u.touches = tasks[n].touches /\ u.pc = "cleanup"
          /\ u.remove = tasks[n].remove \ {path}
      BY <1>1 DEF CleanupTasks
    <3> HIDE DEF u
    <3>3. Moves(n) /\ tasks' \in Seq(TaskRecords) /\ tasks'[n] = u
      BY <3>1, <3>2, <1>1, <1>2, <1>3, MovesTo DEF TaskRecords, BucketPcs
    <3>4. \A p \in u.remove : KeyOf(p) \in u.touches BY <3>2, <1>1 DEF TaskInv
    <3>5. TaskInv(n)'
      BY <3>2, <3>3, <3>4 DEF TaskInv, Putting, Copying, PutPcs, CopyPcs, BucketPcs
    <3> QED BY <3>2, <3>3, <3>5
  <2> QED BY <2>1, <2>2
<1>5. tasks[n].op # "get" BY <1>1 DEF CleanupTasks
<1>6. DurableInv'
  <2>1. DOMAIN link' = DOMAIN link \ {path} BY <1>3 DEF Restrict
  <2>2. ASSUME path[3] # Null
        PROVE  /\ \A v \in Versions(path[1], path[2]) : v.data.file # path
               /\ \A m \in DOMAIN tasks : Putting(m) => tasks[m].path # path
    <3>1. /\ path[3][1] \in DOMAIN tasks /\ Past(path[3][1])
          /\ \A v \in Versions(path[1], path[2]) : v.data.file # path
      BY <2>2, <1>1, <1>2 DEF CleanupInv
    <3>2. ASSUME NEW m \in DOMAIN tasks, Putting(m), tasks[m].path = path PROVE FALSE
      <4>1. path = <<tasks[m].b, tasks[m].k, tasks[m].vid>> /\ tasks[m].vid \in {Null, <<m, 1>>}
        BY <3>2, <1>2 DEF TasksInv, TaskInv, PutInv
      <4>2. path[3][1] = m BY <4>1, <2>2
      <4>3. ~Past(m) BY <3>2 DEF Past, Putting, PutPcs
      <4> QED BY <4>2, <4>3, <3>1
    <3> QED BY <3>1, <3>2
  <2>3. \A p \in Paths : p \in DOMAIN link \ DOMAIN link' =>
               \/ p[3] = Null
               \/ <<p[1], p[2]>> \in torn
               \/ /\ \A v \in Versions(p[1], p[2]) : v.data.file # p
                  /\ \A m \in DOMAIN tasks : Putting(m) => tasks[m].path # p
    BY <2>1, <2>2
  <2> QED BY <2>3, <1>2, <1>3, <1>4, DurableWithout
<1> QED BY <1>1, <1>3, <1>4, <1>5, <1>6, FilesGone

LEMMA RemoveBucketDirKeeps ==
    ASSUME IInv, NEW n, RemoveBucketDir(n)
    PROVE  IInv'
<1>1. /\ n \in InFlight /\ n \in DOMAIN tasks /\ tasks[n] \in BucketTasks /\ TaskInv(n)
      /\ tasks[n].pc = "removeDir" /\ tasks[n].op # "get" /\ tasks[n].b \in Buckets
  BY Busy, Kinds DEF RemoveBucketDir, BucketPcs, BucketTasks
<1>2. /\ TypeInv /\ TasksInv /\ VersionsInv /\ DeletionInv /\ DurableInv BY DEF IInv
<1> DEFINE b == tasks[n].b
           S == {p \in DOMAIN link : p[1] # b}
<1>3. /\ UNCHANGED <<versioning, objects, disk, known, inPlace, everEnabled, contended, torn>>
      /\ link' = Restrict(link, S) /\ dirs' \subseteq dirs
  BY DEF RemoveBucketDir, meta, history
<1>4. Moves(n) /\ tasks' \in Seq(TaskRecords) /\ TaskInv(n)' /\ tasks'[n].pc \in {"forgetDirs", "done"}
  <2>1. CASE Finish(n)
    <3>1. Moves(n) /\ tasks' \in Seq(TaskRecords) /\ TaskInv(n)' /\ tasks'[n] = Done(tasks[n].op)
      BY <2>1, <1>1, <1>2, <1>3, Finished
    <3> QED BY <3>1 DEF Done
  <2>2. CASE Goto(n, "forgetDirs")
    <3>1. Moves(n) /\ tasks' \in Seq(TaskRecords) /\ tasks'[n] = [tasks[n] EXCEPT !.pc = "forgetDirs"]
      BY <2>2, <1>1, <1>2, <1>3, Going DEF BucketPcs
    <3>2. tasks'[n].pc = "forgetDirs" /\ tasks'[n].touches = tasks[n].touches /\ tasks'[n].b = tasks[n].b
      BY <3>1, <1>1 DEF BucketTasks
    <3>3. TaskInv(n)'
      BY <3>2, <1>1 DEF TaskInv, Putting, Copying, PutPcs, CopyPcs, BucketPcs
    <3> QED BY <3>1, <3>2, <3>3
  <2> QED BY <2>1, <2>2 DEF RemoveBucketDir
<1>5. DurableInv'
  <2>1. DOMAIN link' = S BY <1>3 DEF Restrict
  <2>2. ASSUME NEW p \in Paths, p \in DOMAIN link \ DOMAIN link', <<p[1], p[2]>> \notin torn
        PROVE  /\ \A v \in Versions(p[1], p[2]) : v.data.file # p
               /\ \A m \in DOMAIN tasks : Putting(m) => tasks[m].path # p
    <3>1. p[1] = b /\ p[2] \in Keys /\ <<b, p[2]>> \in {b} \X Keys BY <2>1, <2>2, Names
    <3>2. /\ \A k \in Keys : objects[b][k] = <<>>
          /\ \A m \in InFlight \ {n} : tasks[m].touches \cap ({b} \X Keys) = {}
      BY <3>1, <2>2, <1>1, <1>2 DEF DeletionInv, BucketPcs
    <3>3. Versions(p[1], p[2]) = {} BY <3>1, <3>2 DEF Versions
    <3>4. ASSUME NEW m \in DOMAIN tasks, Putting(m), tasks[m].path = p PROVE FALSE
      <4>1. m \in InFlight \ {n} BY <3>4, <1>1 DEF Putting, PutPcs, InFlight
      <4>2. tasks[m].touches = {<<tasks[m].b, tasks[m].k>>} /\ p = <<tasks[m].b, tasks[m].k, tasks[m].vid>>
        BY <3>4, <1>2 DEF TasksInv, TaskInv, PutInv
      <4>3. <<b, p[2]>> \in tasks[m].touches BY <3>1, <4>2
      <4> QED BY <4>1, <4>3, <3>1, <3>2
    <3> QED BY <3>3, <3>4
  <2> QED BY <2>2, <1>2, <1>3, <1>4, DurableWithout
<1>6. S \in SUBSET DOMAIN link OBVIOUS
<1> QED BY <1>1, <1>3, <1>4, <1>5, <1>6, FilesGone

-----------------------------------------------------------------------------
(* Recording versions *)

LEMMA RecordsKeeps ==
    ASSUME IInv, NEW n, Records(n), TaskInv(n)'
    PROVE  IInv'
<1>1. /\ TypeInv /\ TasksInv /\ VersionsInv /\ FilesInv /\ CleanupInv /\ DeletionInv /\ DurableInv /\ ReadsInv
      /\ Moves(n) /\ UNCHANGED <<link, disk, dirs, known, contended, torn, inPlace, everEnabled>>
  BY DEF IInv, Records
<1>2. /\ DOMAIN tasks' = DOMAIN tasks /\ n \in DOMAIN tasks
      /\ \A m \in DOMAIN tasks : tasks'[m].op = tasks[m].op /\ (m = n \/ tasks'[m] = tasks[m])
      /\ \A m \in DOMAIN tasks : Past(m) => Past(m)'
  BY <1>1 DEF Moves, Past, InFlight
<1>3. TypeInv' BY <1>1 DEF TypeInv, TypeOK, Moves, Records
<1>4. TasksInv' BY <1>1, TasksStay
<1>5. FilesInv' BY <1>1, FilesStay DEF Records
<1>6. ReadsInv' BY <1>1, ReadsStay DEF Records
<1>7. DeletionInv' BY <1>1, DeletionStays DEF Records
<1>8. ASSUME NEW b \in Buckets, NEW k \in Keys, NEW v \in Versions(b, k)'
      PROVE  v \in Versions(b, k) \/ (New(n, b, k, v) /\ VersionInv(b, k, v)')
  BY DEF Records
<1>9. VersionsInv'
  <2>1. ASSUME NEW b \in Buckets, NEW k \in Keys, NEW v \in Versions(b, k)'
        PROVE  VersionInv(b, k, v)'
    <3>1. CASE v \in Versions(b, k)
      <4>1. VersionInv(b, k, v) BY <3>1, <1>1 DEF Versions, VersionsInv
      <4> QED BY <4>1, <1>1, VersionStays
    <3> QED BY <3>1, <1>8
  <2>2. \A b \in Buckets, k \in Keys : \A i, j \in DOMAIN objects'[b][k] : objects'[b][k][i].vid = objects'[b][k][j].vid => i = j
    BY DEF Records
  <2>3. ASSUME NEW b \in Buckets, NEW k \in Keys
        PROVE  (\A i \in DOMAIN objects[b][k] : VersionInv(b, k, objects[b][k][i]))'
    <3>1. \A i \in DOMAIN objects'[b][k] : objects'[b][k][i] \in Versions(b, k)'
      BY DEF Versions
    <3>2. \A v \in Versions(b, k)' : VersionInv(b, k, v)' BY <2>1
    <3> QED BY <3>1, <3>2 DEF VersionInv
  <2> QED BY <2>2, <2>3 DEF VersionsInv
<1>10. CleanupInv'
  <2> SUFFICES ASSUME NEW m \in DOMAIN tasks, tasks'[m].pc = "cleanup", NEW p \in tasks'[m].remove, p[3] # Null
               PROVE  /\ p[3][1] \in DOMAIN tasks /\ Past(p[3][1])'
                      /\ \A v \in Versions(p[1], p[2])' : v.data.file # p
    BY <1>2 DEF CleanupInv
  <2>1. CASE m = n BY <2>1 DEF Records
  <2>2. CASE m # n
    <3>1. tasks'[m] = tasks[m] BY <2>2, <1>2
    <3>2. p[3][1] \in DOMAIN tasks /\ Past(p[3][1]) /\ \A v \in Versions(p[1], p[2]) : v.data.file # p
      BY <3>1, <1>1 DEF CleanupInv
    <3>3. p[1] \in Buckets /\ p[2] \in Keys
      <4>1. p \in Paths BY <3>1, <1>1, Numbered, Kinds DEF CleanupTasks
      <4> QED BY <4>1, Names
    <3>4. ASSUME NEW v \in Versions(p[1], p[2])', v.data.file = p PROVE FALSE
      <4>1. New(n, p[1], p[2], v) /\ VersionInv(p[1], p[2], v)' BY <3>2, <3>3, <3>4, <1>8
      <4>2. p \in {None, <<p[1], p[2], v.vid>>} /\ p # None
        <5>1. p \in Paths BY <3>1, <1>1, Numbered, Kinds DEF CleanupTasks
        <5> QED BY <5>1, <4>1, <3>4, NoneAssumption DEF VersionInv
      <4>3. p[3] = v.vid BY <4>2
      <4> QED BY <4>1, <4>3, <3>2 DEF New
    <3>5. Past(p[3][1])' BY <3>2, <1>2
    <3> QED BY <3>2, <3>4, <3>5
  <2> QED BY <2>1, <2>2
<1>11. DurableInv'
  <2>1. ASSUME NEW b \in Buckets, NEW k \in Keys, <<b, k>> \notin torn, NEW v \in Versions(b, k)',
               v.vid # Null, ~v.marker, tasks'[v.vid[1]].op = "put", v.data.file # None
        PROVE  v.data.file \in DOMAIN link
    <3>1. CASE v \in Versions(b, k)
      <4>1. v.vid[1] \in DOMAIN tasks
        BY <2>1, <3>1, <1>1 DEF VersionsInv, VersionInv, Versions
      <4>2. tasks[v.vid[1]].op = "put" BY <4>1, <2>1, <1>2
      <4> QED BY <4>2, <3>1, <2>1, <1>1 DEF DurableInv, Linked
    <3>2. CASE New(n, b, k, v) BY <3>2, <2>1, <1>2 DEF New, Linked
    <3> QED BY <3>1, <3>2, <1>8
  <2>2. ASSUME NEW m \in DOMAIN tasks, tasks'[m].op = "put", tasks'[m].pc = "commit", tasks'[m].data.file # None,
               tasks'[m].vid # Null, <<tasks'[m].b, tasks'[m].k>> \notin torn
        PROVE  tasks'[m].path \in DOMAIN link
    <3>1. m # n /\ tasks'[m] = tasks[m] BY <2>2, <1>2 DEF Records
    <3> QED BY <3>1, <2>2, <1>1 DEF DurableInv, Linked
  <2> QED BY <2>1, <2>2, <1>1, <1>2 DEF DurableInv, Linked
<1> QED BY <1>3, <1>4, <1>5, <1>6, <1>7, <1>9, <1>10, <1>11 DEF IInv

\* What a handler does when it has files to remove, and when it has none.
LEMMA Removing ==
    ASSUME TypeInv, NEW n \in InFlight, tasks[n].op \in {"put", "copy", "delete"}, tasks[n].pc # "cleanup",
           NEW paths \in SUBSET Paths, ThenRemove(n, paths), torn' = torn,
           \A p \in paths : KeyOf(p) \in tasks[n].touches
    PROVE  /\ Moves(n) /\ tasks' \in Seq(TaskRecords) /\ TaskInv(n)' /\ Past(n)'
           /\ \/ tasks'[n].pc = "done"
              \/ tasks'[n].pc = "cleanup" /\ tasks'[n].remove = paths /\ tasks'[n].touches = tasks[n].touches
<1>1. n \in DOMAIN tasks /\ tasks[n] \in TaskRecords BY Numbered DEF InFlight
<1>2. CASE paths = {}
  <2>1. Finish(n) BY <1>2 DEF ThenRemove
  <2>2. Moves(n) /\ tasks' \in Seq(TaskRecords) /\ tasks'[n] = Done(tasks[n].op) /\ TaskInv(n)'
    BY <2>1, Finished
  <2> QED BY <2>2 DEF Done, Past
<1>3. CASE paths # {}
  <2> DEFINE u == [op |-> tasks[n].op, pc |-> "cleanup", touches |-> tasks[n].touches, remove |-> paths]
  <2>1. tasks' = [tasks EXCEPT ![n] = u] BY <1>3 DEF ThenRemove
  <2>2. u \in CleanupTasks BY <1>1, Kinds DEF CleanupTasks
  <2>3. u.op = tasks[n].op /\ u.pc = "cleanup" /\ u.touches = tasks[n].touches /\ u.remove = paths
    OBVIOUS
  <2> HIDE DEF u
  <2>4. Moves(n) /\ tasks' \in Seq(TaskRecords) /\ tasks'[n] = u
    BY <2>1, <2>2, <2>3, MovesTo DEF TaskRecords, BucketPcs
  <2>5. TaskInv(n)'
    BY <2>3, <2>4 DEF TaskInv, Putting, Copying, PutPcs, CopyPcs, BucketPcs
  <2> QED BY <2>3, <2>4, <2>5 DEF Past
<1> QED BY <1>2, <1>3

LEMMA Prepended ==
    ASSUME NEW S, NEW s \in Seq(S), NEW v \in S
    PROVE  /\ <<v>> \o s \in Seq(S) /\ <<v>> \in Seq(S)
           /\ DOMAIN (<<v>> \o s) = 1..(Len(s) + 1) /\ DOMAIN s = 1..Len(s) /\ Len(s) \in Nat
           /\ (<<v>> \o s)[1] = v
           /\ \A i \in 1..(Len(s) + 1) : i # 1 => (i - 1 \in 1..Len(s) /\ (<<v>> \o s)[i] = s[i - 1])
           /\ DOMAIN <<v>> = {1} /\ <<v>>[1] = v
OBVIOUS

\* The request that is about to commit knows what it has written.
LEMMA Written ==
    ASSUME IInv, NEW n \in InFlight, tasks[n] \in PutTasks \cup CopyTasks, tasks[n].pc = "commit"
    PROVE  LET t == tasks[n]
           IN  /\ t.b \in Buckets /\ t.k \in Keys /\ <<t.b, t.k>> \in t.touches /\ t.op \in {"put", "copy"}
               /\ t.vid \in {Null, <<n, 1>>} /\ t.path = <<t.b, t.k, t.vid>> /\ t.path \in Paths
               /\ t.data \in DataRecords /\ t.data.file \in {None, t.path}
               /\ VersionOf(t) \in VersionRecords
               /\ VersionOf(t).vid = t.vid /\ VersionOf(t).data = t.data /\ ~VersionOf(t).marker
               /\ VersionOf(t).etag = t.etag /\ VersionOf(t).size = t.size
               /\ t.op = "put" => (t.etag = <<n>> /\ (t.data.file = None => t.data.bytes = <<n>>))
<1> DEFINE t == tasks[n]
<1>1. /\ t.b \in Buckets /\ t.k \in Keys /\ t.op \in {"put", "copy"} /\ t.path \in Paths /\ t.data \in DataRecords
      /\ t.vid \in Vids /\ t.etag \in Contents /\ t.size \in Nat
  BY DEF PutTasks, CopyTasks
<1>2. TaskInv(n) /\ n \in DOMAIN tasks BY DEF IInv, TasksInv, InFlight
<1>3. /\ <<t.b, t.k>> \in t.touches /\ t.vid \in {Null, <<n, 1>>} /\ t.path = <<t.b, t.k, t.vid>>
      /\ t.data.file \in {None, t.path}
      /\ t.op = "put" => (t.etag = <<n>> /\ (t.data.file = None => t.data.bytes = <<n>>))
  <2>1. CASE t \in PutTasks
    <3>1. PutInv(n) /\ t.op = "put" BY <2>1, <1>2 DEF TaskInv, Putting, PutTasks
    <3>2. t.data = Inline(<<n>>) \/ t.data = FileRef(t.path) BY <3>1 DEF PutInv
    <3>3. t.path # None BY <1>1, NoneAssumption
    <3>4. t.data.file \in {None, t.path} /\ (t.data.file = None => t.data.bytes = <<n>>)
      BY <3>2, <3>3 DEF Inline, FileRef
    <3> QED BY <3>1, <3>4 DEF PutInv
  <2>2. CASE t \in CopyTasks
    <3>1. CopyInv(n) /\ t.op = "copy" BY <2>2, <1>2 DEF TaskInv, Copying, CopyTasks
    <3> QED BY <3>1 DEF CopyInv
  <2> QED BY <2>1, <2>2
<1>4. VersionOf(t) = [vid |-> t.vid, etag |-> t.etag, size |-> t.size, data |-> t.data, marker |-> FALSE]
  BY DEF VersionOf, ObjectVersion
<1>5. /\ VersionOf(t) \in VersionRecords /\ VersionOf(t).vid = t.vid /\ VersionOf(t).data = t.data
      /\ ~VersionOf(t).marker /\ VersionOf(t).etag = t.etag /\ VersionOf(t).size = t.size
  BY <1>1, <1>4 DEF VersionRecords
<1> QED BY <1>1, <1>3, <1>5

\* What a version names is its own.
LEMMA VersionFile ==
    ASSUME IInv, NEW b \in Buckets, NEW k \in Keys, NEW v \in Versions(b, k)
    PROVE  /\ v \in VersionRecords /\ v.data \in DataRecords /\ v # None /\ v.data # None /\ v.vid # None
           /\ VersionInv(b, k, v)
           /\ v.data.file # None =>
                 /\ v.data.file = <<b, k, v.vid>> /\ v.data.file \in Paths /\ KeyOf(v.data.file) = <<b, k>>
                 /\ v.data.file[3] # Null => (v.data.file[3][1] \in DOMAIN tasks /\ Past(v.data.file[3][1]))
           /\ v.vid # Null => (v.vid[1] \in DOMAIN tasks /\ Past(v.vid[1]))
<1>1. v \in VersionRecords /\ VersionInv(b, k, v)
  BY VersionTypes DEF IInv, VersionsInv, Versions
<1>2. v.data \in DataRecords /\ v.vid \in Vids /\ v.data.file \in Paths \cup {None}
  BY <1>1 DEF VersionRecords, DataRecords
<1>3. v.data.file # None => v.data.file = <<b, k, v.vid>> BY <1>1 DEF VersionInv
<1>4. v.vid # Null => (v.vid[1] \in DOMAIN tasks /\ Past(v.vid[1])) BY <1>1 DEF VersionInv
<1> QED BY <1>1, <1>2, <1>3, <1>4, NoneAssumption DEF KeyOf

LEMMA CommitKeeps ==
    ASSUME IInv, NEW n \in InFlight, tasks[n] \in PutTasks \cup CopyTasks, tasks[n].pc = "commit",
           objects' = [objects EXCEPT ![tasks[n].b][tasks[n].k] = PutObjectVersion(@, VersionOf(tasks[n]))],
           ThenRemove(n, Replaced(tasks[n])),
           UNCHANGED <<versioning, link, disk, dirs, known, contended, torn, inPlace, everEnabled>>
    PROVE  IInv'
<1>1. PICK t, v, b, k, s : t = tasks[n] /\ v = VersionOf(t) /\ b = t.b /\ k = t.k /\ s = objects[b][k]
  OBVIOUS
<1>2. /\ b \in Buckets /\ k \in Keys /\ <<b, k>> \in t.touches /\ t.op \in {"put", "copy"}
      /\ t.vid \in {Null, <<n, 1>>} /\ t.path = <<b, k, t.vid>> /\ t.path \in Paths
      /\ t.data \in DataRecords /\ t.data.file \in {None, t.path}
      /\ v \in VersionRecords /\ v.vid = t.vid /\ v.data = t.data /\ ~v.marker /\ v.etag = t.etag
      /\ t.op = "put" => (t.etag = <<n>> /\ (t.data.file = None => t.data.bytes = <<n>>))
  BY <1>1, Written
<1>3. /\ TypeInv /\ VersionsInv /\ DurableInv /\ n \in DOMAIN tasks /\ ~Past(n) /\ s \in Seq(VersionRecords)
      /\ objects \in [Buckets -> [Keys -> Seq(VersionRecords)]]
  BY <1>1, <1>2 DEF IInv, InFlight, Past, TypeInv, TypeOK
<1>4. \A i \in DOMAIN s : s[i] \in Versions(b, k) BY <1>1 DEF Versions
<1>5. PICK r : r = PutObjectVersion(s, v) OBVIOUS
<1>6. /\ objects' = [objects EXCEPT ![b][k] = r]
      /\ r = IF t.vid = Null THEN <<v>> ELSE <<v>> \o s
      /\ r \in Seq(VersionRecords)
  BY <1>1, <1>2, <1>3, <1>5, Prepended DEF PutObjectVersion
<1>7. /\ objects' \in [Buckets -> [Keys -> Seq(VersionRecords)]]
      /\ objects'[b][k] = r
      /\ \A b1 \in Buckets, k1 \in Keys : ~(b1 = b /\ k1 = k) => objects'[b1][k1] = objects[b1][k1]
  <2> DEFINE row == [objects[b] EXCEPT ![k] = r]
  <2>1. row \in [Keys -> Seq(VersionRecords)] /\ row[k] = r /\ \A k1 \in Keys : k1 # k => row[k1] = objects[b][k1]
    BY <1>2, <1>3, <1>6
  <2>2. objects' = [objects EXCEPT ![b] = row] BY <1>6
  <2> HIDE DEF row
  <2> QED BY <2>1, <2>2, <1>2, <1>3
<1>8. \A i \in DOMAIN r : r[i] = v \/ r[i] \in Versions(b, k)
  BY <1>2, <1>3, <1>4, <1>6, Prepended
<1>9. \A i, j \in DOMAIN r : r[i].vid = r[j].vid => i = j
  <2>1. CASE t.vid = Null BY <2>1, <1>2, <1>3, <1>6, Prepended
  <2>2. CASE t.vid # Null
    <3>1. \A i \in DOMAIN s : s[i].vid # v.vid
      <4>1. v.vid = <<n, 1>> /\ v.vid[1] = n BY <2>2, <1>2
      <4> QED BY <4>1, <2>2, <1>2, <1>3, <1>4, VersionFile
    <3>2. \A i, j \in DOMAIN s : s[i].vid = s[j].vid => i = j
      BY <1>1, <1>2, <1>3 DEF VersionsInv
    <3>3. /\ DOMAIN r = 1..(Len(s) + 1) /\ DOMAIN s = 1..Len(s) /\ Len(s) \in Nat /\ r[1] = v
          /\ \A i \in 1..(Len(s) + 1) : i # 1 => (i - 1 \in 1..Len(s) /\ r[i] = s[i - 1])
      BY <2>2, <1>2, <1>3, <1>6, Prepended
    <3>4. ASSUME NEW i \in DOMAIN r, NEW j \in DOMAIN r, r[i].vid = r[j].vid PROVE i = j
      <4>1. CASE i = 1 \/ j = 1 BY <4>1, <3>1, <3>3, <3>4
      <4>2. CASE i # 1 /\ j # 1
        <5>1. i - 1 \in DOMAIN s /\ j - 1 \in DOMAIN s /\ s[i - 1].vid = s[j - 1].vid
          BY <4>2, <3>3, <3>4
        <5>2. i - 1 = j - 1 BY <5>1, <3>2
        <5> QED BY <5>2, <3>3
      <4> QED BY <4>1, <4>2
    <3> QED BY <3>4
  <2> QED BY <2>1, <2>2
<1>10. Replaced(t) \in SUBSET Paths /\ \A p \in Replaced(t) :
          /\ p = <<b, k, p[3]>> /\ KeyOf(p) \in t.touches
          /\ p[3] # Null => (p[3][1] \in DOMAIN tasks /\ Past(p[3][1]))
          /\ p # t.data.file /\ t.vid = Null
  <2> SUFFICES ASSUME NEW p \in Replaced(t)
               PROVE  /\ p \in Paths /\ p = <<b, k, p[3]>> /\ KeyOf(p) \in t.touches
                      /\ p[3] # Null => (p[3][1] \in DOMAIN tasks /\ Past(p[3][1]))
                      /\ p # t.data.file /\ t.vid = Null
    OBVIOUS
  <2>1. /\ t.vid = Null /\ Previous(s) # None /\ Previous(s).file # None /\ p = Previous(s).file /\ p # t.data.file
    BY <1>1 DEF Replaced
  <2>2. s # <<>> /\ Previous(s) = s[1].data /\ 1 \in DOMAIN s BY <2>1, <1>3 DEF Previous
  <2>3. p = s[1].data.file /\ s[1] \in Versions(b, k) BY <2>1, <2>2, <1>4
  <2>4. /\ p = <<b, k, s[1].vid>> /\ p \in Paths /\ KeyOf(p) = <<b, k>>
        /\ p[3] # Null => (p[3][1] \in DOMAIN tasks /\ Past(p[3][1]))
    BY <2>1, <2>3, <1>2, VersionFile
  <2>5. p = <<b, k, p[3]>> BY <2>4
  <2> QED BY <2>1, <2>4, <2>5, <1>2
<1>11. /\ Moves(n) /\ tasks' \in Seq(TaskRecords) /\ TaskInv(n)' /\ Past(n)'
       /\ \/ tasks'[n].pc = "done"
          \/ tasks'[n].pc = "cleanup" /\ tasks'[n].remove = Replaced(t) /\ tasks'[n].touches = tasks[n].touches
  <2>1. /\ tasks[n].op \in {"put", "copy", "delete"} /\ tasks[n].pc # "cleanup" /\ ThenRemove(n, Replaced(t))
        /\ \A p \in Replaced(t) : KeyOf(p) \in tasks[n].touches
    BY <1>1, <1>2, <1>10
  <2>2. PICK paths \in SUBSET Paths : paths = Replaced(t) BY <1>10
  <2> QED BY <2>1, <2>2, <1>3, Removing
<1>12. VersionInv(b, k, v)'
  <2>1. v.data.file \in {None, <<b, k, v.vid>>} /\ ~v.marker BY <1>2
  <2>2. v.vid # Null => (v.vid[1] = n /\ v.vid[2] = 1 /\ n \in DOMAIN tasks' /\ tasks'[n].op = t.op)
    BY <1>1, <1>2, <1>3, <1>11 DEF Moves
  <2> QED BY <2>1, <2>2, <1>2, <1>11 DEF VersionInv
<1>13. New(n, b, k, v)
  <2>1. v.vid # Null => v.vid[1] = n BY <1>2
  <2>2. ASSUME v.vid # Null, tasks[n].op = "put", v.data.file # None, <<b, k>> \notin torn PROVE Linked(v.data.file)
    <3>1. tasks[n].data.file # None /\ tasks[n].vid # Null /\ <<tasks[n].b, tasks[n].k>> \notin torn
      BY <2>2, <1>1, <1>2
    <3>2. Linked(tasks[n].path) BY <3>1, <2>2, <1>3 DEF DurableInv
    <3> QED BY <3>2, <2>2, <1>1, <1>2
  <2> QED BY <2>1, <2>2, <1>1, <1>2, <1>3 DEF New
<1>14. ASSUME NEW b1 \in Buckets, NEW k1 \in Keys
       PROVE  /\ \A w \in Versions(b1, k1)' : w \in Versions(b1, k1) \/ (New(n, b1, k1, w) /\ VersionInv(b1, k1, w)')
              /\ \A i, j \in DOMAIN objects'[b1][k1] : objects'[b1][k1][i].vid = objects'[b1][k1][j].vid => i = j
              /\ \/ objects'[b1][k1] \in {objects[b1][k1], <<>>}
                 \/ <<b1, k1>> \in tasks[n].touches /\ tasks[n].pc \notin BucketPcs
  <2>1. CASE b1 = b /\ k1 = k
    <3>1. \A w \in Versions(b, k)' : w = v \/ w \in Versions(b, k)
      BY <1>7, <1>8 DEF Versions
    <3>2. \A w \in Versions(b, k)' : w \in Versions(b, k) \/ (New(n, b, k, w) /\ VersionInv(b, k, w)')
      BY <3>1, <1>12, <1>13
    <3>3. \A i, j \in DOMAIN objects'[b][k] : objects'[b][k][i].vid = objects'[b][k][j].vid => i = j
      BY <1>7, <1>9
    <3>4. <<b, k>> \in tasks[n].touches /\ tasks[n].pc \notin BucketPcs
      BY <1>1, <1>2 DEF BucketPcs
    <3> QED BY <3>2, <3>3, <3>4, <2>1
  <2>2. CASE ~(b1 = b /\ k1 = k)
    <3>1. objects'[b1][k1] = objects[b1][k1] BY <2>2, <1>7
    <3> QED BY <3>1, <1>3 DEF VersionsInv, Versions
  <2> QED BY <2>1, <2>2
<1>15. ASSUME tasks'[n].pc = "cleanup", NEW p \in tasks'[n].remove, p[3] # Null
       PROVE  /\ p[3][1] \in DOMAIN tasks /\ Past(p[3][1])'
              /\ \A w \in Versions(p[1], p[2])' : w.data.file # p
  <2>1. p \in Replaced(t) BY <1>11, <1>15
  <2>2. /\ p = <<b, k, p[3]>> /\ p[3][1] \in DOMAIN tasks /\ Past(p[3][1]) /\ p # t.data.file /\ t.vid = Null
    BY <2>1, <1>10, <1>15
  <2>3. Past(p[3][1])' BY <2>2, <1>11 DEF Moves, Past
  <2>4. objects'[p[1]][p[2]] = <<v>> BY <2>2, <1>6, <1>7
  <2>5. \A w \in Versions(p[1], p[2])' : w = v BY <2>4, <1>2, Prepended DEF Versions
  <2> QED BY <2>2, <2>3, <2>5, <1>2
<1>16. tasks[n].op # "get" /\ versioning' \in [Buckets -> {None, ""} \cup Versionings] /\ tasks'[n].pc \notin {"rename", "commit"}
  BY <1>1, <1>2, <1>3, <1>11 DEF TypeInv, TypeOK
<1>17. Records(n) BY <1>7, <1>11, <1>14, <1>15, <1>16 DEF Records
<1> QED BY <1>11, <1>17, RecordsKeeps

LEMMA CommitCopyKeeps ==
    ASSUME IInv, NEW n, CommitCopy(n)
    PROVE  IInv'
<1>1. /\ n \in InFlight /\ tasks[n] \in PutTasks \cup CopyTasks /\ tasks[n].pc = "commit"
  BY Busy, Kinds DEF CommitCopy
<1> QED BY <1>1, CommitKeeps DEF CommitCopy, files, history

LEMMA CommitPutKeeps ==
    ASSUME IInv, NEW n, CommitPut(n)
    PROVE  IInv'
<1>1. /\ n \in InFlight /\ n \in DOMAIN tasks /\ tasks[n] \in PutTasks \cup CopyTasks /\ tasks[n].pc = "commit"
      /\ tasks[n].op = "put"
  BY Busy, Kinds DEF CommitPut
<1>2. UNCHANGED <<versioning, link, disk, dirs, known, contended, torn, inPlace, everEnabled>>
  BY DEF CommitPut, files, history
<1>3. CASE versioning[tasks[n].b] # None BY <1>1, <1>2, <1>3, CommitKeeps DEF CommitPut
<1>4. CASE versioning[tasks[n].b] = None
  <2>1. PICK t, b, k, R : /\ t = tasks[n] /\ b = t.b /\ k = t.k /\ R = IF t.data.file = None THEN {} ELSE {t.data.file}
    OBVIOUS
  <2>2. ThenRemove(n, R) /\ objects' = objects BY <2>1, <1>4 DEF CommitPut
  <2>3. /\ b \in Buckets /\ k \in Keys /\ <<b, k>> \in t.touches
        /\ t.vid \in {Null, <<n, 1>>} /\ t.path = <<b, k, t.vid>> /\ t.path \in Paths
        /\ t.data.file \in {None, t.path}
    BY <2>1, <1>1, Written
  <2>4. /\ TypeInv /\ VersionsInv /\ ~Past(n) BY <1>1 DEF IInv, Past
  <2>5. R \in SUBSET Paths /\ \A p \in R : p = t.path /\ KeyOf(p) \in t.touches
    BY <2>1, <2>3 DEF KeyOf
  <2>6. /\ Moves(n) /\ tasks' \in Seq(TaskRecords) /\ TaskInv(n)' /\ Past(n)'
        /\ \/ tasks'[n].pc = "done"
           \/ tasks'[n].pc = "cleanup" /\ tasks'[n].remove = R /\ tasks'[n].touches = tasks[n].touches
    BY <2>1, <2>2, <2>4, <2>5, <1>1, <1>2, Removing
  <2>7. ASSUME tasks'[n].pc = "cleanup", NEW p \in tasks'[n].remove, p[3] # Null
        PROVE  /\ p[3][1] \in DOMAIN tasks /\ Past(p[3][1])'
               /\ \A w \in Versions(p[1], p[2])' : w.data.file # p
    <3>1. p = <<b, k, t.vid>> /\ p \in Paths BY <2>3, <2>5, <2>6, <2>7
    <3>2. p[1] = b /\ p[2] = k /\ p[3] = <<n, 1>> /\ p[3][1] = n BY <3>1, <2>3, <2>7
    <3>3. \A w \in Versions(b, k) : w.data.file # p
      <4> SUFFICES ASSUME NEW w \in Versions(b, k), w.data.file = p PROVE FALSE
        OBVIOUS
      <4>1. p # None BY <3>1, NoneAssumption
      <4>2. Past(p[3][1]) BY <4>1, <2>3, <2>7, VersionFile
      <4> QED BY <4>2, <3>2, <2>4
    <3>4. Versions(b, k)' = Versions(b, k) BY <2>2 DEF Versions
    <3> QED BY <3>2, <3>3, <3>4, <2>6, <1>1
  <2>8. \A b1 \in Buckets, k1 \in Keys : Versions(b1, k1)' = Versions(b1, k1)
    BY <2>2 DEF Versions
  <2>9. \A b1 \in Buckets, k1 \in Keys : \A i, j \in DOMAIN objects'[b1][k1] :
            objects'[b1][k1][i].vid = objects'[b1][k1][j].vid => i = j
    BY <2>2, <2>4 DEF VersionsInv
  <2>10. /\ versioning' \in [Buckets -> {None, ""} \cup Versionings]
         /\ objects' \in [Buckets -> [Keys -> Seq(VersionRecords)]]
    BY <2>2, <2>4, <1>2 DEF TypeInv, TypeOK
  <2>11. Records(n) BY <1>1, <1>2, <2>2, <2>6, <2>7, <2>8, <2>9, <2>10 DEF Records
  <2> QED BY <2>6, <2>11, RecordsKeeps
<1> QED BY <1>3, <1>4

LEMMA DeleteBucketMetaKeeps ==
    ASSUME IInv, NEW n, DeleteBucketMeta(n)
    PROVE  IInv'
<1>1. /\ n \in InFlight /\ n \in DOMAIN tasks /\ tasks[n] \in BucketTasks /\ TaskInv(n)
      /\ tasks[n].pc = "deleteBucket" /\ tasks[n].op # "get" /\ tasks[n].b \in Buckets
  BY Busy, Kinds DEF DeleteBucketMeta, BucketPcs, BucketTasks
<1>2. /\ TypeInv /\ VersionsInv
      /\ objects \in [Buckets -> [Keys -> Seq(VersionRecords)]] /\ versioning \in [Buckets -> {None, ""} \cup Versionings]
  BY DEF IInv, TypeInv, TypeOK
<1>3. UNCHANGED <<link, disk, dirs, known, contended, torn, inPlace, everEnabled>> /\ Goto(n, "removeDir")
  BY DEF DeleteBucketMeta, files, history
<1>4. Moves(n) /\ tasks' \in Seq(TaskRecords) /\ tasks'[n] = [tasks[n] EXCEPT !.pc = "removeDir"]
  BY <1>1, <1>2, <1>3, Going DEF BucketPcs
<1>5. tasks'[n].pc = "removeDir" /\ tasks'[n].touches = tasks[n].touches /\ tasks'[n].b = tasks[n].b
  BY <1>4, <1>1 DEF BucketTasks
<1>6. TaskInv(n)' BY <1>5, <1>1 DEF TaskInv, Putting, Copying, PutPcs, CopyPcs, BucketPcs
<1>7. /\ versioning' \in [Buckets -> {None, ""} \cup Versionings]
      /\ objects' \in [Buckets -> [Keys -> Seq(VersionRecords)]]
      /\ \A b \in Buckets, k \in Keys : objects'[b][k] \in {objects[b][k], <<>>}
  <2>1. CASE UNCHANGED meta BY <2>1, <1>2 DEF meta
  <2>2. CASE ~UNCHANGED meta
    <3> DEFINE row == [k \in Keys |-> <<>>]
    <3>1. /\ versioning' = [versioning EXCEPT ![tasks[n].b] = None]
          /\ objects' = [objects EXCEPT ![tasks[n].b] = row]
      BY <2>2 DEF DeleteBucketMeta
    <3>2. row \in [Keys -> Seq(VersionRecords)] /\ \A k \in Keys : row[k] = <<>> OBVIOUS
    <3> HIDE DEF row
    <3> QED BY <3>1, <3>2, <1>1, <1>2
  <2> QED BY <2>1, <2>2
<1>8. ASSUME NEW b \in Buckets, NEW k \in Keys
      PROVE  /\ \A w \in Versions(b, k)' : w \in Versions(b, k)
             /\ \A i, j \in DOMAIN objects'[b][k] : objects'[b][k][i].vid = objects'[b][k][j].vid => i = j
  <2>1. CASE objects'[b][k] = objects[b][k] BY <2>1, <1>2 DEF Versions, VersionsInv
  <2>2. CASE objects'[b][k] = <<>> BY <2>2 DEF Versions
  <2> QED BY <2>1, <2>2, <1>7
<1>9. Records(n) BY <1>1, <1>3, <1>4, <1>5, <1>7, <1>8 DEF Records
<1> QED BY <1>6, <1>9, RecordsKeeps

-----------------------------------------------------------------------------
(* Deleting a batch *)

LEMMA FirstHit ==
    ASSUME NEW hits \in SUBSET Nat, hits # {}
    PROVE  (CHOOSE i \in hits : \A j \in hits : i <= j) \in hits
<1>1. \E i \in hits : \A j \in hits : i <= j BY LeastNat
<1> QED BY <1>1

LEMMA Concatenated ==
    ASSUME NEW S, NEW a \in Seq(S), NEW c \in Seq(S)
    PROVE  /\ a \o c \in Seq(S) /\ Len(a \o c) = Len(a) + Len(c)
           /\ \A j \in 1..Len(a) : (a \o c)[j] = a[j]
           /\ \A j \in 1..Len(c) : (a \o c)[Len(a) + j] = c[j]
OBVIOUS

LEMMA RemoveAtIs ==
    ASSUME NEW S, NEW s \in Seq(S), NEW i \in DOMAIN s
    PROVE  LET r == RemoveAt(s, i)
           IN  /\ r \in Seq(S) /\ DOMAIN r = 1..(Len(s) - 1)
               /\ \A j \in DOMAIN r : r[j] = IF j < i THEN s[j] ELSE s[j + 1]
<1> DEFINE n == Len(s)
           a == SubSeq(s, 1, i - 1)
           c == SubSeq(s, i + 1, n)
<1>1. n \in Nat /\ i \in 1..n /\ i \in Nat OBVIOUS
<1>2. a \in Seq(S) /\ Len(a) = i - 1 /\ \A j \in 1..(i - 1) : a[j] = s[j] BY <1>1
<1>3. c \in Seq(S) /\ Len(c) = n - i /\ \A j \in 1..(n - i) : c[j] = s[i + j] BY <1>1
<1>4. RemoveAt(s, i) = a \o c BY DEF RemoveAt
<1> HIDE DEF a, c, n
<1>5. /\ a \o c \in Seq(S) /\ Len(a \o c) = n - 1 /\ DOMAIN (a \o c) = 1..(n - 1)
      /\ \A j \in 1..(i - 1) : (a \o c)[j] = a[j]
      /\ \A j \in 1..(n - i) : (a \o c)[i - 1 + j] = c[j]
  <2>1. /\ a \o c \in Seq(S) /\ Len(a \o c) = Len(a) + Len(c)
        /\ \A j \in 1..Len(a) : (a \o c)[j] = a[j]
        /\ \A j \in 1..Len(c) : (a \o c)[Len(a) + j] = c[j]
    <3>1. a \in Seq(S) /\ c \in Seq(S) BY <1>2, <1>3
    <3> QED BY ONLY <3>1, Concatenated
  <2>2. (i - 1) + (n - i) = n - 1 BY <1>1
  <2>3. DOMAIN (a \o c) = 1..Len(a \o c) BY <2>1
  <2> QED BY <2>1, <2>2, <2>3, <1>2, <1>3
<1>6. ASSUME NEW j \in 1..(n - 1) PROVE (a \o c)[j] = IF j < i THEN s[j] ELSE s[j + 1]
  <2>1. CASE j < i
    <3>1. j \in 1..(i - 1) BY <2>1, <1>1
    <3> QED BY <3>1, <2>1, <1>2, <1>5
  <2>2. CASE ~(j < i)
    <3> DEFINE l == j - (i - 1)
    <3>1. l \in 1..(n - i) /\ i + l = j + 1 /\ i - 1 + l = j BY <2>2, <1>1
    <3> HIDE DEF l
    <3>2. (a \o c)[i - 1 + l] = c[l] /\ c[l] = s[i + l] BY <3>1, <1>3, <1>5
    <3> QED BY <3>1, <3>2, <2>2
  <2> QED BY <2>1, <2>2
<1> QED BY <1>4, <1>5, <1>6 DEF n

\* get_object_version finds a version with the id, when there is one.
LEMMA GetVersionIs ==
    ASSUME NEW vs \in Seq(VersionRecords), NEW vid
    PROVE  \/ GetVersion(vs, vid) = None /\ \A i \in DOMAIN vs : vs[i].vid # vid
           \/ \E i \in DOMAIN vs : GetVersion(vs, vid) = vs[i] /\ vs[i].vid = vid /\ vs[i] # None
<1> DEFINE hits == {i \in DOMAIN vs : vs[i].vid = vid}
<1>1. CASE hits = {} BY <1>1 DEF GetVersion
<1>2. CASE hits # {}
  <2> DEFINE first == CHOOSE i \in hits : \A j \in hits : i <= j
  <2>1. hits \in SUBSET Nat OBVIOUS
  <2>2. first \in hits BY <2>1, <1>2, FirstHit
  <2>3. GetVersion(vs, vid) = vs[first] BY <1>2 DEF GetVersion
  <2>4. vs[first] \in VersionRecords BY <2>2
  <2> QED BY <2>2, <2>3, <2>4, NoneAssumption
<1> QED BY <1>1, <1>2

\* delete_object_version takes the version with the id, and only that.
LEMMA DeleteVersionIs ==
    ASSUME NEW vs \in Seq(VersionRecords), NEW vid, Unique(vs)
    PROVE  LET r == DeleteObjectVersion(vs, vid)
           IN  /\ r \in Seq(VersionRecords) /\ Unique(r)
               /\ \A i \in DOMAIN r : r[i].vid # vid /\ \E j \in DOMAIN vs : r[i] = vs[j]
               /\ (\A i \in DOMAIN vs : vs[i].vid # vid) => r = vs
<1> DEFINE hits == {i \in DOMAIN vs : vs[i].vid = vid}
           r == DeleteObjectVersion(vs, vid)
<1>1. CASE hits = {} BY <1>1 DEF DeleteObjectVersion
<1>2. CASE hits # {}
  <2> DEFINE first == CHOOSE i \in hits : \A j \in hits : i <= j
  <2>1. hits \in SUBSET Nat OBVIOUS
  <2>2. first \in hits BY <2>1, <1>2, FirstHit
  <2>3. r = RemoveAt(vs, first) BY <1>2 DEF DeleteObjectVersion
  <2>4. PICK f \in DOMAIN vs : f = first /\ vs[f].vid = vid BY <2>2
  <2>5. /\ r \in Seq(VersionRecords) /\ DOMAIN r = 1..(Len(vs) - 1)
        /\ \A j \in DOMAIN r : r[j] = IF j < f THEN vs[j] ELSE vs[j + 1]
    <3>1. r = RemoveAt(vs, f) BY <2>3, <2>4
    <3> HIDE DEF r
    <3> QED BY <3>1, RemoveAtIs
  <2> HIDE DEF r, hits, first
  <2>6. Len(vs) \in Nat /\ DOMAIN vs = 1..Len(vs) /\ f \in Nat OBVIOUS
  <2>7. ASSUME NEW i \in DOMAIN r
        PROVE  \E j \in DOMAIN vs : r[i] = vs[j] /\ j # f /\ j = IF i < f THEN i ELSE i + 1
    <3>1. CASE i < f BY <3>1, <2>5, <2>6
    <3>2. CASE ~(i < f)
      <4>1. i + 1 \in DOMAIN vs /\ i + 1 # f BY <3>2, <2>5, <2>6
      <4> QED BY <4>1, <3>2, <2>5
    <3> QED BY <3>1, <3>2
  <2>8. \A i \in DOMAIN r : r[i].vid # vid /\ \E j \in DOMAIN vs : r[i] = vs[j]
    BY <2>4, <2>7 DEF Unique
  <2>9. ASSUME NEW i \in DOMAIN r, NEW l \in DOMAIN r, r[i].vid = r[l].vid PROVE i = l
    <3>1. PICK j \in DOMAIN vs : r[i] = vs[j] /\ j # f /\ j = IF i < f THEN i ELSE i + 1
      BY <2>7
    <3>2. PICK m \in DOMAIN vs : r[l] = vs[m] /\ m # f /\ m = IF l < f THEN l ELSE l + 1
      BY <2>7
    <3>3. j = m BY <3>1, <3>2, <2>9 DEF Unique
    <3> QED BY <3>1, <3>2, <3>3, <2>5, <2>6
  <2> QED BY <2>4, <2>5, <2>8, <2>9 DEF Unique, r
<1> QED BY <1>1, <1>2

LEMMA EntryLeaves ==
    ASSUME NEW b, NEW n \in Nat, NEW i \in Nat, NEW e, NEW vs \in Seq(VersionRecords)
    PROVE  EntryLeft(b, n, i, e, vs) \in Seq(VersionRecords)
<1>1. DeleteMarker(<<n, i>>) \in VersionRecords
  BY DEF DeleteMarker, VersionRecords, DataRecords, Inline, Contents, Vids
<1>2. CASE e.vid = None BY <1>1, <1>2, Prepended DEF EntryLeft, DeleteObject
<1>3. CASE e.vid # None
  <2> DEFINE hits == {j \in DOMAIN vs : vs[j].vid = e.vid}
  <2>1. CASE hits = {} BY <2>1, <1>3 DEF EntryLeft, DeleteObjectVersion
  <2>2. CASE hits # {}
    <3> DEFINE first == CHOOSE j \in hits : \A l \in hits : j <= l
    <3>1. hits \in SUBSET Nat OBVIOUS
    <3>2. first \in hits BY <3>1, <2>2, FirstHit
    <3>3. EntryLeft(b, n, i, e, vs) = RemoveAt(vs, first)
      BY <2>2, <1>3 DEF EntryLeft, DeleteObjectVersion
    <3>4. PICK f \in DOMAIN vs : f = first BY <3>2
    <3>5. RemoveAt(vs, f) \in Seq(VersionRecords) BY RemoveAtIs
    <3> QED BY <3>3, <3>4, <3>5
  <2> QED BY <2>1, <2>2
<1> QED BY <1>2, <1>3

LEMMA EntryFrees ==
    ASSUME NEW b, NEW e, NEW vs \in Seq(VersionRecords)
    PROVE  EntryFile(EntryHit(b, e, vs)) \in SUBSET Paths
<1>1. EntryHit(b, e, vs) = None \/ EntryHit(b, e, vs) \in DataRecords
  <2>1. CASE e.vid = None
    <3>1. Previous(vs) = None \/ Previous(vs) \in DataRecords
      <4>1. CASE vs = <<>> BY <4>1 DEF Previous
      <4>2. CASE vs # <<>>
        <5>1. Head(vs) \in VersionRecords BY <4>2
        <5> QED BY <4>2, <5>1 DEF Previous, VersionRecords
      <4> QED BY <4>1, <4>2
    <3> QED BY <3>1, <2>1 DEF EntryHit
  <2>2. CASE e.vid # None
    <3>1. PICK v : v = GetVersion(vs, e.vid) OBVIOUS
    <3>2. v = None \/ v \in VersionRecords BY <3>1, GetVersionIs
    <3>3. v = None \/ v.data \in DataRecords BY <3>2 DEF VersionRecords
    <3> QED BY <3>1, <3>3, <2>2 DEF EntryHit
  <2> QED BY <2>1, <2>2
<1>2. PICK hit : hit = EntryHit(b, e, vs) OBVIOUS
<1>3. EntryFile(hit) \in SUBSET Paths BY <1>1, <1>2 DEF EntryFile, DataRecords
<1> QED BY <1>2, <1>3

\* One entry makes one batch of another.
LEMMA EntryIs ==
    ASSUME NEW n \in Nat, tasks[n] \in DeleteTasks, NEW acc \in Batch, NEW i \in DOMAIN tasks[n].entries,
           NEW b, b = tasks[n].b, NEW e, e = tasks[n].entries[i], NEW vs, vs = acc.objs[e.k],
           NEW out, out = DeleteEntry(b, n, acc, i), NEW r, r = EntryLeft(b, n, i, e, vs),
           NEW more, more = EntryFile(EntryHit(b, e, vs))
    PROVE  /\ out \in Batch /\ e.k \in Keys /\ vs \in Seq(VersionRecords)
           /\ \A k \in Keys : k # e.k => out.objs[k] = acc.objs[k]
           /\ out.objs[e.k] = r
           /\ out.gone = acc.gone \cup more
<1>1. e \in EntryRecords /\ i \in Nat BY DEF DeleteTasks
<1>2. e.k \in Keys /\ vs \in Seq(VersionRecords) /\ acc.objs \in [Keys -> Seq(VersionRecords)] /\ acc.gone \in SUBSET Paths
  BY <1>1 DEF EntryRecords, Batch
<1>3. out = [objs |-> [acc.objs EXCEPT ![e.k] = r], gone |-> acc.gone \cup more]
  BY Zenon DEF DeleteEntry, Uuid, EntryLeft, EntryFile, EntryHit
<1>4. r \in Seq(VersionRecords) BY <1>1, <1>2, EntryLeaves
<1>5. more \in SUBSET Paths BY <1>2, EntryFrees
<1>6. PICK key \in Keys : key = e.k BY <1>2
<1>7. out = [objs |-> [acc.objs EXCEPT ![key] = r], gone |-> acc.gone \cup more]
  BY <1>3, <1>6, Zenon
<1>8. /\ out \in Batch /\ out.objs[key] = r /\ out.gone = acc.gone \cup more
      /\ \A l \in Keys : l # key => out.objs[l] = acc.objs[l]
  <2>1. acc.objs \in [Keys -> Seq(VersionRecords)] /\ acc.gone \in SUBSET Paths
    BY DEF Batch
  <2>2. out \in Batch /\ out.objs = [acc.objs EXCEPT ![key] = r] /\ out.gone = acc.gone \cup more
    BY ONLY <2>1, <1>4, <1>5, <1>7 DEF Batch
  <2> QED BY ONLY <2>1, <2>2, <1>6
<1> QED BY <1>2, <1>6, <1>8, Zenon

LEMMA Earlier ==
    ASSUME NEW n, NEW i \in Nat, NEW b, NEW k, NEW v, OfBatch(n, i - 1, b, k, v)
    PROVE  OfBatch(n, i, b, k, v)
<1>1. \A j \in 1..(i - 1) : j \in 1..i OBVIOUS
<1> QED BY <1>1 DEF OfBatch

\* A marker, in a versioned bucket.
LEMMA MarkerIsAdded ==
    ASSUME NEW n, NEW i, NEW b, NEW k, NEW vs, NEW gone, EntryBefore(n, i, b, k, vs, gone), versioning[b] = "Enabled"
    PROVE  EntryAfter(n, i, b, k, vs, gone, <<DeleteMarker(<<n, i>>)>> \o vs, {})
<1>1. PICK d, r : d = DeleteMarker(<<n, i>>) /\ r = <<d>> \o vs OBVIOUS
<1>2. /\ n \in Nat /\ ~Past(n) /\ i \in Nat /\ i >= 1 /\ vs \in Seq(VersionRecords) /\ gone \in SUBSET Paths
      /\ b \in Buckets /\ k \in Keys /\ IInv
      /\ \A x \in DOMAIN vs : OfBatch(n, i - 1, b, k, vs[x])
      /\ Unique(vs)
      /\ \A p \in gone : p[2] = k => \A x \in DOMAIN vs : vs[x].data.file # p
  BY DEF EntryBefore
<1>3. d.vid = <<n, i>> /\ d.data.file = None /\ d \in VersionRecords
  BY <1>1, <1>2 DEF DeleteMarker, VersionRecords, DataRecords, Inline, Contents, Vids
<1>4. /\ DOMAIN r = 1..(Len(vs) + 1) /\ DOMAIN vs = 1..Len(vs) /\ Len(vs) \in Nat /\ r[1] = d
      /\ \A x \in 1..(Len(vs) + 1) : x # 1 => (x - 1 \in 1..Len(vs) /\ r[x] = vs[x - 1])
  BY <1>1, <1>2, <1>3, Prepended
<1>5. \A x \in DOMAIN r : r[x] = d \/ \E y \in DOMAIN vs : r[x] = vs[y] BY <1>4
<1>6. \A x \in DOMAIN r : OfBatch(n, i, b, k, r[x])
  <2>1. OfBatch(n, i, b, k, d)
    <3>1. i \in 1..i BY <1>2
    <3> QED BY <3>1, <1>1 DEF OfBatch
  <2>2. \A y \in DOMAIN vs : OfBatch(n, i, b, k, vs[y]) BY <1>2, Earlier
  <2> QED BY <2>1, <2>2, <1>5
<1>7. \A x \in DOMAIN vs : vs[x].vid # d.vid
  <2> SUFFICES ASSUME NEW x \in DOMAIN vs, vs[x].vid = <<n, i>> PROVE FALSE
    BY <1>3
  <2>1. CASE vs[x] \in Versions(b, k)
    <3>1. <<n, i>> # Null BY <1>2, NullAssumption
    <3>2. Past(vs[x].vid[1]) BY <2>1, <3>1, <1>2, VersionFile
    <3> QED BY <3>2, <1>2
  <2>2. ASSUME NEW j \in 1..(i - 1), vs[x] = DeleteMarker(<<n, j>>) PROVE FALSE
    <3>1. <<n, j>> = <<n, i>> BY <2>2 DEF DeleteMarker
    <3>2. j = i BY <3>1
    <3> QED BY <3>2, <1>2
  <2> QED BY <2>1, <2>2, <1>2 DEF OfBatch
<1>8. Unique(r)
  <2> SUFFICES ASSUME NEW x \in DOMAIN r, NEW y \in DOMAIN r, r[x].vid = r[y].vid PROVE x = y
    BY DEF Unique
  <2>1. CASE x = 1 \/ y = 1 BY <2>1, <1>4, <1>7
  <2>2. CASE x # 1 /\ y # 1
    <3>1. x - 1 \in DOMAIN vs /\ y - 1 \in DOMAIN vs /\ vs[x - 1].vid = vs[y - 1].vid
      BY <2>2, <1>4
    <3>2. x - 1 = y - 1 BY <3>1, <1>2 DEF Unique
    <3> QED BY <3>2, <1>4
  <2> QED BY <2>1, <2>2
<1>9. \A p \in gone : p[2] = k => \A x \in DOMAIN r : r[x].data.file # p
  <2>1. \A p \in gone : p # None BY <1>2, NoneAssumption
  <2> QED BY <2>1, <1>2, <1>3, <1>5
<1>10. EntryAfter(n, i, b, k, vs, gone, r, {}) BY <1>6, <1>8, <1>9 DEF EntryAfter
<1> QED BY <1>1, <1>10

\* The whole key, in another bucket.
LEMMA KeyIsGone ==
    ASSUME NEW n, NEW i, NEW b, NEW k, NEW vs, NEW gone, EntryBefore(n, i, b, k, vs, gone), versioning[b] # "Enabled",
           NEW hit, hit = Previous(vs), NEW more, more = IF hit = None \/ hit.file = None THEN {} ELSE {hit.file}
    PROVE  EntryAfter(n, i, b, k, vs, gone, <<>>, more)
<1>1. /\ vs \in Seq(VersionRecords) /\ b \in Buckets /\ k \in Keys /\ IInv
      /\ \A x \in DOMAIN vs : vs[x] \in Versions(b, k)
      /\ Unique(vs)
  BY DEF EntryBefore, OfBatch
<1>2. CASE vs = <<>> BY <1>2 DEF EntryAfter, Previous, Unique
<1>3. CASE vs # <<>>
  <2>1. hit = vs[1].data /\ 1 \in DOMAIN vs /\ DOMAIN vs = 1..Len(vs)
    BY <1>1, <1>3 DEF Previous
  <2>2. PICK v \in Versions(b, k) : v = vs[1] BY <2>1, <1>1
  <2>3. v.data # None /\ (v.data.file # None =>
           /\ v.data.file = <<b, k, v.vid>>
           /\ v.data.file[3] # Null => (v.data.file[3][1] \in DOMAIN tasks /\ Past(v.data.file[3][1])))
    BY <1>1, VersionFile
  <2>4. more = IF v.data.file = None THEN {} ELSE {v.data.file} BY <2>1, <2>2, <2>3
  <2>5. ASSUME NEW p \in more
        PROVE  p = <<b, k, p[3]>> /\ (p[3] # Null => (p[3][1] \in DOMAIN tasks /\ Past(p[3][1])))
    <3>1. p = v.data.file /\ v.data.file # None BY <2>4
    <3>2. p = <<b, k, v.vid>> /\ (p[3] # Null => (p[3][1] \in DOMAIN tasks /\ Past(p[3][1])))
      BY <3>1, <2>3
    <3> QED BY <3>2
  <2>6. ASSUME \A w \in Versions(b, k) : w.vid = Null, NEW x \in DOMAIN vs
        PROVE  vs[x].data.file \in more \cup {None}
    <3>1. vs[x].vid = Null /\ vs[1].vid = Null BY <2>1, <2>6, <1>1
    <3>2. x = 1 BY <3>1, <2>1, <1>1 DEF Unique
    <3> QED BY <3>2, <2>2, <2>4
  <2> QED BY <2>5, <2>6 DEF EntryAfter, Unique
<1> QED BY <1>2, <1>3

\* One version, whichever the bucket.
LEMMA VersionIsGone ==
    ASSUME NEW n, NEW i, NEW b, NEW k, NEW vs, NEW gone, EntryBefore(n, i, b, k, vs, gone), NEW vid, vid # None,
           NEW found, found = GetVersion(vs, vid), NEW hit, hit = IF found = None THEN None ELSE found.data,
           NEW more, more = IF hit = None \/ hit.file = None THEN {} ELSE {hit.file}
    PROVE  EntryAfter(n, i, b, k, vs, gone, DeleteObjectVersion(vs, vid), more)
<1>1. PICK r : r = DeleteObjectVersion(vs, vid) OBVIOUS
<1>2. /\ i \in Nat /\ vs \in Seq(VersionRecords) /\ b \in Buckets /\ k \in Keys /\ IInv
      /\ \A x \in DOMAIN vs : OfBatch(n, i - 1, b, k, vs[x])
      /\ Unique(vs)
      /\ \A p \in gone : p[2] = k => \A x \in DOMAIN vs : vs[x].data.file # p
  BY DEF EntryBefore
<1>3. /\ r \in Seq(VersionRecords) /\ Unique(r)
      /\ \A x \in DOMAIN r : r[x].vid # vid /\ \E y \in DOMAIN vs : r[x] = vs[y]
      /\ (\A x \in DOMAIN vs : vs[x].vid # vid) => r = vs
  BY <1>1, <1>2, DeleteVersionIs
<1>4. \A x \in DOMAIN r : OfBatch(n, i, b, k, r[x])
  <2>1. \A y \in DOMAIN vs : OfBatch(n, i, b, k, vs[y]) BY <1>2, Earlier
  <2> QED BY <2>1, <1>3
<1>5. \A p \in gone : p[2] = k => \A x \in DOMAIN r : r[x].data.file # p BY <1>2, <1>3
<1>6. CASE \A x \in DOMAIN vs : vs[x].vid # vid
  <2>1. found = None BY <1>2, <1>6, GetVersionIs
  <2>2. more = {} /\ r = vs BY <2>1, <1>3, <1>6
  <2>3. EntryAfter(n, i, b, k, vs, gone, r, more) BY <2>2, <1>3, <1>4, <1>5 DEF EntryAfter
  <2> QED BY <2>3, <1>1
<1>7. CASE ~\A x \in DOMAIN vs : vs[x].vid # vid
  <2>1. PICK f \in DOMAIN vs : found = vs[f] /\ vs[f].vid = vid /\ vs[f] # None
    BY <1>2, <1>7, GetVersionIs
  <2>2. hit = vs[f].data /\ hit # None
    <3>1. vs[f] \in VersionRecords BY <1>2
    <3>2. vs[f].data \in DataRecords BY <3>1 DEF VersionRecords
    <3> QED BY <3>2, <2>1, NoneAssumption
  <2>3. more = IF vs[f].data.file = None THEN {} ELSE {vs[f].data.file} BY <2>2
  <2>4. \A x \in DOMAIN vs : vs[x].data.file # None => vs[x] \in Versions(b, k)
    BY <1>2 DEF OfBatch, DeleteMarker, Inline
  <2>5. \A v \in Versions(b, k) : v.data.file # None =>
          /\ v.data.file = <<b, k, v.vid>>
          /\ v.data.file[3] # Null => (v.data.file[3][1] \in DOMAIN tasks /\ Past(v.data.file[3][1]))
    BY <1>2, VersionFile
  <2>6. ASSUME NEW p \in more
        PROVE  /\ p = <<b, k, p[3]>>
               /\ p[3] # Null => (p[3][1] \in DOMAIN tasks /\ Past(p[3][1]))
               /\ \A x \in DOMAIN r : r[x].data.file # p
    <3>1. p = vs[f].data.file /\ p # None /\ vs[f] \in Versions(b, k) BY <2>3, <2>4
    <3>2. p = <<b, k, vid>> /\ (p[3] # Null => (p[3][1] \in DOMAIN tasks /\ Past(p[3][1])))
      BY <3>1, <2>1, <2>5
    <3>3. p[3] = vid /\ p = <<b, k, p[3]>> BY <3>2
    <3>4. ASSUME NEW x \in DOMAIN r, r[x].data.file = p PROVE FALSE
      <4>1. PICK y \in DOMAIN vs : r[x] = vs[y] BY <1>3
      <4>2. vs[y] \in Versions(b, k) BY <4>1, <3>1, <3>4, <2>4
      <4>3. p = <<b, k, r[x].vid>> BY <4>1, <4>2, <3>1, <3>4, <2>5
      <4>4. r[x].vid = p[3] BY <4>3
      <4> QED BY <4>4, <3>3, <1>3
    <3> QED BY <3>2, <3>3, <3>4
  <2>7. ASSUME versioning[b] # "Enabled", \A v \in Versions(b, k) : v.vid = Null, NEW x \in DOMAIN vs
        PROVE  vs[x].data.file \in more \cup {None}
    <3>1. vs[x].vid = Null /\ vs[f].vid = Null BY <2>7, <1>2 DEF OfBatch
    <3>2. x = f BY <3>1, <1>2 DEF Unique
    <3> QED BY <3>2, <2>3
  <2>8. EntryAfter(n, i, b, k, vs, gone, r, more)
    BY <2>6, <2>7, <1>3, <1>4, <1>5 DEF EntryAfter
  <2> QED BY <2>8, <1>1
<1> QED BY <1>6, <1>7

\* Every entry leaves the batch in order.
LEMMA EntryKeeps ==
    ASSUME IInv, NEW n \in InFlight, tasks[n] \in DeleteTasks,
           NEW i \in DOMAIN tasks[n].entries, NEW acc, BatchInv(n, i - 1, acc)
    PROVE  BatchInv(n, i, DeleteEntry(tasks[n].b, n, acc, i))
<1>1. PICK b, e, out : b = tasks[n].b /\ e = tasks[n].entries[i] /\ out = DeleteEntry(b, n, acc, i)
  OBVIOUS
<1>2. PICK k, vs : k = e.k /\ vs = acc.objs[k] OBVIOUS
<1>3. PICK r, hit : r = out.objs[k] /\ hit = EntryHit(b, e, vs) OBVIOUS
<1>4. PICK found : found = GetVersion(vs, e.vid) OBVIOUS
<1>5. PICK more : more = EntryFile(hit) OBVIOUS
<1>6. /\ n \in DOMAIN tasks /\ n \in Nat /\ ~Past(n) /\ i \in Nat /\ i >= 1 /\ b \in Buckets
      /\ <<b, k>> \in tasks[n].touches
  <2>1. n \in DOMAIN tasks /\ ~Past(n) /\ TypeInv /\ TaskInv(n) /\ tasks[n].pc = "delete"
    <3>1. tasks[n].pc = "delete" BY DEF DeleteTasks
    <3> QED BY <3>1 DEF IInv, TasksInv, InFlight, Past
  <2>2. tasks[n].entries \in Seq(EntryRecords) /\ b \in Buckets BY <1>1 DEF DeleteTasks
  <2>3. i \in Nat /\ i >= 1 BY <2>2
  <2>4. DeleteInv(n) BY <2>1 DEF TaskInv
  <2>5. tasks[n].touches = {<<b, tasks[n].entries[j].k>> : j \in DOMAIN tasks[n].entries}
    BY <2>4, <1>1 DEF DeleteInv
  <2>6. <<b, k>> \in tasks[n].touches BY <2>5, <1>1, <1>2
  <2> QED BY <2>1, <2>2, <2>3, <2>6, Numbered
<1>7. /\ acc \in Batch
      /\ \A l \in Keys :
             /\ \A x \in DOMAIN acc.objs[l] : OfBatch(n, i - 1, b, l, acc.objs[l][x])
             /\ Unique(acc.objs[l])
             /\ acc.objs[l] = objects[b][l] \/ <<b, l>> \in tasks[n].touches
      /\ \A p \in acc.gone :
             /\ p = <<b, p[2], p[3]>> /\ p[2] \in Keys /\ KeyOf(p) \in tasks[n].touches
             /\ p[3] # Null => (p[3][1] \in DOMAIN tasks /\ Past(p[3][1]))
             /\ \A x \in DOMAIN acc.objs[p[2]] : acc.objs[p[2]][x].data.file # p
      /\ (versioning[b] # "Enabled" /\ \A l \in Keys : \A v \in Versions(b, l) : v.vid = Null) =>
             \A l \in Keys : \A v \in Versions(b, l) :
                \/ \E x \in DOMAIN acc.objs[l] : acc.objs[l][x] = v
                \/ v.data.file \in acc.gone \cup {None}
  BY <1>1 DEF BatchInv
<1>8. /\ out \in Batch /\ k \in Keys /\ vs \in Seq(VersionRecords)
      /\ \A l \in Keys : l # k => out.objs[l] = acc.objs[l]
      /\ r = EntryLeft(b, n, i, e, vs)
      /\ out.gone = acc.gone \cup more
  BY <1>1, <1>2, <1>3, <1>5, <1>6, <1>7, EntryIs
<1>9. EntryBefore(n, i, b, k, vs, acc.gone)
  <2>1. acc.gone \in SUBSET Paths BY <1>7 DEF Batch
  <2>2. /\ \A x \in DOMAIN vs : OfBatch(n, i - 1, b, k, vs[x])
        /\ Unique(vs)
        /\ \A p \in acc.gone : p[2] = k => \A x \in DOMAIN vs : vs[x].data.file # p
    BY <1>2, <1>7, <1>8
  <2> QED BY <2>1, <2>2, <1>6, <1>8 DEF EntryBefore
<1>10. EntryAfter(n, i, b, k, vs, acc.gone, r, more)
  <2>1. CASE e.vid = None /\ versioning[b] = "Enabled"
    <3>1. r = <<DeleteMarker(<<n, i>>)>> \o vs /\ more = {}
      BY <2>1, <1>3, <1>5, <1>8 DEF DeleteObject, EntryLeft, EntryFile, EntryHit
    <3> QED BY <3>1, <2>1, <1>9, MarkerIsAdded
  <2>2. CASE e.vid = None /\ versioning[b] # "Enabled"
    <3>1. r = <<>> /\ hit = Previous(vs)
      BY <2>2, <1>3, <1>8 DEF DeleteObject, EntryLeft, EntryHit
    <3>2. more = IF hit = None \/ hit.file = None THEN {} ELSE {hit.file}
      BY <1>5 DEF EntryFile
    <3> QED BY <3>1, <3>2, <2>2, <1>9, KeyIsGone
  <2>3. CASE e.vid # None
    <3>1. r = DeleteObjectVersion(vs, e.vid) /\ hit = IF found = None THEN None ELSE found.data
      BY <2>3, <1>3, <1>4, <1>8 DEF EntryLeft, EntryHit
    <3>2. more = IF hit = None \/ hit.file = None THEN {} ELSE {hit.file}
      BY <1>5 DEF EntryFile
    <3> QED BY <3>1, <3>2, <2>3, <1>4, <1>9, VersionIsGone
  <2> QED BY <2>1, <2>2, <2>3
<1>11. \A l \in Keys :
          /\ \A x \in DOMAIN out.objs[l] : OfBatch(n, i, b, l, out.objs[l][x])
          /\ Unique(out.objs[l])
          /\ out.objs[l] = objects[b][l] \/ <<b, l>> \in tasks[n].touches
  <2> SUFFICES ASSUME NEW l \in Keys
               PROVE  /\ \A x \in DOMAIN out.objs[l] : OfBatch(n, i, b, l, out.objs[l][x])
                      /\ Unique(out.objs[l])
                      /\ out.objs[l] = objects[b][l] \/ <<b, l>> \in tasks[n].touches
    OBVIOUS
  <2>1. CASE l = k BY <2>1, <1>3, <1>6, <1>10 DEF EntryAfter
  <2>2. CASE l # k
    <3>1. out.objs[l] = acc.objs[l] BY <2>2, <1>8
    <3>2. \A x \in DOMAIN acc.objs[l] : OfBatch(n, i, b, l, acc.objs[l][x])
      BY <1>6, <1>7, Earlier
    <3> QED BY <3>1, <3>2, <1>7
  <2> QED BY <2>1, <2>2
<1>12. ASSUME NEW p \in out.gone
       PROVE  /\ p = <<b, p[2], p[3]>> /\ p[2] \in Keys /\ KeyOf(p) \in tasks[n].touches
              /\ p[3] # Null => (p[3][1] \in DOMAIN tasks /\ Past(p[3][1]))
              /\ \A x \in DOMAIN out.objs[p[2]] : out.objs[p[2]][x].data.file # p
  <2>1. CASE p \in acc.gone
    <3>1. \A x \in DOMAIN out.objs[p[2]] : out.objs[p[2]][x].data.file # p
      <4>1. CASE p[2] = k BY <4>1, <2>1, <1>3, <1>10 DEF EntryAfter
      <4>2. CASE p[2] # k
        <5>1. out.objs[p[2]] = acc.objs[p[2]] BY <4>2, <2>1, <1>7, <1>8
        <5> QED BY <5>1, <2>1, <1>7
      <4> QED BY <4>1, <4>2
    <3> QED BY <3>1, <2>1, <1>7
  <2>2. CASE p \in more
    <3>1. /\ p = <<b, k, p[3]>>
          /\ p[3] # Null => (p[3][1] \in DOMAIN tasks /\ Past(p[3][1]))
          /\ \A x \in DOMAIN r : r[x].data.file # p
      BY <2>2, <1>10 DEF EntryAfter
    <3>2. p[1] = b /\ p[2] = k BY <3>1
    <3> QED BY <3>1, <3>2, <1>3, <1>6, <1>8 DEF KeyOf
  <2> QED BY <2>1, <2>2, <1>8
<1>13. ASSUME versioning[b] # "Enabled", \A l \in Keys : \A v \in Versions(b, l) : v.vid = Null,
              NEW l \in Keys, NEW v \in Versions(b, l)
       PROVE  \/ \E x \in DOMAIN out.objs[l] : out.objs[l][x] = v
              \/ v.data.file \in out.gone \cup {None}
  <2>1. (\E x \in DOMAIN acc.objs[l] : acc.objs[l][x] = v) \/ v.data.file \in acc.gone \cup {None}
    BY <1>7, <1>13
  <2>2. CASE l # k BY <2>1, <2>2, <1>8
  <2>3. CASE l = k
    <3>1. \A x \in DOMAIN vs : (\E y \in DOMAIN r : r[y] = vs[x]) \/ vs[x].data.file \in more \cup {None}
      BY <1>8, <1>10, <1>13 DEF EntryAfter
    <3> QED BY <3>1, <2>1, <2>3, <1>2, <1>3, <1>8
  <2> QED BY <2>2, <2>3
<1>14. BatchInv(n, i, out) BY <1>1, <1>8, <1>11, <1>12, <1>13 DEF BatchInv
<1> QED BY <1>1, <1>14

LEMMA EmptyBatch ==
    ASSUME IInv, NEW n, tasks[n] \in DeleteTasks, NEW acc, acc = [objs |-> objects[tasks[n].b], gone |-> {}]
    PROVE  BatchInv(n, 0, acc)
<1>1. PICK b \in Buckets : b = tasks[n].b BY DEF DeleteTasks
<1>2. objects[b] \in [Keys -> Seq(VersionRecords)]
  <2>1. objects \in [Buckets -> [Keys -> Seq(VersionRecords)]]
    BY Zenon DEF IInv, TypeInv, TypeOK
  <2> QED BY ONLY <2>1, b \in Buckets
<1>3. acc \in Batch /\ acc.objs = objects[b] /\ acc.gone = {} BY <1>1, <1>2 DEF Batch
<1>4. ASSUME NEW k \in Keys
      PROVE  /\ \A x \in DOMAIN objects[b][k] : OfBatch(n, 0, b, k, objects[b][k][x])
             /\ Unique(objects[b][k])
             /\ \A v \in Versions(b, k) : \E x \in DOMAIN objects[b][k] : objects[b][k][x] = v
  BY DEF OfBatch, Versions, Unique, IInv, VersionsInv
<1> QED BY <1>1, <1>3, <1>4 DEF BatchInv

\* ... so all entries do.
LEMMA BatchDone ==
    ASSUME IInv, NEW n \in InFlight, tasks[n] \in DeleteTasks
    PROVE  BatchInv(n, Len(tasks[n].entries), DeletedEntries(n))
<1> DEFINE b == tasks[n].b
           len == Len(tasks[n].entries)
           base == [objs |-> objects[b], gone |-> {}]
           Step(after, i) == IF i = 0 THEN base ELSE DeleteEntry(b, n, after[i - 1], i)
           Is(after) == after = [i \in 0..len |-> Step(after, i)]
           G == [i \in 1..len |-> [acc \in Batch |-> DeleteEntry(b, n, acc, i)]]
<1>1. len \in Nat /\ DOMAIN tasks[n].entries = 1..len BY DEF DeleteTasks
<1>2. n \in Nat BY Numbered DEF IInv, InFlight
<1>3. base \in Batch /\ BatchInv(n, 0, base)
  <2>1. BatchInv(n, 0, base) BY EmptyBatch
  <2> HIDE DEF base
  <2> QED BY <2>1 DEF BatchInv
<1>4. ASSUME NEW i \in 1..len, NEW acc \in Batch PROVE DeleteEntry(b, n, acc, i) \in Batch
  <2>1. PICK e, vs, out, r, more :
          /\ e = tasks[n].entries[i] /\ vs = acc.objs[e.k] /\ out = DeleteEntry(b, n, acc, i)
          /\ r = EntryLeft(b, n, i, e, vs) /\ more = EntryFile(EntryHit(b, e, vs))
    OBVIOUS
  <2>2. i \in DOMAIN tasks[n].entries BY <1>1
  <2>3. out \in Batch BY <2>1, <2>2, <1>2, EntryIs
  <2> QED BY <2>1, <2>3
<1>5. PICK f \in [0..len -> Batch] : Iterates(f, base, G, len)
  <2>1. G \in [1..len -> [Batch -> Batch]]
    <3> HIDE DEF b, len
    <3> QED BY <1>4
  <2> HIDE DEF G, len, base
  <2> QED BY <2>1, <1>1, <1>3, Iteration
<1> HIDE DEF base
<1>6. Is(f)
  <2>1. ASSUME NEW i \in 0..len PROVE f[i] = Step(f, i)
    <3>1. CASE i = 0 BY <3>1, <1>5 DEF Iterates
    <3>2. CASE i # 0
      <4> HIDE DEF len
      <4>1. i \in 1..len /\ i - 1 \in 0..len BY <3>2, <1>1
      <4>2. f[i] = G[i][f[i - 1]] /\ f[i - 1] \in Batch
        <5> HIDE DEF G
        <5> QED BY <4>1, <1>5 DEF Iterates
      <4>3. G[i][f[i - 1]] = DeleteEntry(b, n, f[i - 1], i) BY <4>1, <4>2
      <4> QED BY <3>2, <4>2, <4>3
    <3> QED BY <3>1, <3>2
  <2>2. f = [i \in 0..len |-> f[i]] BY <1>5
  <2> HIDE DEF Step
  <2> QED BY <2>1, <2>2
<1> DEFINE after == CHOOSE a : Is(a)
<1>7. Is(after) BY <1>6
<1>8. DeletedEntries(n) = after[len] BY DEF DeletedEntries, base
<1>9. \A i \in 0..len : after[i] = Step(after, i)
  <2> HIDE DEF Step, after, len
  <2> QED BY <1>7
<1> HIDE DEF after, Is, len
<1> DEFINE Wrong == {i \in 0..len : ~BatchInv(n, i, after[i])}
<1>10. Wrong = {}
  <2> SUFFICES ASSUME Wrong # {} PROVE FALSE
    OBVIOUS
  <2>1. PICK i \in Wrong : \A y \in Wrong : i <= y
    <3>1. Wrong \in SUBSET Nat BY <1>1
    <3> HIDE DEF Wrong
    <3> QED BY <3>1, LeastNat
  <2>2. i \in 0..len /\ ~BatchInv(n, i, after[i]) OBVIOUS
  <2>3. CASE i = 0 BY <2>2, <2>3, <1>3, <1>9
  <2>4. CASE i # 0
    <3>1. i - 1 \in 0..len /\ ~(i <= i - 1) /\ i \in 1..len BY <2>2, <2>4, <1>1
    <3>2. BatchInv(n, i - 1, after[i - 1]) BY <3>1, <2>1
    <3>3. after[i] = DeleteEntry(tasks[n].b, n, after[i - 1], i) BY <2>2, <2>4, <1>9
    <3>4. i \in DOMAIN tasks[n].entries BY <3>1, <1>1
    <3> HIDE DEF Wrong
    <3>5. BatchInv(n, i, DeleteEntry(tasks[n].b, n, after[i - 1], i))
      BY <3>2, <3>4, EntryKeeps
    <3> QED BY <3>3, <3>5, <2>2
  <2> QED BY <2>3, <2>4
<1>11. BatchInv(n, len, after[len]) BY <1>1, <1>10
<1> QED BY <1>8, <1>11 DEF len

LEMMA DeleteMetaKeeps ==
    ASSUME IInv, NEW n, DeleteMeta(n)
    PROVE  IInv'
<1>1. /\ n \in InFlight /\ n \in DOMAIN tasks /\ n \in Nat /\ tasks[n] \in DeleteTasks /\ TypeInv /\ VersionsInv
      /\ tasks[n].op = "delete" /\ tasks[n].pc = "delete" /\ ~Past(n)
  BY Busy, Kinds DEF DeleteMeta, DeleteTasks, IInv, Past
<1>2. UNCHANGED <<versioning, link, disk, dirs, known, contended, torn, inPlace, everEnabled>>
  BY DEF DeleteMeta, files, history
<1>3. PICK b, done : b = tasks[n].b /\ done = DeletedEntries(n) OBVIOUS
<1>4. objects' = [objects EXCEPT ![b] = done.objs] /\ ThenRemove(n, done.gone)
  BY <1>3 DEF DeleteMeta
<1>5. PICK len \in Nat : len = Len(tasks[n].entries) BY <1>1 DEF DeleteTasks
<1>6. BatchInv(n, len, done) BY <1>1, <1>3, <1>5, BatchDone
<1>7. /\ done \in Batch /\ b \in Buckets
      /\ \A k \in Keys :
           /\ \A x \in DOMAIN done.objs[k] : OfBatch(n, len, b, k, done.objs[k][x])
           /\ Unique(done.objs[k])
           /\ done.objs[k] = objects[b][k] \/ <<b, k>> \in tasks[n].touches
      /\ \A p \in done.gone :
           /\ p = <<b, p[2], p[3]>> /\ p[2] \in Keys /\ KeyOf(p) \in tasks[n].touches
           /\ p[3] # Null => (p[3][1] \in DOMAIN tasks /\ Past(p[3][1]))
           /\ \A x \in DOMAIN done.objs[p[2]] : done.objs[p[2]][x].data.file # p
  BY <1>1, <1>3, <1>6 DEF BatchInv, DeleteTasks
<1>8. done.gone \in SUBSET Paths /\ done.objs \in [Keys -> Seq(VersionRecords)]
  BY <1>7 DEF Batch
<1>9. /\ Moves(n) /\ tasks' \in Seq(TaskRecords) /\ TaskInv(n)' /\ Past(n)'
      /\ \/ tasks'[n].pc = "done"
         \/ tasks'[n].pc = "cleanup" /\ tasks'[n].remove = done.gone /\ tasks'[n].touches = tasks[n].touches
  BY <1>1, <1>2, <1>4, <1>7, <1>8, Removing
<1>10. /\ objects' \in [Buckets -> [Keys -> Seq(VersionRecords)]]
       /\ objects'[b] = done.objs
       /\ \A c \in Buckets : c # b => objects'[c] = objects[c]
  <2>1. objects \in [Buckets -> [Keys -> Seq(VersionRecords)]]
    BY <1>1, Zenon DEF TypeInv, TypeOK
  <2>2. b \in Buckets BY <1>7
  <2>3. objects' = [objects EXCEPT ![b] = done.objs] /\ done.objs \in [Keys -> Seq(VersionRecords)]
    BY <1>4, <1>8
  <2> QED BY ONLY <2>1, <2>2, <2>3
<1>11. ASSUME NEW c \in Buckets, NEW k \in Keys
       PROVE  /\ \A v \in Versions(c, k)' : v \in Versions(c, k) \/ (New(n, c, k, v) /\ VersionInv(c, k, v)')
              /\ \A i, j \in DOMAIN objects'[c][k] : objects'[c][k][i].vid = objects'[c][k][j].vid => i = j
              /\ objects'[c][k] \in {objects[c][k], <<>>} \/ <<c, k>> \in tasks[n].touches
  <2>1. CASE c # b \/ done.objs[k] = objects[b][k]
    <3>1. objects'[c][k] = objects[c][k] BY <2>1, <1>10
    <3> QED BY <3>1, <1>1 DEF Versions, VersionsInv
  <2>2. CASE c = b /\ <<b, k>> \in tasks[n].touches
    <3>1. ASSUME NEW v \in Versions(c, k)', v \notin Versions(c, k)
          PROVE  New(n, c, k, v) /\ VersionInv(c, k, v)'
      <4>1. PICK x \in DOMAIN done.objs[k] : v = done.objs[k][x]
        BY <2>2, <3>1, <1>10 DEF Versions
      <4>2. OfBatch(n, len, b, k, v) BY <4>1, <1>7
      <4>3. PICK j \in 1..len : v = DeleteMarker(<<n, j>>) BY <4>2, <2>2, <3>1 DEF OfBatch
      <4>4. v.vid = <<n, j>> /\ v.marker /\ v.data.file = None
        BY <4>3 DEF DeleteMarker, Inline
      <4>5. v.vid[1] = n BY <4>4
      <4>6. New(n, c, k, v) BY <4>4, <4>5, <2>2, <1>1 DEF New
      <4>7. n \in DOMAIN tasks' BY <1>1, <1>9 DEF Moves
      <4>8. VersionInv(c, k, v)' BY <4>4, <4>5, <4>7, <1>9 DEF VersionInv
      <4> QED BY <4>6, <4>8
    <3>2. objects'[c][k] = done.objs[k] /\ Unique(done.objs[k]) BY <2>2, <1>7, <1>10
    <3>3. \A i, j \in DOMAIN objects'[c][k] : objects'[c][k][i].vid = objects'[c][k][j].vid => i = j
      BY <3>2 DEF Unique
    <3> QED BY <3>1, <3>3, <2>2
  <2> QED BY <2>1, <2>2, <1>7
<1>12. ASSUME tasks'[n].pc = "cleanup", NEW p \in tasks'[n].remove, p[3] # Null
       PROVE  /\ p[3][1] \in DOMAIN tasks /\ Past(p[3][1])'
              /\ \A w \in Versions(p[1], p[2])' : w.data.file # p
  <2>1. p \in done.gone BY <1>9, <1>12
  <2>2. /\ p = <<b, p[2], p[3]>> /\ p[2] \in Keys
        /\ p[3][1] \in DOMAIN tasks /\ Past(p[3][1])
        /\ \A x \in DOMAIN done.objs[p[2]] : done.objs[p[2]][x].data.file # p
    BY <2>1, <1>7, <1>12
  <2>3. p[1] = b BY <2>2
  <2>4. Past(p[3][1])' BY <2>2, <1>1, <1>9 DEF Moves, Past
  <2>5. \A w \in Versions(p[1], p[2])' : w.data.file # p BY <2>2, <2>3, <1>10 DEF Versions
  <2> QED BY <2>2, <2>4, <2>5
<1>13. tasks'[n].pc \notin {"rename", "commit"} /\ tasks[n].pc \notin BucketPcs /\ tasks[n].op # "get"
  BY <1>1, <1>9 DEF BucketPcs
<1>14. versioning' \in [Buckets -> {None, ""} \cup Versionings]
  <2>1. versioning \in [Buckets -> {None, ""} \cup Versionings]
    BY <1>1, Zenon DEF TypeInv, TypeOK
  <2>2. versioning' = versioning BY <1>2
  <2> QED BY <2>1, <2>2, Zenon
<1>15. Records(n)
  <2>1. UNCHANGED <<link, disk, dirs, known, contended, torn, inPlace, everEnabled>>
    BY <1>2
  <2>2. \A c \in Buckets, k \in Keys :
           \/ objects'[c][k] \in {objects[c][k], <<>>}
           \/ <<c, k>> \in tasks[n].touches /\ tasks[n].pc \notin BucketPcs
    BY <1>11, <1>13, Zenon
  <2> QED BY <2>1, <2>2, <1>9, <1>10, <1>11, <1>12, <1>13, <1>14, Zenon DEF Records
<1> QED BY <1>9, <1>15, RecordsKeeps

-----------------------------------------------------------------------------
(* Requests that start *)

LEMMA Begun ==
    ASSUME IInv, NEW t \in TaskRecords, Begin(t), NEW n, n = Len(tasks) + 1
    PROVE  /\ n \in 1..MaxOps /\ n \notin DOMAIN tasks /\ DOMAIN tasks' = DOMAIN tasks \cup {n}
           /\ tasks' \in Seq(TaskRecords) /\ tasks'[n] = t /\ \A m \in DOMAIN tasks : tasks'[m] = tasks[m]
           /\ Len(tasks') <= MaxOps /\ torn \subseteq torn' /\ contended' \cup torn' \subseteq Buckets \X Keys
           /\ InFlight \subseteq InFlight' /\ InFlight' \subseteq InFlight \cup {n}
           /\ inPlace' = inPlace /\ everEnabled' = everEnabled
<1>1. TypeInv /\ tasks \in Seq(TaskRecords) /\ Len(tasks) < MaxOps /\ MaxOps \in Nat /\ tasks' = Append(tasks, t)
  BY S3Assumption, Zenon DEF IInv, TypeInv, Begin
<1>2. /\ n \in 1..MaxOps /\ n \notin DOMAIN tasks /\ DOMAIN tasks' = DOMAIN tasks \cup {n}
      /\ tasks' \in Seq(TaskRecords) /\ tasks'[n] = t /\ \A m \in DOMAIN tasks : tasks'[m] = tasks[m]
      /\ Len(tasks') <= MaxOps
  BY <1>1
<1>3. InFlight \subseteq InFlight' /\ InFlight' \subseteq InFlight \cup {n}
  BY <1>2 DEF InFlight
<1>4. torn \subseteq torn' /\ inPlace' = inPlace /\ everEnabled' = everEnabled
  BY DEF Begin
<1>5. contended' \cup torn' \subseteq Buckets \X Keys
  <2> DEFINE others == {m \in InFlight : tasks[m].touches \cap t.touches # {}}
             both == UNION {tasks[m].touches \cup t.touches : m \in others}
             tainted == IF t.touches \cap contended = {} THEN {} ELSE t.touches
  <2>1. contended' = contended \cup both \cup tainted /\ torn' \subseteq torn \cup both
    BY DEF Begin
  <2>2. t.touches \subseteq Buckets \X Keys /\ \A m \in DOMAIN tasks : tasks[m].touches \subseteq Buckets \X Keys
    BY <1>1, Numbered, Kinds DEF Touches
  <2>3. both \subseteq Buckets \X Keys BY <2>2 DEF InFlight
  <2>4. contended \cup torn \subseteq Buckets \X Keys BY <1>1, Zenon DEF TypeInv, TypeOK
  <2>5. tainted \subseteq Buckets \X Keys BY <2>2
  <2> HIDE DEF both, tainted
  <2> QED BY <2>1, <2>3, <2>4, <2>5
<1> QED BY <1>2, <1>3, <1>4, <1>5

LEMMA FilesBegun ==
    ASSUME IInv, NEW t \in TaskRecords, Begin(t), NEW n, n = Len(tasks) + 1, UNCHANGED files
    PROVE  FilesInv'
<1>1. /\ n \in 1..MaxOps /\ n \notin DOMAIN tasks /\ DOMAIN tasks' = DOMAIN tasks \cup {n}
      /\ \A m \in DOMAIN tasks : tasks'[m] = tasks[m]
      /\ inPlace' = inPlace /\ FilesInv
  BY Begun DEF IInv
<1>2. link' = link /\ disk' = disk BY DEF files
<1>3. n \in Nat /\ <<n>> # Null /\ <<n, 1>> # Null
  <2>1. n \in Nat BY <1>1
  <2>2. <<n, 1>> \in Nat \X Nat BY <2>1
  <2> QED BY <2>1, <2>2, <1>1, NullAssumption
<1> SUFFICES ASSUME NEW p \in DOMAIN link PROVE FileInv(p)'
  BY <1>1, <1>2 DEF FilesInv
<1>4. FileInv(p) BY <1>1 DEF FilesInv
<1>5. ~IsTmp(p, n)
  <2>1. CASE p \in Paths BY <2>1, <1>1, Names DEF IsTmp
  <2>2. CASE \E m \in DOMAIN tasks : p \in Buckets \X Keys \X {<<m>>}
    BY <2>2, <1>1 DEF IsTmp
  <2> QED BY <2>1, <2>2, <1>4 DEF FileInv
<1>6. p \in Paths => p[3] # <<n, 1>>
  <2> SUFFICES ASSUME p \in Paths, p[3] = <<n, 1>> PROVE FALSE
    OBVIOUS
  <2>1. p[3][1] = n OBVIOUS
  <2>2. p[3][1] \in DOMAIN tasks BY <1>3, <1>4 DEF FileInv
  <2> QED BY <2>1, <2>2, <1>1
<1>7. p \in Paths \/ \E m \in DOMAIN tasks' : p \in Buckets \X Keys \X {<<m>>}
  BY <1>1, <1>4 DEF FileInv
<1>8. \A m \in DOMAIN tasks' : IsTmp(p, m) =>
         /\ link[p] = m /\ m \notin inPlace
         /\ \A q \in DOMAIN link : link[q] = m => q = p
         /\ tasks'[m].pc = "rename" => disk[m] = <<m>>
  BY <1>1, <1>4, <1>5 DEF FileInv
<1>9. p \in Paths =>
         /\ p[3] # Null => p[3][1] \in DOMAIN tasks'
         /\ \A m \in DOMAIN tasks' : p[3] = <<m, 1>> /\ tasks'[m].op = "put" => link[p] = m
         /\ link[p] \notin inPlace => disk[link[p]] = <<link[p]>>
  BY <1>1, <1>4, <1>6 DEF FileInv
<1>10. link[p] \in DOMAIN disk BY <1>4 DEF FileInv
<1> QED BY <1>1, <1>2, <1>7, <1>8, <1>9, <1>10 DEF FileInv, IsTmp

LEMMA DeletionBegun ==
    ASSUME IInv, NEW t, Starts(t), Begin(t), NEW n, n = Len(tasks) + 1, objects' = objects
    PROVE  DeletionInv'
<1> DEFINE others == {m \in InFlight : tasks[m].touches \cap t.touches # {}}
           both == UNION {tasks[m].touches \cup t.touches : m \in others}
<1>1. /\ n \notin DOMAIN tasks /\ DOMAIN tasks' = DOMAIN tasks \cup {n}
      /\ tasks'[n] = t /\ \A m \in DOMAIN tasks : tasks'[m] = tasks[m]
      /\ torn \subseteq torn' /\ InFlight' \subseteq InFlight \cup {n} /\ InFlight \subseteq DOMAIN tasks
  BY Begun DEF Starts, InFlight
<1>2. (t.op = "deleteBucket" \/ \E m \in others : tasks[m].op = "deleteBucket") => both \subseteq torn'
  BY DEF Begin
<1>3. ASSUME NEW m \in others PROVE tasks[m].touches \subseteq both /\ t.touches \subseteq both
  OBVIOUS
<1>4. \A m \in InFlight : m \notin others => tasks[m].touches \cap t.touches = {} OBVIOUS
<1>5. others \subseteq InFlight OBVIOUS
<1> HIDE DEF both, others
<1> SUFFICES ASSUME NEW d \in InFlight', tasks'[d].pc \in BucketPcs
             PROVE  \/ {tasks'[d].b} \X Keys \subseteq torn'
                    \/ /\ \A k \in Keys : objects[tasks'[d].b][k] = <<>>
                       /\ \A m \in InFlight' \ {d} : tasks'[m].touches \cap ({tasks'[d].b} \X Keys) = {}
  BY DEF DeletionInv
<1>6. CASE d = n
  <2>1. /\ tasks'[d] = t /\ t.op = "deleteBucket" /\ t.touches = {t.b} \X Keys
        /\ \A k \in Keys : objects[t.b][k] = <<>>
    BY <1>1, <1>6 DEF Starts
  <2>2. CASE others = {}
    <3>1. ASSUME NEW m \in InFlight' \ {d} PROVE tasks'[m].touches \cap t.touches = {}
      BY <2>2, <1>1, <1>4, <1>6
    <3> QED BY <3>1, <2>1
  <2>3. CASE others # {} BY <2>1, <2>3, <1>2, <1>3
  <2> QED BY <2>2, <2>3
<1>7. CASE d # n
  <2>1. d \in InFlight /\ d \in DOMAIN tasks /\ tasks'[d] = tasks[d] /\ TypeInv /\ TaskInv(d)
    BY <1>1, <1>7 DEF IInv, TasksInv
  <2>2. tasks[d].op = "deleteBucket" /\ tasks[d].touches = {tasks[d].b} \X Keys
    <3>1. tasks[d] \in BucketTasks BY <2>1, Numbered, Kinds
    <3> QED BY <3>1, <2>1 DEF BucketTasks, TaskInv
  <2>3. CASE {tasks[d].b} \X Keys \subseteq torn BY <2>1, <2>3, <1>1
  <2>4. CASE d \in others BY <2>1, <2>2, <2>4, <1>2, <1>3
  <2>5. CASE d \notin others /\ ~({tasks[d].b} \X Keys \subseteq torn)
    <3>1. /\ \A k \in Keys : objects[tasks[d].b][k] = <<>>
          /\ \A m \in InFlight \ {d} : tasks[m].touches \cap ({tasks[d].b} \X Keys) = {}
      BY <2>1, <2>5 DEF DeletionInv, IInv
    <3>2. t.touches \cap ({tasks[d].b} \X Keys) = {} BY <2>1, <2>2, <2>5, <1>4
    <3>3. ASSUME NEW m \in InFlight' \ {d} PROVE tasks'[m].touches \cap ({tasks[d].b} \X Keys) = {}
      BY <3>1, <3>2, <1>1
    <3> QED BY <3>1, <3>3, <2>1
  <2> QED BY <2>3, <2>4, <2>5
<1> QED BY <1>6, <1>7

\* A request that starts disturbs nothing.
LEMMA BeginKeeps ==
    ASSUME IInv, NEW t, Starts(t), Begin(t), UNCHANGED <<meta, files>>, NEW n, n = Len(tasks) + 1, TaskInv(n)'
    PROVE  IInv'
<1>1. /\ n \in 1..MaxOps /\ n \notin DOMAIN tasks /\ DOMAIN tasks' = DOMAIN tasks \cup {n}
      /\ tasks' \in Seq(TaskRecords) /\ tasks'[n] = t /\ \A m \in DOMAIN tasks : tasks'[m] = tasks[m]
      /\ Len(tasks') <= MaxOps /\ torn \subseteq torn' /\ contended' \cup torn' \subseteq Buckets \X Keys
      /\ inPlace' = inPlace /\ everEnabled' = everEnabled
      /\ TypeInv /\ TasksInv /\ VersionsInv /\ CleanupInv /\ DurableInv /\ ReadsInv
  BY Begun DEF Starts, IInv
<1>2. UNCHANGED <<versioning, objects, link, disk, dirs, known>> BY DEF meta, files
<1>3. \A b \in Buckets, k \in Keys : Versions(b, k)' = Versions(b, k) BY <1>2 DEF Versions
<1>4. TypeInv'
  <2>1. versioning' = versioning /\ objects' = objects /\ link' = link /\ disk' = disk /\ dirs' = dirs /\ known' = known
    BY <1>2
  <2> QED BY <2>1, <1>1, Zenon DEF TypeInv, TypeOK
<1>5. TasksInv'
  <2>1. ASSUME NEW m \in DOMAIN tasks PROVE TaskInv(m)'
    <3>1. tasks'[m] = tasks[m] /\ TaskInv(m) BY <1>1 DEF TasksInv
    <3>2. /\ Putting(m)' = Putting(m) /\ Copying(m)' = Copying(m)
          /\ PutInv(m) => PutInv(m)'
          /\ LookupInv(m) => LookupInv(m)'
          /\ CopyInv(m) => CopyInv(m)'
          /\ DeleteInv(m) => DeleteInv(m)'
      BY <3>1, <1>1, <1>2 DEF Putting, Copying, PutInv, LookupInv, CopyInv, DeleteInv
    <3> QED BY <3>1, <3>2 DEF TaskInv
  <2>2. \A m \in DOMAIN tasks' : m = n \/ m \in DOMAIN tasks BY <1>1
  <2> QED BY <2>1, <2>2 DEF TasksInv
<1>6. VersionsInv'
  <2>1. ASSUME NEW b \in Buckets, NEW k \in Keys, NEW v, VersionInv(b, k, v) PROVE VersionInv(b, k, v)'
    BY <2>1, <1>1 DEF VersionInv, Past
  <2> QED BY <2>1, <1>1, <1>2 DEF VersionsInv
<1>7. FilesInv' BY FilesBegun DEF Starts
<1>8. CleanupInv'
  <2> SUFFICES ASSUME NEW m \in DOMAIN tasks', tasks'[m].pc = "cleanup", NEW p \in tasks'[m].remove, p[3] # Null
               PROVE  /\ p[3][1] \in DOMAIN tasks' /\ Past(p[3][1])'
                      /\ \A v \in Versions(p[1], p[2])' : v.data.file # p
    BY DEF CleanupInv
  <2>1. m \in DOMAIN tasks /\ tasks'[m] = tasks[m] BY <1>1 DEF Starts
  <2>2. p[3][1] \in DOMAIN tasks /\ Past(p[3][1]) /\ \A v \in Versions(p[1], p[2]) : v.data.file # p
    BY <2>1, <1>1 DEF CleanupInv
  <2>3. Versions(p[1], p[2])' = Versions(p[1], p[2]) BY <1>2 DEF Versions
  <2> QED BY <2>2, <2>3, <1>1 DEF Past
<1>9. DeletionInv' BY <1>2, DeletionBegun
<1>10. DurableInv'
  <2>1. ASSUME NEW b \in Buckets, NEW k \in Keys, <<b, k>> \notin torn', NEW v \in Versions(b, k)',
               v.vid # Null, ~v.marker, tasks'[v.vid[1]].op = "put", v.data.file # None
        PROVE  v.data.file \in DOMAIN link
    <3>1. v \in Versions(b, k) BY <1>3, <2>1
    <3>2. v.vid[1] \in DOMAIN tasks BY <3>1, <2>1, VersionFile
    <3>3. tasks[v.vid[1]].op = "put" /\ <<b, k>> \notin torn BY <3>2, <2>1, <1>1
    <3> QED BY <3>1, <3>3, <2>1, <1>1 DEF DurableInv, Linked
  <2>2. ASSUME NEW m \in DOMAIN tasks', tasks'[m].op = "put", tasks'[m].pc = "commit", tasks'[m].data.file # None,
               tasks'[m].vid # Null, <<tasks'[m].b, tasks'[m].k>> \notin torn'
        PROVE  tasks'[m].path \in DOMAIN link
    <3>1. m \in DOMAIN tasks /\ tasks'[m] = tasks[m] BY <2>2, <1>1 DEF Starts
    <3>2. <<tasks[m].b, tasks[m].k>> \notin torn BY <3>1, <2>2, <1>1
    <3> QED BY <3>1, <3>2, <2>2, <1>1 DEF DurableInv, Linked
  <2> QED BY <2>1, <2>2, <1>2 DEF DurableInv, Linked
<1>11. ReadsInv'
  <2> SUFFICES ASSUME NEW m \in DOMAIN tasks', tasks'[m].op = "get", tasks'[m] \in GetTasks
               PROVE  LET u == tasks'[m]
                      IN  /\ u.pc = "read" => u.path # None
                          /\ u.vid # Null /\ u.path # None =>
                               /\ u.path[3] = u.vid /\ u.vid[1] \in DOMAIN tasks'
                               /\ tasks'[u.vid[1]].op = "put" => u.etag = <<u.vid[1]>>
                          /\ (u.pc = "done" /\ u.path # None /\ inPlace = {}) =>
                               /\ Len(u.got) = 1
                               /\ u.vid # Null /\ tasks'[u.vid[1]].op = "put" => u.got = u.etag
    BY <1>1 DEF ReadsInv
  <2>1. CASE m = n BY <2>1, <1>1 DEF Starts
  <2>2. CASE m # n
    <3>1. m \in DOMAIN tasks /\ tasks'[m] = tasks[m] BY <2>2, <1>1
    <3>2. PICK u : u = tasks[m] OBVIOUS
    <3>3. /\ u.pc = "read" => u.path # None
          /\ u.vid # Null /\ u.path # None =>
               /\ u.path[3] = u.vid /\ u.vid[1] \in DOMAIN tasks
               /\ tasks[u.vid[1]].op = "put" => u.etag = <<u.vid[1]>>
          /\ (u.pc = "done" /\ u.path # None /\ inPlace = {}) =>
               /\ Len(u.got) = 1
               /\ u.vid # Null /\ tasks[u.vid[1]].op = "put" => u.got = u.etag
      BY <3>1, <3>2, <1>1 DEF ReadsInv
    <3>4. u.vid # Null /\ u.path # None => tasks'[u.vid[1]] = tasks[u.vid[1]]
      BY <3>3, <1>1
    <3> QED BY <3>1, <3>2, <3>3, <3>4, <1>1
  <2> QED BY <2>1, <2>2
<1> QED BY <1>4, <1>5, <1>6, <1>7, <1>8, <1>9, <1>10, <1>11 DEF IInv

LEMMA DeleteBucketCheckKeeps ==
    ASSUME IInv, NEW b \in Buckets, DeleteBucketCheck(b)
    PROVE  IInv'
<1>1. PICK t : t = [op |-> "deleteBucket", pc |-> "deleteBucket", touches |-> {b} \X Keys, b |-> b]
  OBVIOUS
<1>0. PICK n : n = Len(tasks) + 1 OBVIOUS
<1>2. Begin(t) /\ UNCHANGED <<meta, files>> /\ \A k \in Keys : objects[b][k] = <<>>
  BY <1>1 DEF DeleteBucketCheck
<1>3. t \in BucketTasks BY <1>1 DEF BucketTasks, BucketPcs, Touches
<1>4. t.op = "deleteBucket" /\ t.pc = "deleteBucket" /\ t.touches = {b} \X Keys /\ t.b = b
  BY <1>1
<1>5. Starts(t) BY <1>2, <1>3, <1>4 DEF Starts, TaskRecords
<1>6. tasks'[n] = t BY <1>0, <1>2, <1>5, Begun DEF Starts
<1>7. TaskInv(n)' BY <1>4, <1>6 DEF TaskInv, Putting, Copying
<1> QED BY <1>0, <1>2, <1>5, <1>7, BeginKeeps

LEMMA PutPreflightKeeps ==
    ASSUME IInv, NEW b \in Buckets, NEW k \in Keys, NEW kind \in BodyKinds, PutPreflight(b, k, kind)
    PROVE  IInv'
<1>1. PICK n, vid, path, pc, data :
        /\ n = Len(tasks) + 1 /\ vid = NewVersionId(b, n) /\ path = <<b, k, vid>>
        /\ pc = (IF kind = "inline" THEN "commit" ELSE "ensureDir")
        /\ data = (IF kind = "inline" THEN Inline(<<n>>) ELSE FileRef(path))
  OBVIOUS
<1>2. PICK t : t = [op |-> "put", pc |-> pc, touches |-> {<<b, k>>}, b |-> b, k |-> k, vid |-> vid,
                    body |-> <<n>>, etag |-> <<n>>, size |-> BodySize(kind), data |-> data,
                    path |-> path, then |-> "write", after |-> "commit"]
  OBVIOUS
<1>3. Begin(t) /\ UNCHANGED <<meta, files>> BY <1>1, <1>2, Zenon DEF PutPreflight
<1>4. n \in 1..MaxOps /\ n \in Nat /\ n \notin DOMAIN tasks
  <2>1. Len(tasks) < MaxOps BY <1>3 DEF Begin
  <2>2. DOMAIN tasks = 1..Len(tasks) /\ Len(tasks) \in Nat BY Numbered DEF IInv
  <2>3. MaxOps \in Nat BY S3Assumption, Zenon
  <2> QED BY <2>1, <2>2, <2>3, <1>1
<1>5. vid \in {Null, <<n, 1>>} /\ vid \in Vids /\ path \in Paths /\ FileRef(path) \in DataRecords /\ FileRef(path).file = path
  BY <1>1, <1>4, NewName DEF FileRef
<1>6. Inline(<<n>>) \in DataRecords /\ Inline(<<n>>).file = None /\ <<n>> \in Contents
  BY <1>4 DEF Inline, DataRecords, Contents
<1>7. BodySize(kind) \in Nat
  <2>1. Threshold \in Nat BY S3Assumption, Zenon
  <2> QED BY <2>1 DEF BodySize
<1>8. /\ pc \in PutPcs /\ pc \in {"commit", "ensureDir"} /\ data \in DataRecords
      /\ (pc = "commit" /\ data = Inline(<<n>>)) \/ (pc # "commit" /\ data = FileRef(path))
  BY <1>1, <1>5, <1>6 DEF PutPcs
<1>9. {<<b, k>>} \in Touches BY DEF Touches
<1>10. t \in PutTasks BY <1>2, <1>5, <1>6, <1>7, <1>8, <1>9 DEF PutTasks
<1>11. /\ t.op = "put" /\ t.pc = pc /\ t.touches = {<<b, k>>} /\ t.b = b /\ t.k = k /\ t.vid = vid /\ t.body = <<n>>
       /\ t.etag = <<n>> /\ t.data = data /\ t.path = path
  BY <1>2
<1>12. Starts(t) BY <1>6, <1>8, <1>10, <1>11 DEF Starts, TaskRecords, BucketPcs
<1>13. tasks'[n] = t BY <1>1, <1>3, <1>12, Begun DEF Starts
<1>14. n \notin DOMAIN disk' BY <1>3, <1>4 DEF IInv, FilesInv, files
<1>15. PutInv(n)' BY <1>1, <1>5, <1>8, <1>11, <1>13, <1>14 DEF PutInv
<1>16. TaskInv(n)' BY <1>8, <1>11, <1>13, <1>15 DEF TaskInv, Copying, BucketPcs
<1> QED BY <1>1, <1>3, <1>12, <1>16, BeginKeeps

\* What current_arc and get_object_version answer is a version of the key.
LEMMA CurrentIs ==
    ASSUME IInv, NEW b \in Buckets, NEW k \in Keys, Current(objects[b][k]) # None
    PROVE  Current(objects[b][k]) \in Versions(b, k) /\ ~Current(objects[b][k]).marker
<1>1. PICK vs \in Seq(VersionRecords) : vs = objects[b][k]
  <2>1. objects \in [Buckets -> [Keys -> Seq(VersionRecords)]]
    BY Zenon DEF IInv, TypeInv, TypeOK
  <2> QED BY <2>1
<1>2. vs # <<>> /\ ~Head(vs).marker /\ Current(vs) = Head(vs) BY <1>1 DEF Current
<1>3. 1 \in DOMAIN vs /\ Head(vs) = vs[1] BY <1>2
<1> QED BY <1>1, <1>2, <1>3 DEF Versions

LEMMA FoundIs ==
    ASSUME IInv, NEW b \in Buckets, NEW k \in Keys, NEW vid, GetVersion(objects[b][k], vid) # None
    PROVE  GetVersion(objects[b][k], vid) \in Versions(b, k)
<1>1. PICK vs \in Seq(VersionRecords) : vs = objects[b][k]
  <2>1. objects \in [Buckets -> [Keys -> Seq(VersionRecords)]]
    BY Zenon DEF IInv, TypeInv, TypeOK
  <2> QED BY <2>1
<1>2. PICK i \in DOMAIN vs : GetVersion(vs, vid) = vs[i] BY <1>1, GetVersionIs
<1> QED BY <1>1, <1>2 DEF Versions

LEMMA GetObjectKeeps ==
    ASSUME IInv, NEW b \in Buckets, NEW k \in Keys, NEW vid, GetObject(b, k, vid)
    PROVE  IInv'
<1>1. PICK v, n : /\ v = (IF vid = None THEN Current(objects[b][k]) ELSE GetVersion(objects[b][k], vid))
                  /\ n = Len(tasks) + 1
  OBVIOUS
<1>2. PICK pc : pc = (IF v.data.file = None THEN "done" ELSE "read") OBVIOUS
<1>3. PICK t : t = [op |-> "get", pc |-> pc, touches |-> {}, vid |-> v.vid, etag |-> v.etag,
                    got |-> v.data.bytes, path |-> v.data.file]
  OBVIOUS
<1>4. v # None /\ Begin(t) /\ UNCHANGED <<meta, files>>
  BY <1>1, <1>2, <1>3, Zenon DEF GetObject
<1>5. v \in Versions(b, k) BY <1>1, <1>4, CurrentIs, FoundIs
<1>6. /\ v \in VersionRecords /\ v.data \in DataRecords
      /\ VersionInv(b, k, v)
      /\ v.data.file # None => (v.data.file = <<b, k, v.vid>> /\ ~v.marker)
      /\ v.vid # Null => v.vid[1] \in DOMAIN tasks
  BY <1>5, VersionFile DEF VersionInv
<1>7. v.vid \in Vids /\ v.etag \in Contents /\ v.data.bytes \in Contents /\ v.data.file \in Paths \cup {None}
  BY <1>6 DEF VersionRecords, DataRecords
<1>8. pc \in {"read", "done"} /\ (pc = "read" => v.data.file # None) /\ (pc = "done" => v.data.file = None)
  BY <1>2
<1>9. t \in GetTasks BY <1>3, <1>7, <1>8 DEF GetTasks
<1>10. t.op = "get" /\ t.pc = pc /\ t.vid = v.vid /\ t.etag = v.etag /\ t.path = v.data.file
  BY <1>3
<1>11. v.vid # Null /\ v.data.file # None =>
         /\ v.data.file[3] = v.vid /\ v.vid[1] \in DOMAIN tasks
         /\ tasks[v.vid[1]].op = "put" => v.etag = <<v.vid[1]>>
  <2> SUFFICES ASSUME v.vid # Null, v.data.file # None
               PROVE  /\ v.data.file[3] = v.vid /\ v.vid[1] \in DOMAIN tasks
                      /\ tasks[v.vid[1]].op = "put" => v.etag = <<v.vid[1]>>
    OBVIOUS
  <2>1. v.data.file[3] = v.vid BY <1>6
  <2>2. tasks[v.vid[1]].op = "put" => v.etag = <<v.vid[1]>> BY <1>6 DEF VersionInv
  <2> QED BY <2>1, <2>2, <1>6
<1>12. Starts(t) BY <1>8, <1>9, <1>10, <1>11 DEF Starts, TaskRecords, BucketPcs
<1>13. tasks'[n] = t BY <1>1, <1>4, <1>12, Begun DEF Starts
<1>14. TaskInv(n)' BY <1>8, <1>10, <1>13 DEF TaskInv, Putting, Copying, BucketPcs
<1> QED BY <1>1, <1>4, <1>12, <1>14, BeginKeeps

LEMMA DeleteCheckKeeps ==
    ASSUME IInv, NEW b \in Buckets, NEW entries \in Batches(b), DeleteCheck(b, entries)
    PROVE  IInv'
<1>1. PICK t, touched :
        /\ touched = {<<b, entries[i].k>> : i \in DOMAIN entries}
        /\ t = [op |-> "delete", pc |-> "delete", touches |-> touched, b |-> b, entries |-> entries]
  OBVIOUS
<1>0. PICK n : n = Len(tasks) + 1 OBVIOUS
<1>2. Begin(t) /\ UNCHANGED <<meta, files>> BY <1>1, Zenon DEF DeleteCheck
<1>3. entries \in Seq(EntryRecords)
  <2>1. PICK m \in 1..MaxBatch : entries \in [1..m -> UNION {[k : {k}, vid : VersionIds(b, k)] : k \in Keys}]
    BY DEF Batches
  <2>2. ASSUME NEW k \in Keys PROVE VersionIds(b, k) \subseteq Vids \cup {None}
    <3>1. objects \in [Buckets -> [Keys -> Seq(VersionRecords)]]
      BY Zenon DEF IInv, TypeInv, TypeOK
    <3>2. \A i \in DOMAIN objects[b][k] : objects[b][k][i] \in VersionRecords BY <3>1
    <3> QED BY <3>2 DEF VersionIds, VersionRecords
  <2>3. UNION {[k : {k}, vid : VersionIds(b, k)] : k \in Keys} \subseteq EntryRecords
    BY <2>2 DEF EntryRecords
  <2>4. entries \in [1..m -> EntryRecords] BY <2>1, <2>3
  <2>5. m \in Nat BY <2>1
  <2> QED BY <2>4, <2>5
<1>4. touched \in Touches
  <2>1. \A i \in DOMAIN entries : entries[i].k \in Keys
    <3>1. \A i \in DOMAIN entries : entries[i] \in EntryRecords BY <1>3
    <3> QED BY <3>1 DEF EntryRecords
  <2> QED BY <2>1, <1>1 DEF Touches
<1>5. t \in DeleteTasks BY <1>1, <1>3, <1>4 DEF DeleteTasks
<1>6. t.op = "delete" /\ t.pc = "delete" /\ t.touches = touched /\ t.b = b /\ t.entries = entries
  BY <1>1
<1>7. Starts(t) BY <1>5, <1>6 DEF Starts, TaskRecords, BucketPcs
<1>8. tasks'[n] = t BY <1>0, <1>2, <1>7, Begun DEF Starts
<1>9. DeleteInv(n)' BY <1>1, <1>6, <1>8 DEF DeleteInv
<1>10. TaskInv(n)' BY <1>6, <1>8, <1>9 DEF TaskInv, Putting, Copying, BucketPcs
<1> QED BY <1>0, <1>2, <1>7, <1>10, BeginKeeps

LEMMA CopyLookupKeeps ==
    ASSUME IInv, NEW sb \in Buckets, NEW sk \in CopySources, NEW b \in Buckets, NEW k \in Keys, CopyLookup(sb, sk, b, k)
    PROVE  IInv'
<1>1. PICK v, n, path : v = Current(objects[sb][sk]) /\ n = Len(tasks) + 1 /\ path = <<sb, sk, v.vid>>
  OBVIOUS
<1>2. PICK t : t = [op |-> "copy", pc |-> "copyVersioning", touches |-> {<<sb, sk>>, <<b, k>>},
                    b |-> b, k |-> k, src |-> v, srcPath |-> path]
  OBVIOUS
<1>3. v # None /\ Begin(t) /\ UNCHANGED <<meta, files>>
  BY <1>1, <1>2, Zenon DEF CopyLookup
<1>4. sk \in Keys BY S3Assumption, Zenon
<1>5. v \in Versions(sb, sk) /\ ~v.marker BY <1>1, <1>3, <1>4, CurrentIs
<1>6. v \in VersionRecords /\ VersionInv(sb, sk, v) /\ v.data.file \in {None, path} /\ v.vid \in Vids
  BY <1>1, <1>4, <1>5, VersionFile DEF VersionRecords
<1>7. path \in Paths
  <2>1. v.vid # Null => (v.vid[1] \in DOMAIN tasks /\ v.vid[2] = 1)
    BY <1>5, <1>6 DEF VersionInv
  <2>2. DOMAIN tasks \subseteq 1..MaxOps BY Numbered DEF IInv
  <2>3. v.vid # Null => v.vid = <<v.vid[1], v.vid[2]>> BY <1>6 DEF Vids
  <2>4. v.vid \in {Null} \cup ((1..MaxOps) \X {1}) BY <2>1, <2>2, <2>3
  <2> QED BY <2>4, <1>1, <1>4 DEF Paths
<1>8. {<<sb, sk>>, <<b, k>>} \in Touches BY <1>4 DEF Touches
<1>9. t \in LookupTasks BY <1>2, <1>6, <1>7, <1>8 DEF LookupTasks
<1>10. /\ t.op = "copy" /\ t.pc = "copyVersioning" /\ t.touches = {<<sb, sk>>, <<b, k>>} /\ t.b = b /\ t.k = k
       /\ t.src = v /\ t.srcPath = path
  BY <1>2
<1>11. Starts(t) BY <1>9, <1>10 DEF Starts, TaskRecords, BucketPcs
<1>12. tasks'[n] = t BY <1>1, <1>3, <1>11, Begun DEF Starts
<1>13. LookupInv(n)'
  <2>1. KeyOf(path) = <<sb, sk>> /\ path[3] = v.vid BY <1>1 DEF KeyOf
  <2> QED BY <2>1, <1>5, <1>6, <1>10, <1>12 DEF LookupInv, KeyOf
<1>14. TaskInv(n)'
  BY <1>10, <1>12, <1>13 DEF TaskInv, Putting, Copying, CopyPcs, BucketPcs
<1> QED BY <1>1, <1>3, <1>11, <1>14, BeginKeeps

-----------------------------------------------------------------------------
(* The invariant holds *)

\* What happens to buckets disturbs no request.
LEMMA BucketsKeep ==
    ASSUME IInv, UNCHANGED <<objects, link, disk, dirs, known, tasks, contended, torn, inPlace>>,
           versioning' \in [Buckets -> Statuses], everEnabled' \subseteq Buckets
    PROVE  IInv'
<1>1. /\ objects' = objects /\ link' = link /\ disk' = disk /\ dirs' = dirs /\ known' = known /\ tasks' = tasks
      /\ contended' = contended /\ torn' = torn /\ inPlace' = inPlace
  OBVIOUS
<1>2. TypeInv' BY <1>1, Zenon DEF IInv, TypeInv, TypeOK, Statuses
<1>3. TasksInv'
  <2>1. ASSUME NEW m \in DOMAIN tasks PROVE TaskInv(m)'
    <3>1. /\ Putting(m)' = Putting(m) /\ Copying(m)' = Copying(m)
          /\ PutInv(m) => PutInv(m)'
          /\ LookupInv(m) => LookupInv(m)'
          /\ CopyInv(m) => CopyInv(m)'
          /\ DeleteInv(m) => DeleteInv(m)'
      BY <1>1 DEF Putting, Copying, PutInv, LookupInv, CopyInv, DeleteInv
    <3>2. TaskInv(m) BY DEF IInv, TasksInv
    <3> QED BY <3>1, <3>2, <1>1 DEF TaskInv
  <2> QED BY <2>1, <1>1 DEF TasksInv
<1>4. VersionsInv' BY <1>1 DEF IInv, VersionsInv, VersionInv, Past
<1>5. FilesInv'
  <2>1. ASSUME NEW p \in DOMAIN link PROVE FileInv(p)'
    <3>1. FileInv(p) BY DEF IInv, FilesInv
    <3> QED BY <3>1, <1>1 DEF FileInv, IsTmp
  <2> QED BY <2>1, <1>1 DEF IInv, FilesInv
<1>6. CleanupInv' BY <1>1 DEF IInv, CleanupInv, Past, Versions
<1>7. DeletionInv' BY <1>1 DEF IInv, DeletionInv, InFlight
<1>8. DurableInv' BY <1>1 DEF IInv, DurableInv, Versions, Linked
<1>9. ReadsInv' BY <1>1 DEF IInv, ReadsInv
<1> QED BY <1>2, <1>3, <1>4, <1>5, <1>6, <1>7, <1>8, <1>9 DEF IInv

LEMMA BucketNextKeeps ==
    ASSUME IInv, NEW b \in Buckets, BucketNext(b)
    PROVE  IInv'
<1>1. versioning \in [Buckets -> Statuses] /\ everEnabled \subseteq Buckets
  BY Zenon DEF IInv, TypeInv, TypeOK, Statuses
<1>2. CASE CreateBucket(b)
  <2>1. PICK s \in Statuses : versioning' = [versioning EXCEPT ![b] = s]
    BY <1>2, Zenon DEF CreateBucket, Statuses
  <2>3. UNCHANGED <<objects, files, tasks, history>> BY <1>2, Zenon DEF CreateBucket
  <2>4. /\ UNCHANGED <<objects, link, disk, dirs, known, tasks, contended, torn, inPlace>>
        /\ everEnabled' \subseteq Buckets
    BY <2>3, <1>1 DEF files, history
  <2>2. versioning' \in [Buckets -> Statuses] BY <2>1, <1>1
  <2> QED BY <2>2, <2>4, BucketsKeep
<1>3. ASSUME NEW status \in Versionings, PutBucketVersioning(b, status) PROVE IInv'
  <2>1. /\ versioning' = [versioning EXCEPT ![b] = status]
        /\ UNCHANGED <<objects, link, disk, dirs, known, tasks, contended, torn, inPlace>>
        /\ everEnabled' \subseteq everEnabled \cup {b}
    BY <1>3 DEF PutBucketVersioning, files
  <2>2. versioning' \in [Buckets -> Statuses]
    <3>1. status \in Statuses BY Zenon DEF Statuses
    <3> QED BY <3>1, <2>1, <1>1
  <2>3. everEnabled' \subseteq Buckets BY <2>1, <1>1
  <2> QED BY <2>1, <2>2, <2>3, BucketsKeep
<1>4. CASE DeleteBucketCheck(b) BY <1>4, DeleteBucketCheckKeeps
<1> QED BY <1>2, <1>3, <1>4 DEF BucketNext

LEMMA ObjectNextKeeps ==
    ASSUME IInv, NEW b \in Buckets, ObjectNext(b)
    PROVE  IInv'
<1>1. ASSUME NEW k \in Keys, NEW kind \in BodyKinds, PutPreflight(b, k, kind) PROVE IInv'
  BY <1>1, PutPreflightKeeps
<1>2. ASSUME NEW k \in Keys, NEW vid \in VersionIds(b, k), GetObject(b, k, vid) PROVE IInv'
  BY <1>2, GetObjectKeeps
<1>3. ASSUME NEW entries \in Batches(b), DeleteCheck(b, entries) PROVE IInv'
  BY <1>3, DeleteCheckKeeps
<1>4. ASSUME NEW sb \in Buckets, NEW sk \in CopySources, NEW k \in Keys, CopyLookup(sb, sk, b, k) PROVE IInv'
  BY <1>4, CopyLookupKeeps
<1> QED BY <1>1, <1>2, <1>3, <1>4 DEF ObjectNext

LEMMA TaskStepKeeps ==
    ASSUME IInv, NEW n \in DOMAIN tasks, TaskStep(n)
    PROVE  IInv'
<1>1. CASE FileStoreStep(n)
  <2>1. ASSUME NEW path \in tasks[n].remove, RemoveFile(n, path) PROVE IInv'
    BY <2>1, RemoveFileKeeps
  <2> QED BY <1>1, <2>1, EnsureDirKeeps, RememberDirKeeps, WriteTmpKeeps, WriteFailsKeeps, RenameKeeps DEF FileStoreStep
<1>2. CASE DeleteBucketMeta(n) \/ RemoveBucketDir(n) \/ ForgetDirs(n)
  BY <1>2, DeleteBucketMetaKeeps, RemoveBucketDirKeeps, ForgetDirsKeeps
<1>3. CASE CommitPut(n) \/ ReadFile(n) \/ DeleteMeta(n) \/ Cancel(n)
  BY <1>3, CommitPutKeeps, ReadFileKeeps, DeleteMetaKeeps, CancelKeeps
<1>4. CASE CopyVersioning(n) \/ CopyRead(n) \/ CopyResolve(n) \/ CopyLink(n) \/ CopyFill(n) \/ CommitCopy(n)
  BY <1>4, CopyVersioningKeeps, CopyReadKeeps, CopyResolveKeeps, CopyLinkKeeps, CopyFillKeeps, CommitCopyKeeps
<1> QED BY <1>1, <1>2, <1>3, <1>4 DEF TaskStep

LEMMA InitHolds == Init => IInv
<1> SUFFICES ASSUME Init PROVE IInv
  OBVIOUS
<1>1. /\ versioning = [b \in Buckets |-> None] /\ objects = [b \in Buckets |-> [k \in Keys |-> <<>>]]
      /\ link = <<>> /\ disk = <<>> /\ dirs = {} /\ known = {} /\ tasks = <<>> /\ contended = {} /\ torn = {}
      /\ inPlace = {} /\ everEnabled = {}
  BY DEF Init
<1>2. DOMAIN tasks = {} /\ DOMAIN link = {} /\ DOMAIN disk = {} /\ Len(tasks) = 0 /\ tasks \in Seq(TaskRecords)
  BY <1>1
<1>3. objects \in [Buckets -> [Keys -> Seq(VersionRecords)]] /\ \A b \in Buckets, k \in Keys : objects[b][k] = <<>>
  BY <1>1
<1>4. TypeInv
  <2>1. versioning \in [Buckets -> Statuses]
    <3>1. None \in Statuses BY Zenon DEF Statuses
    <3> QED BY <3>1, <1>1
  <2>2. disk \in [DOMAIN disk -> Contents] BY <1>1
  <2>3. Len(tasks) <= MaxOps
    <3>1. MaxOps \in Nat BY S3Assumption, Zenon
    <3> QED BY <3>1, <1>2
  <2>4. /\ known \cup dirs \subseteq Buckets \X (Keys \cup Nat) /\ contended \cup torn \subseteq Buckets \X Keys
        /\ inPlace \subseteq DOMAIN disk /\ everEnabled \subseteq Buckets
    BY <1>1
  <2>5. \A p \in DOMAIN link : link[p] \in DOMAIN disk /\ p[1] \in Buckets BY <1>2
  <2> QED BY <2>1, <2>2, <2>3, <2>4, <2>5, <1>2, <1>3, Zenon DEF TypeInv, TypeOK, Statuses
<1>5. \A b \in Buckets, k \in Keys : Versions(b, k) = {} BY <1>3 DEF Versions
<1>6. TasksInv /\ FilesInv /\ CleanupInv /\ ReadsInv
  BY <1>1, <1>2 DEF TasksInv, FilesInv, CleanupInv, ReadsInv
<1>7. VersionsInv BY <1>3 DEF VersionsInv
<1>8. DeletionInv BY <1>2 DEF DeletionInv, InFlight
<1>9. DurableInv BY <1>2, <1>5 DEF DurableInv
<1> QED BY <1>4, <1>6, <1>7, <1>8, <1>9 DEF IInv

\* Whatever requests race, fail or are dropped: what a request has read stays what it was, what is
\* to be removed is no version's file, temporary files have one name, and so on.
THEOREM Invariant == Spec => []IInv
<1>1. ASSUME IInv, [Next]_vars PROVE IInv'
  <2>1. CASE UNCHANGED vars
    <3>1. /\ UNCHANGED <<objects, link, disk, dirs, known, tasks, contended, torn, inPlace>>
          /\ versioning' = versioning /\ everEnabled' = everEnabled
      BY <2>1 DEF vars
    <3>2. versioning' \in [Buckets -> Statuses] /\ everEnabled' \subseteq Buckets
      BY <3>1, <1>1, Zenon DEF IInv, TypeInv, TypeOK, Statuses
    <3> QED BY <3>1, <3>2, <1>1, BucketsKeep
  <2>2. ASSUME NEW b \in Buckets, BucketNext(b) \/ ObjectNext(b) PROVE IInv'
    BY <1>1, <2>2, BucketNextKeeps, ObjectNextKeeps
  <2>3. ASSUME NEW n \in DOMAIN tasks, TaskStep(n) PROVE IInv'
    BY <1>1, <2>3, TaskStepKeeps
  <2> QED BY <1>1, <2>1, <2>2, <2>3 DEF Next
<1> QED BY <1>1, InitHolds, PTL DEF Spec

\* A version PutObject stored under an id of its own keeps its bytes until its metadata is gone,
\* unless its bucket is deleted meanwhile or CopyObject writes over its file.
THEOREM Durability == Spec => []VersionsAreDurable
<1>1. ASSUME IInv PROVE VersionsAreDurable
  <2>1. TypeOK /\ TypeInv /\ VersionsInv /\ FilesInv /\ DurableInv
    BY <1>1 DEF IInv, TypeInv
  <2>2. ASSUME NEW b \in Buckets, NEW k \in Keys, <<b, k>> \notin torn, NEW v \in Versions(b, k), v.vid # Null, ~v.marker,
               tasks[v.vid[1]].op = "put", ~Overwritten(v)
        PROVE  Backed(v)
    <3>1. PICK n \in DOMAIN tasks : n = v.vid[1] BY <1>1, <2>2, VersionFile
    <3>2. v.etag = <<n>> /\ (v.data.file = None => v.data.bytes = <<n>>) /\ v.vid[2] = 1
      BY <3>1, <1>1, <2>2, VersionFile DEF VersionInv
    <3>3. CASE v.data.file = None BY <3>2, <3>3 DEF Backed
    <3>4. CASE v.data.file # None
      <4>1. PICK p \in Paths : p = v.data.file /\ p = <<b, k, v.vid>>
        BY <3>4, <1>1, <2>2, VersionFile
      <4>2. p \in DOMAIN link /\ link[p] \notin inPlace
        BY <4>1, <3>4, <2>1, <2>2 DEF DurableInv, Linked, Overwritten
      <4>3. v.vid = <<n, 1>>
        <5>1. v \in VersionRecords BY <1>1, <2>2, VersionFile
        <5>2. v.vid \in Nat \X Nat BY <5>1, <2>2 DEF VersionRecords, Vids
        <5> QED BY <5>2, <3>1, <3>2
      <4>4. p[3] = <<n, 1>> BY <4>1, <4>3
      <4>5. FileInv(p) BY <4>2, <2>1 DEF FilesInv
      <4>6. link[p] = n /\ disk[link[p]] = <<link[p]>>
        BY <4>2, <4>4, <4>5, <3>1, <2>2 DEF FileInv
      <4> QED BY <4>1, <4>2, <4>6, <3>2, <3>4 DEF Backed, Linked
    <3> QED BY <3>3, <3>4
  <2> QED BY <2>1, <2>2 DEF VersionsAreDurable
<1> QED BY <1>1, Invariant, PTL

\* A body read from a file is one body some client sent, and that of an id of its own fits its ETag,
\* as long as CopyObject has written over no file.
THEOREM WholeReads == Spec => []ReadsAreWhole
<1>1. ASSUME IInv PROVE ReadsAreWhole
  <2> SUFFICES ASSUME NEW n \in DOMAIN tasks, tasks[n].op = "get", tasks[n].pc = "done", tasks[n] # Done("get"), inPlace = {}
               PROVE  LET t == tasks[n]
                      IN  /\ t.path # None => Len(t.got) = 1
                          /\ (t.vid # Null /\ t.path # None /\ tasks[t.vid[1]].op = "put") => t.got = t.etag
    BY DEF ReadsAreWhole
  <2>1. tasks[n] \in TaskRecords /\ ReadsInv BY <1>1, Numbered DEF IInv
  <2>2. tasks[n] \in GetTasks
    <3>1. CASE tasks[n] \in EndedTasks BY <3>1 DEF EndedTasks, Done
    <3>2. tasks[n] \notin PutTasks /\ tasks[n] \notin LookupTasks /\ tasks[n] \notin CopyTasks /\ tasks[n] \notin CleanupTasks
          /\ tasks[n] \notin BucketTasks /\ tasks[n] \notin DeleteTasks
      BY DEF PutTasks, LookupTasks, CopyTasks, CleanupTasks, BucketTasks, DeleteTasks
    <3> QED BY <3>1, <3>2, <2>1 DEF TaskRecords
  <2> QED BY <2>1, <2>2 DEF ReadsInv
<1> QED BY <1>1, Invariant, PTL

-----------------------------------------------------------------------------
(* What a step leaves alone *)

LEMMA UnsharedStays ==
    ASSUME NEW P, Changes(P), NEW q \in Paths, q \notin P, Linked(q), Unshared(q)
    PROVE  Linked(q)' /\ link'[q] = link[q] /\ Unshared(q)'
<1>1. q \in DOMAIN link /\ q \in DOMAIN link' /\ link'[q] = link[q] BY DEF Changes, Linked
<1>2. ~\E r \in P : r \in DOMAIN link /\ link[r] = link[q] BY DEF Unshared
<1>3. /\ link[q] \in inPlace' => link[q] \in inPlace
      /\ \A p \in DOMAIN link' : link'[p] = link[q] => p \in DOMAIN link /\ link[p] = link[q]
  BY <1>1, <1>2 DEF Changes
<1> QED BY <1>1, <1>3 DEF Unshared, Linked

LEMMA FileStays ==
    ASSUME NEW P, Changes(P), NEW v \in VersionRecords, v.data.file # None, v.data.file \notin P, FileAgrees(v)
    PROVE  FileAgrees(v)'
<1> DEFINE p == v.data.file
<1>1. p \in Paths /\ p \notin P /\ Linked(p) /\ (link[p] \in inPlace \/ v.etag = <<link[p]>>)
  BY DEF VersionRecords, DataRecords, FileAgrees
<1>2. p \in DOMAIN link' /\ link'[p] = link[p] /\ inPlace \subseteq inPlace'
  BY <1>1 DEF Changes, Linked
<1>3. v.size <= Threshold => Unshared(p)' BY <1>1, UnsharedStays DEF FileAgrees
<1> QED BY <1>1, <1>2, <1>3 DEF FileAgrees, Linked

LEMMA HeldStays ==
    ASSUME NEW n, Others(n), NEW p
    PROVE  /\ KeepsHold(n, p) /\ Held(p) => Held(p)'
           /\ KeepsRemoval(n, p) /\ (\E m \in DOMAIN tasks : Removes(m, p)) => (\E m \in DOMAIN tasks' : Removes(m, p)')
<1>1. ASSUME KeepsHold(n, p), NEW m \in DOMAIN tasks, Holds(m, p) PROVE m \in DOMAIN tasks' /\ Holds(m, p)'
  BY <1>1 DEF Others, KeepsHold, Holds
<1>2. ASSUME KeepsRemoval(n, p), NEW m \in DOMAIN tasks, Removes(m, p) PROVE m \in DOMAIN tasks' /\ Removes(m, p)'
  BY <1>2 DEF Others, KeepsRemoval, Removes
<1> QED BY <1>1, <1>2 DEF Held

\* The versions of a key stay, and so do their files or somebody has them in hand.
LEMMA KeyFiles ==
    ASSUME IInv, NEW n, Others(n), NEW b \in Buckets, NEW k \in Keys,
           objects'[b][k] = objects[b][k], everEnabled \subseteq everEnabled', AgreeAt(b, k), ClaimedAt(b, k),
           \A p \in Paths : KeyOf(p) = <<b, k>> =>
               KeepsHold(n, p) /\ (Linked(p)' => Held(p)' \/ (Linked(p) /\ KeepsRemoval(n, p))),
           \A v \in Versions(b, k) : v.data.file # None => Held(v.data.file)' \/ (FileAgrees(v) => FileAgrees(v)')
    PROVE  AgreeAt(b, k)' /\ ClaimedAt(b, k)'
<1>0. Versions(b, k)' = Versions(b, k) BY DEF Versions
<1>1. ASSUME NEW v \in Versions(b, k) PROVE Agrees(v)'
  <2>1. v \in VersionRecords /\ v.data.file \in {None, <<b, k, v.vid>>} /\ Agrees(v)
    BY VersionTypes DEF IInv, VersionsInv, VersionInv, Versions, AgreeAt
  <2>2. CASE v.data.file = None BY <2>1, <2>2 DEF Agrees
  <2>3. CASE v.data.file # None
    <3>1. v.data.file \in Paths /\ KeyOf(v.data.file) = <<b, k>>
      BY <2>1, <2>3 DEF VersionRecords, DataRecords, KeyOf
    <3>2. Held(v.data.file) => Held(v.data.file)' BY <3>1, HeldStays
    <3> QED BY <3>2, <2>1, <2>3 DEF Agrees
  <2> QED BY <2>2, <2>3
<1>2. ASSUME b \notin everEnabled', NEW p \in Paths, p = <<b, k, Null>>, Linked(p)' PROVE Claimed(b, k, p)'
  <2>1. KeyOf(p) = <<b, k>> BY <1>2 DEF KeyOf
  <2>2. CASE Held(p)' BY <2>2 DEF Claimed
  <2>3. CASE ~Held(p)'
    <3>1. Linked(p) /\ KeepsHold(n, p) /\ KeepsRemoval(n, p) BY <2>1, <2>3, <1>2
    <3>2. Claimed(b, k, p) BY <3>1, <1>2 DEF ClaimedAt
    <3> QED BY <3>1, <3>2, <1>0, HeldStays DEF Claimed
  <2> QED BY <2>2, <2>3
<1> QED BY <1>0, <1>1, <1>2 DEF AgreeAt, ClaimedAt

LEMMA KeyStays ==
    ASSUME IInv, NEW n, Others(n), NEW P, Changes(P), NEW b \in Buckets, NEW k \in Keys,
           objects'[b][k] = objects[b][k], everEnabled \subseteq everEnabled', AgreeAt(b, k), ClaimedAt(b, k),
           \A p \in Paths : KeyOf(p) = <<b, k>> => KeepsHold(n, p) /\ KeepsRemoval(n, p) /\ (p \notin P \/ Held(p)')
    PROVE  AgreeAt(b, k)' /\ ClaimedAt(b, k)'
<1>1. ASSUME NEW p \in Paths, KeyOf(p) = <<b, k>>
      PROVE  KeepsHold(n, p) /\ (Linked(p)' => Held(p)' \/ (Linked(p) /\ KeepsRemoval(n, p)))
  BY <1>1 DEF Changes, Linked
<1>2. ASSUME NEW v \in Versions(b, k), v.data.file # None PROVE Held(v.data.file)' \/ (FileAgrees(v) => FileAgrees(v)')
  <2>1. v \in VersionRecords /\ v.data.file \in {None, <<b, k, v.vid>>}
    BY VersionTypes DEF IInv, VersionsInv, VersionInv, Versions
  <2>2. v.data.file \in Paths /\ KeyOf(v.data.file) = <<b, k>>
    BY <2>1, <1>2 DEF VersionRecords, DataRecords, KeyOf
  <2> QED BY <2>1, <2>2, <1>2, FileStays
<1> QED BY <1>1, <1>2, KeyFiles

\* What a request holds and removes is of keys it touches.
LEMMA InHand ==
    ASSUME IInv, NEW m \in DOMAIN tasks, NEW p \in Paths, Holds(m, p) \/ Removes(m, p)
    PROVE  /\ KeyOf(p) \in tasks[m].touches
           /\ Holds(m, p) => p = tasks[m].path /\ (Putting(m) \/ Copying(m))
<1>1. tasks[m] \in TaskRecords /\ TaskInv(m) BY Numbered DEF IInv, TasksInv
<1>2. p # None BY NoneAssumption
<1>3. CASE Removes(m, p) BY <1>1, <1>3 DEF Removes, TaskInv, Holds
<1>4. CASE Holds(m, p)
  <2>1. tasks[m] \in PutTasks \cup CopyTasks BY <1>1, <1>4, Kinds DEF Holds
  <2>2. CASE tasks[m] \in PutTasks
    <3>1. PutInv(m) /\ Putting(m) BY <2>2, <1>1 DEF TaskInv, Putting, PutTasks
    <3>2. p = tasks[m].path BY <3>1, <1>2, <1>4 DEF PutInv, Holds, Inline, FileRef
    <3> QED BY <3>1, <3>2 DEF PutInv, KeyOf
  <2>3. CASE tasks[m] \in CopyTasks
    <3>1. CopyInv(m) /\ Copying(m) BY <2>3, <1>1 DEF TaskInv, Copying, CopyTasks
    <3>2. p = tasks[m].path BY <3>1, <1>2, <1>4 DEF CopyInv, Holds
    <3> QED BY <3>1, <3>2 DEF CopyInv, KeyOf
  <2> QED BY <2>1, <2>2, <2>3
<1> QED BY <1>3, <1>4

\* What a copy reads from is of a key it touches.
LEMMA SourceTouched ==
    ASSUME IInv, NEW m \in DOMAIN tasks, Copying(m) \/ tasks[m].pc = "copyVersioning"
    PROVE  KeyOf(tasks[m].srcPath) \in tasks[m].touches
BY DEF IInv, TasksInv, TaskInv, LookupInv, CopyInv

LEMMA QuietTaskStays ==
    ASSUME IInv, NEW m \in DOMAIN tasks, QuietTask(m), tasks'[m] = tasks[m], NEW P, Changes(P), Spared(m, P)
    PROVE  QuietTask(m)'
<1>1. Putting(m)' = Putting(m) /\ Copying(m)' = Copying(m) BY DEF Putting, Copying
<1>2. \A p \in Paths : (Holds(m, p)' <=> Holds(m, p)) /\ (Removes(m, p)' <=> Removes(m, p))
  BY DEF Holds, Removes
<1>3. ASSUME NEW b \in Buckets, NEW k \in Keys, <<b, k>> \in tasks[m].touches
      PROVE  Versions(b, k)' = Versions(b, k) /\ (versioning[b] # None => versioning'[b] # None)
  BY <1>3 DEF Spared, Versions
<1>4. ASSUME NEW p \in Paths, Holds(m, p)
      PROVE  p \notin P /\ (Linked(p) => Linked(p)' /\ link'[p] = link[p])
  <2>1. KeyOf(p) \in tasks[m].touches BY <1>4, InHand
  <2>2. p \notin P BY <2>1 DEF Spared
  <2> QED BY <2>2 DEF Changes, Linked
<1>5. ASSUME Putting(m) PROVE QuietPut(m)'
  <2>1. tasks[m].touches = {<<tasks[m].b, tasks[m].k>>} /\ tasks[m].b \in Buckets /\ tasks[m].k \in Keys
    BY <1>5, Numbered, Writers DEF IInv, TasksInv, TaskInv, PutInv, PutTasks
  <2>2. QuietPut(m) BY <1>5 DEF QuietTask
  <2>3. ASSUME NEW b \in Buckets, b = tasks[m].b PROVE versioning'[b] # None
    BY <2>1, <2>2, <2>3, <1>3 DEF QuietPut
  <2>4. ASSUME NEW p \in Paths, tasks[m].pc = "commit", tasks[m].data.file = p
        PROVE  Linked(p)' /\ link'[p] = m /\ Unshared(p)'
    <3>1. Holds(m, p) /\ Linked(p) /\ link[p] = m /\ Unshared(p)
      BY <2>2, <2>4 DEF Holds, QuietPut
    <3>2. p \notin P BY <3>1, <1>4
    <3> QED BY <3>1, <3>2, UnsharedStays
  <2> QED BY <2>3, <2>4 DEF QuietPut
<1>6. ASSUME Copying(m) \/ tasks[m].pc = "copyVersioning" PROVE QuietCopy(m)'
  <2>1. QuietCopy(m) BY <1>6 DEF QuietTask
  <2>2. ASSUME HasSource(m) PROVE HasSource(m)'
    <3>1. PICK b \in Buckets, k \in Keys : KeyOf(tasks[m].srcPath) = <<b, k>> /\ \E v \in Versions(b, k) : SourceIs(m, v)
      BY <2>2 DEF HasSource
    <3>2. PICK v \in Versions(b, k) : SourceIs(m, v) BY <3>1
    <3>3. Versions(b, k)' = Versions(b, k) BY <3>1, <1>3, <1>6, SourceTouched
    <3>4. SourceIs(m, v)' BY <3>2 DEF SourceIs
    <3> QED BY <3>1, <3>3, <3>4 DEF HasSource
  <2>3. ASSUME NEW p \in Paths, Holds(m, p)
        PROVE  Linked(p)' /\ (link'[p] \in inPlace' \/ (tasks[m].pc = "commit" /\ tasks[m].etag = <<link'[p]>>))
    <3>1. Linked(p) /\ (link[p] \in inPlace \/ (tasks[m].pc = "commit" /\ tasks[m].etag = <<link[p]>>))
      BY <2>1, <2>3 DEF QuietCopy
    <3>2. Linked(p)' /\ link'[p] = link[p] /\ inPlace \subseteq inPlace'
      BY <3>1, <2>3, <1>4 DEF Changes
    <3> QED BY <3>1, <3>2
  <2> QED BY <2>1, <2>2, <2>3, <1>2 DEF QuietCopy
<1>7. ASSUME NEW p \in Paths, Removes(m, p), NEW b \in Buckets, NEW k \in Keys, KeyOf(p) = <<b, k>>,
             NEW v \in Versions(b, k)'
      PROVE  v.data.file # p
  <2>1. <<b, k>> \in tasks[m].touches BY <1>7, InHand
  <2>2. v \in Versions(b, k) BY <2>1, <1>3, <1>7
  <2> QED BY <2>2, <1>7 DEF QuietTask
<1> QED BY <1>1, <1>2, <1>5, <1>6, <1>7 DEF QuietTask

LEMMA Alone ==
    ASSUME ContentionInv, NEW m \in InFlight, NEW n \in InFlight, m # n, Quiet(m) \/ Quiet(n)
    PROVE  tasks[m].touches \cap tasks[n].touches = {}
BY DEF ContentionInv, Quiet

LEMMA ContentionStays ==
    ASSUME TypeInv, ContentionInv, NEW n, NEW P, Within(n, P)
    PROVE  ContentionInv'
<1>1. /\ n \in InFlight /\ InFlight' \subseteq InFlight /\ torn' = torn
      /\ \A m \in InFlight' : tasks'[m].touches = tasks[m].touches
      /\ contended \subseteq contended' /\ contended' \in {contended, contended \cup tasks[n].touches}
      /\ contended' = contended \/ n \notin InFlight'
  BY FlightsStay DEF Within, Moves, InFlight
<1>2. ASSUME NEW m \in InFlight' PROVE Quiet(m)' \/ tasks'[m].touches \subseteq contended'
  <2>1. CASE contended' = contended BY <2>1, <1>1, <1>2 DEF ContentionInv, Quiet
  <2>2. CASE contended' # contended
    <3>1. m # n /\ m \in InFlight BY <2>2, <1>1, <1>2
    <3>2. CASE tasks[m].touches \cap tasks[n].touches = {}
      BY <3>1, <3>2, <1>1, <1>2 DEF ContentionInv, Quiet
    <3>3. CASE tasks[m].touches \cap tasks[n].touches # {}
      BY <3>1, <3>3, <1>1, <1>2 DEF ContentionInv
    <3> QED BY <3>2, <3>3
  <2> QED BY <2>1, <2>2
<1>3. ASSUME NEW l \in InFlight', NEW m \in InFlight', l # m, tasks'[l].touches \cap tasks'[m].touches # {}
      PROVE  tasks'[l].touches \subseteq contended'
  BY <1>1, <1>3 DEF ContentionInv
<1> QED BY <1>1, <1>2, <1>3 DEF ContentionInv

\* What a step has to show of a request that nobody races with.
LEMMA WithinKeeps ==
    ASSUME IInv, QInv, NEW n, NEW P, Within(n, P), UnversionedInv',
           Quiet(n) /\ contended' = contended => InOrder(n)
    PROVE  QInv'
<1>1. TypeInv /\ ContentionInv /\ KeysInv /\ QuietTasksInv BY DEF IInv, QInv
<1>2. ContentionInv' BY <1>1, ContentionStays
<1>3. Others(n) /\ n \in InFlight /\ n \in DOMAIN tasks /\ contended \subseteq contended' /\ everEnabled' = everEnabled
      /\ Changes(P)
  BY DEF Within, Moves, Others, InFlight
<1>4. ASSUME NEW b \in Buckets, NEW k \in Keys, <<b, k>> \notin contended' PROVE AgreeAt(b, k)' /\ ClaimedAt(b, k)'
  <2>1. CASE <<b, k>> \notin tasks[n].touches
    <3>1. ASSUME NEW p \in Paths, KeyOf(p) = <<b, k>> PROVE p \notin P /\ KeepsHold(n, p) /\ KeepsRemoval(n, p)
      <4>1. ~Holds(n, p) /\ ~Removes(n, p) BY <2>1, <3>1, <1>3, InHand
      <4> QED BY <4>1, <2>1, <3>1 DEF Within, KeepsHold, KeepsRemoval
    <3>2. objects'[b][k] = objects[b][k] BY <2>1 DEF Within
    <3>3. AgreeAt(b, k) /\ ClaimedAt(b, k) BY <1>1, <1>3, <1>4 DEF KeysInv
    <3> QED BY <3>1, <3>2, <3>3, <1>3, KeyStays
  <2>2. CASE <<b, k>> \in tasks[n].touches
    <3>1. contended' = contended BY <2>2, <1>4 DEF Within
    <3>2. Quiet(n) BY <3>1, <2>2, <1>1, <1>3, <1>4 DEF ContentionInv
    <3> QED BY <3>1, <3>2, <2>2 DEF InOrder
  <2> QED BY <2>1, <2>2
<1>5. ASSUME NEW m \in InFlight', Quiet(m)' PROVE QuietTask(m)'
  <2>1. CASE m = n
    <3>1. contended' = contended /\ tasks'[n].touches = tasks[n].touches
      BY <2>1, <1>5 DEF Within
    <3>2. Quiet(n) BY <3>1, <2>1, <1>5 DEF Quiet
    <3> QED BY <3>1, <3>2, <2>1, <1>5 DEF InOrder
  <2>2. CASE m # n
    <3>1. m \in InFlight /\ m \in DOMAIN tasks /\ tasks'[m] = tasks[m]
      BY <2>2, <1>5 DEF Within, Moves, InFlight
    <3>2. Quiet(m) BY <3>1, <1>3, <1>5 DEF Quiet
    <3>3. tasks[m].touches \cap tasks[n].touches = {}
      BY <3>1, <3>2, <2>2, <1>1, <1>3, Alone
    <3>4. Spared(m, P) BY <3>3 DEF Spared, Within
    <3>5. QuietTask(m) BY <3>1, <3>2, <1>1 DEF QuietTasksInv
    <3> QED BY <3>1, <3>4, <3>5, <1>3, QuietTaskStays
  <2> QED BY <2>1, <2>2
<1> QED BY <1>2, <1>4, <1>5 DEF QInv, KeysInv, QuietTasksInv

LEMMA UnversionedStays ==
    ASSUME UnversionedInv, NEW n, Moves(n), everEnabled' = everEnabled,
           \A b \in Buckets : versioning'[b] \in {versioning[b], None},
           \A b \in Buckets, k \in Keys : b \notin everEnabled => \A v \in Versions(b, k)' : v.vid = Null,
           (Putting(n)' \/ Copying(n)') /\ tasks'[n].b \notin everEnabled => tasks'[n].vid = Null
    PROVE  UnversionedInv'
<1>1. \A b \in Buckets : versioning'[b] = "Enabled" => b \in everEnabled
  BY S3Assumption DEF UnversionedInv
<1>2. ASSUME NEW m \in DOMAIN tasks, (Putting(m)' \/ Copying(m)') /\ tasks'[m].b \notin everEnabled
      PROVE  tasks'[m].vid = Null
  <2>1. CASE m = n BY <2>1, <1>2
  <2>2. CASE m # n
    <3>1. tasks'[m] = tasks[m] BY <2>2 DEF Moves
    <3> QED BY <3>1, <1>2 DEF UnversionedInv, Putting, Copying
  <2> QED BY <2>1, <2>2
<1>3. DOMAIN tasks' = DOMAIN tasks BY DEF Moves
<1> QED BY <1>1, <1>2, <1>3 DEF UnversionedInv

-----------------------------------------------------------------------------
(* Steps that change no object and no file it may have *)

LEMMA Unwritten ==
    ASSUME link' = link, inPlace' = inPlace
    PROVE  Changes({})
BY DEF Changes

LEMMA UnderwayKeeps ==
    ASSUME IInv, QInv, NEW n, Underway(n), Quiet(n) /\ n \in InFlight' => QuietTask(n)',
           (Putting(n)' \/ Copying(n)') /\ tasks'[n].b \notin everEnabled => tasks'[n].vid = Null
    PROVE  QInv'
<1>1. Within(n, {}) BY DEF Underway, Within
<1>2. UnversionedInv'
  <2>1. /\ \A b \in Buckets : versioning'[b] \in {versioning[b], None}
        /\ \A b \in Buckets, k \in Keys : b \notin everEnabled => \A v \in Versions(b, k)' : v.vid = Null
    BY DEF Underway, QInv, UnversionedInv, Versions
  <2>2. UnversionedInv /\ Moves(n) /\ everEnabled' = everEnabled BY DEF Underway, QInv
  <2> QED BY <2>1, <2>2, UnversionedStays
<1>3. ASSUME Quiet(n) PROVE InOrder(n)
  <2>1. ASSUME NEW b \in Buckets, NEW k \in Keys, <<b, k>> \in tasks[n].touches PROVE AgreeAt(b, k)' /\ ClaimedAt(b, k)'
    <3>1. AgreeAt(b, k) /\ ClaimedAt(b, k) BY <1>3, <2>1 DEF QInv, KeysInv, Quiet
    <3>2. \A p \in Paths : KeyOf(p) = <<b, k>> => p \notin {} /\ KeepsHold(n, p) /\ KeepsRemoval(n, p)
      BY DEF KeepsHold, KeepsRemoval, Holds, Removes, Underway
    <3>3. Others(n) /\ Changes({}) /\ objects'[b][k] = objects[b][k] /\ everEnabled \subseteq everEnabled'
      BY DEF Underway, Moves, Others
    <3> QED BY <3>1, <3>2, <3>3, KeyStays
  <2> QED BY <2>1, <1>3 DEF InOrder
<1> QED BY <1>1, <1>2, <1>3, WithinKeeps

\* A request that ends has nothing to show.
LEMMA EndsQuietly ==
    ASSUME IInv, QInv, NEW n \in InFlight, Finish(n), Changes({}),
           UNCHANGED <<objects, versioning, contended, torn, everEnabled>>,
           tasks[n].pc \notin {"commit", "copyFill", "cleanup"}
    PROVE  QInv'
<1>1. Moves(n) /\ tasks'[n] = Done(tasks[n].op) BY Finished DEF IInv
<1>2. tasks'[n].pc = "done" BY <1>1 DEF Done
<1>3. n \notin InFlight' /\ ~Putting(n)' /\ ~Copying(n)'
  BY <1>2 DEF InFlight, Putting, Copying, PutPcs, CopyPcs
<1>4. Underway(n) BY <1>1, <1>3 DEF Underway
<1> QED BY <1>3, <1>4, UnderwayKeeps

\* A put that has not written, or a copy that has not linked, goes on.
LEMMA PutOn ==
    ASSUME NEW n, tasks[n] \in PutTasks, QuietTask(n), versioning' = versioning, NEW pc \in PutPcs \ {"commit"},
           tasks'[n] = [tasks[n] EXCEPT !.pc = pc]
    PROVE  QuietTask(n)'
<1>1. tasks'[n].pc = pc /\ tasks'[n].op = "put" /\ tasks'[n].b = tasks[n].b /\ Putting(n)
  BY DEF PutTasks, Putting
<1>2. QuietPut(n) BY <1>1 DEF QuietTask
<1>3. QuietPut(n)' BY <1>1, <1>2 DEF QuietPut
<1>4. ~Copying(n)' /\ tasks'[n].pc \notin {"copyVersioning", "cleanup"}
  BY <1>1 DEF Copying, PutPcs
<1> QED BY <1>3, <1>4 DEF QuietTask, Removes

LEMMA CopyOn ==
    ASSUME NEW n, tasks[n] \in CopyTasks, tasks[n].pc \notin {"commit", "copyFill"}, QuietTask(n), objects' = objects,
           NEW pc \in CopyPcs \ {"commit", "copyFill"}, tasks'[n] = [tasks[n] EXCEPT !.pc = pc]
    PROVE  QuietTask(n)'
<1>1. /\ tasks'[n].pc = pc /\ tasks'[n].op = "copy" /\ tasks'[n].srcPath = tasks[n].srcPath
      /\ tasks'[n].etag = tasks[n].etag /\ tasks'[n].size = tasks[n].size /\ Copying(n)
      /\ pc # "copyVersioning" /\ tasks[n].pc # "copyVersioning"
  BY DEF CopyTasks, Copying, CopyPcs
<1>2. HasSource(n) BY <1>1 DEF QuietTask, QuietCopy
<1>3. PICK b \in Buckets, k \in Keys : KeyOf(tasks[n].srcPath) = <<b, k>> /\ \E v \in Versions(b, k) : SourceIs(n, v)
  BY <1>2 DEF HasSource
<1>4. PICK v \in Versions(b, k) : SourceIs(n, v) BY <1>3
<1>5. SourceIs(n, v)' BY <1>1, <1>4 DEF SourceIs
<1>6. HasSource(n)'
  <2>1. v \in Versions(b, k)' /\ KeyOf(tasks'[n].srcPath) = <<b, k>>
    BY <1>1, <1>3, <1>4 DEF Versions
  <2> QED BY <2>1, <1>5 DEF HasSource
<1>7. QuietCopy(n)' BY <1>1, <1>6 DEF QuietCopy, Holds
<1>8. ~Putting(n)' /\ tasks'[n].pc # "cleanup" BY <1>1 DEF Putting, CopyPcs
<1> QED BY <1>7, <1>8 DEF QuietTask, Removes

\* Its name stays what it is.
LEMMA NameOn ==
    ASSUME IInv, QInv, NEW n \in InFlight, tasks[n] \in PutTasks \cup CopyTasks, NEW pc, tasks'[n] = [tasks[n] EXCEPT !.pc = pc]
    PROVE  /\ tasks'[n].b \notin everEnabled => tasks'[n].vid = Null
           /\ tasks'[n].touches = tasks[n].touches
<1>1. /\ tasks'[n].b = tasks[n].b /\ tasks'[n].vid = tasks[n].vid /\ tasks'[n].touches = tasks[n].touches
      /\ Putting(n) \/ Copying(n)
  BY DEF PutTasks, CopyTasks, Putting, Copying
<1> QED BY <1>1 DEF QInv, UnversionedInv, InFlight

LEMMA GoesQuietly ==
    ASSUME IInv, QInv, NEW n \in InFlight, NEW pc, Goto(n, pc), Changes({}),
           UNCHANGED <<objects, versioning, contended, torn, everEnabled>>,
           \/ tasks[n] \in PutTasks /\ pc \in PutPcs \ {"commit"} /\ tasks[n].pc # "commit"
           \/ tasks[n] \in CopyTasks /\ pc \in CopyPcs \ {"commit", "copyFill"} /\ tasks[n].pc \notin {"commit", "copyFill"}
    PROVE  QInv'
<1>1. TypeInv /\ tasks[n].pc # "cleanup" BY DEF IInv, PutTasks, CopyTasks, PutPcs, CopyPcs
<1>2. Moves(n) /\ tasks'[n] = [tasks[n] EXCEPT !.pc = pc] BY <1>1, Going
<1>3. /\ tasks'[n].b \notin everEnabled => tasks'[n].vid = Null
      /\ tasks'[n].touches = tasks[n].touches
  BY <1>2, NameOn
<1>4. tasks[n].pc # "copyFill" BY DEF PutTasks, PutPcs
<1>5. Underway(n) BY <1>1, <1>2, <1>3, <1>4 DEF Underway
<1>6. ASSUME Quiet(n) PROVE QuietTask(n)'
  <2>1. QuietTask(n) BY <1>6 DEF QInv, QuietTasksInv
  <2>2. CASE tasks[n] \in PutTasks /\ pc \in PutPcs \ {"commit"}
    BY <2>1, <2>2, <1>2, PutOn
  <2>3. CASE tasks[n] \in CopyTasks /\ pc \in CopyPcs \ {"commit", "copyFill"} /\ tasks[n].pc \notin {"commit", "copyFill"}
    BY <2>1, <2>3, <1>2, CopyOn
  <2> QED BY <2>2, <2>3
<1> QED BY <1>3, <1>5, <1>6, UnderwayKeeps

LEMMA EnsureDirQuiet ==
    ASSUME IInv, QInv, NEW n, EnsureDir(n)
    PROVE  QInv'
<1>1. n \in InFlight /\ tasks[n] \in PutTasks \cup CopyTasks /\ tasks[n].pc = "ensureDir"
  BY Busy, Kinds DEF EnsureDir
<1>2. PICK pc \in {tasks[n].then, "remember"} : Goto(n, pc) BY DEF EnsureDir
<1>3. UNCHANGED <<versioning, objects, link, inPlace, everEnabled, contended, torn>>
  BY DEF EnsureDir, meta, history
<1>4. \/ tasks[n] \in PutTasks /\ pc \in PutPcs \ {"commit"}
      \/ tasks[n] \in CopyTasks /\ pc \in CopyPcs \ {"commit", "copyFill"}
  BY <1>1, Directory DEF PutPcs, CopyPcs
<1> QED BY <1>1, <1>2, <1>3, <1>4, Unwritten, GoesQuietly

LEMMA RememberDirQuiet ==
    ASSUME IInv, QInv, NEW n, RememberDir(n)
    PROVE  QInv'
<1>1. n \in InFlight /\ tasks[n] \in PutTasks \cup CopyTasks /\ tasks[n].pc = "remember"
  BY Busy, Kinds DEF RememberDir
<1>2. PICK pc \in {tasks[n].then} : Goto(n, pc) BY DEF RememberDir
<1>3. UNCHANGED <<versioning, objects, link, inPlace, everEnabled, contended, torn>>
  BY DEF RememberDir, meta, history
<1>4. \/ tasks[n] \in PutTasks /\ pc \in PutPcs \ {"commit"}
      \/ tasks[n] \in CopyTasks /\ pc \in CopyPcs \ {"commit", "copyFill"}
  BY <1>1, Directory DEF PutPcs, CopyPcs
<1> QED BY <1>1, <1>2, <1>3, <1>4, Unwritten, GoesQuietly

LEMMA CopyResolveQuiet ==
    ASSUME IInv, QInv, NEW n, CopyResolve(n)
    PROVE  QInv'
<1>1. n \in InFlight /\ tasks[n] \in CopyTasks /\ tasks[n].pc = "copyResolve"
  BY Busy, Kinds DEF CopyResolve
<1>2. UNCHANGED <<versioning, objects, link, inPlace, everEnabled, contended, torn>>
  BY DEF CopyResolve, meta, files, history
<1>3. Goto(n, "ensureDir") \/ Finish(n) BY DEF CopyResolve
<1>4. Changes({}) BY <1>2, Unwritten
<1>5. CASE Goto(n, "ensureDir") BY <1>1, <1>2, <1>4, <1>5, GoesQuietly DEF CopyPcs
<1>6. CASE Finish(n) BY <1>1, <1>2, <1>4, <1>6, EndsQuietly
<1> QED BY <1>3, <1>5, <1>6

LEMMA ForgetDirsQuiet ==
    ASSUME IInv, QInv, NEW n, ForgetDirs(n)
    PROVE  QInv'
<1>1. n \in InFlight /\ tasks[n].pc = "forgetDirs" BY Busy DEF ForgetDirs
<1>2. UNCHANGED <<versioning, objects, link, inPlace, everEnabled, contended, torn>> /\ Finish(n)
  BY DEF ForgetDirs, meta, history
<1> QED BY <1>1, <1>2, Unwritten, EndsQuietly

\* ReadFile works on no key.
LEMMA ReadFileQuiet ==
    ASSUME IInv, QInv, NEW n, ReadFile(n)
    PROVE  QInv'
<1>1. n \in InFlight /\ n \in DOMAIN tasks /\ tasks[n].pc = "read" /\ TypeInv /\ tasks[n] \in GetTasks
  BY Busy, Kinds DEF ReadFile
<1>2. UNCHANGED <<versioning, objects, link, inPlace, everEnabled, contended, torn>>
  BY DEF ReadFile, meta, files, history
<1>3. Changes({}) BY <1>2, Unwritten
<1>4. CASE Linked(tasks[n].path)
  <2> DEFINE u == [tasks[n] EXCEPT !.pc = "done", !.got = disk[link[tasks[n].path]]]
  <2>1. tasks' = [tasks EXCEPT ![n] = u] BY <1>1, <1>4 DEF ReadFile
  <2>2. u.pc = "done" /\ u.op = tasks[n].op /\ u.touches = tasks[n].touches /\ tasks[n].op = "get"
    BY <1>1 DEF GetTasks
  <2> HIDE DEF u
  <2>3. /\ DOMAIN tasks' = DOMAIN tasks /\ Len(tasks') = Len(tasks) /\ tasks'[n] = u
        /\ \A m \in DOMAIN tasks : m # n => tasks'[m] = tasks[m]
    BY <2>1, <1>1 DEF TypeInv
  <2>4. Moves(n) BY <2>2, <2>3, <1>1, <1>2 DEF Moves, Past, BucketPcs
  <2>5. n \notin InFlight' /\ ~Putting(n)' /\ ~Copying(n)'
    BY <2>2, <2>3 DEF InFlight, Putting, Copying, PutPcs, CopyPcs
  <2>6. Underway(n) BY <2>4, <2>5, <1>1, <1>2, <1>3 DEF Underway
  <2> QED BY <2>5, <2>6, UnderwayKeeps
<1>5. CASE ~Linked(tasks[n].path)
  <2>1. Finish(n) BY <1>5 DEF ReadFile
  <2> QED BY <2>1, <1>1, <1>2, <1>3, EndsQuietly
<1> QED BY <1>4, <1>5

\* A dropped request leaves its keys contended.
LEMMA CancelQuiet ==
    ASSUME IInv, QInv, NEW n, Cancel(n)
    PROVE  QInv'
<1>1. n \in InFlight /\ TypeInv /\ n \in DOMAIN tasks /\ tasks[n] \in TaskRecords
  BY Numbered DEF Cancel, IInv, InFlight
<1> DEFINE u == Dropped(tasks[n].op)
<1>2. u \in TaskRecords /\ u.pc = "dropped" /\ u.op = tasks[n].op /\ u.touches = {}
  BY <1>1, Kinds DEF Dropped, Ops, EndedTasks, TaskRecords
<1>3. tasks' = [tasks EXCEPT ![n] = u] BY DEF Cancel
<1> HIDE DEF u
<1>4. /\ UNCHANGED <<versioning, objects, link, inPlace, everEnabled, torn>>
      /\ contended' = contended \cup tasks[n].touches
  BY DEF Cancel, meta, files
<1>5. Moves(n) /\ tasks'[n] = u BY <1>1, <1>2, <1>3, <1>4, MovesTo DEF BucketPcs
<1>6. n \notin InFlight' /\ ~Putting(n)' /\ ~Copying(n)'
  BY <1>2, <1>5 DEF InFlight, Putting, Copying, PutPcs, CopyPcs
<1>7. Within(n, {})
  <2>1. Changes({}) BY <1>4, Unwritten
  <2> QED BY <2>1, <1>4, <1>5, <1>6 DEF Within
<1>8. UnversionedInv'
  <2>1. /\ \A b \in Buckets : versioning'[b] \in {versioning[b], None}
        /\ \A b \in Buckets, k \in Keys : b \notin everEnabled => \A v \in Versions(b, k)' : v.vid = Null
    BY <1>4 DEF QInv, UnversionedInv, Versions
  <2> QED BY <2>1, <1>4, <1>5, <1>6, UnversionedStays DEF QInv
<1>9. ASSUME Quiet(n), contended' = contended PROVE InOrder(n)
  BY <1>4, <1>6, <1>9 DEF InOrder, Quiet
<1> QED BY <1>7, <1>8, <1>9, WithinKeeps

\* Nobody else holds the file of a key that is not contended.
LEMMA HeldAlone ==
    ASSUME IInv, QInv, NEW n \in InFlight, Quiet(n), NEW p \in Paths, KeyOf(p) \in tasks[n].touches, NEW m \in DOMAIN tasks,
           Holds(m, p) \/ Removes(m, p)
    PROVE  m = n
<1>1. KeyOf(p) \in tasks[m].touches BY InHand
<1>2. m \in InFlight BY DEF Holds, Removes, InFlight
<1> QED BY <1>1, <1>2, Alone DEF QInv

\* A file is that of one version.
LEMMA FileOfKey ==
    ASSUME IInv, NEW b \in Buckets, NEW k \in Keys, NEW v \in Versions(b, k), v.data.file # None
    PROVE  v \in VersionRecords /\ v.data.file \in Paths /\ v.data.file = <<b, k, v.vid>> /\ KeyOf(v.data.file) = <<b, k>>
<1>1. v \in VersionRecords /\ v.data.file = <<b, k, v.vid>>
  BY VersionTypes DEF IInv, VersionsInv, VersionInv, Versions
<1> QED BY <1>1 DEF VersionRecords, DataRecords, KeyOf

LEMMA OneVersion ==
    ASSUME IInv, NEW b \in Buckets, NEW k \in Keys, NEW v \in Versions(b, k), NEW w \in Versions(b, k),
           v.data.file # None, v.data.file = w.data.file
    PROVE  v = w
<1>1. v.vid = w.vid BY FileOfKey
<1> QED BY <1>1 DEF IInv, VersionsInv, Versions

\* The file a copy is made of is the right one.
LEMMA SourceAgrees ==
    ASSUME IInv, QInv, NEW n \in InFlight, Quiet(n), tasks[n] \in CopyTasks, tasks[n].pc \notin {"commit", "copyFill"},
           NEW p, p = tasks[n].srcPath
    PROVE  /\ p \in Paths /\ Linked(p) /\ (link[p] \in inPlace \/ tasks[n].etag = <<link[p]>>)
           /\ tasks[n].size <= Threshold => Unshared(p)
           /\ \A b \in Buckets, k \in Keys : \A v \in Versions(b, k) : v.data.file = p => v.size = tasks[n].size
<1>1. /\ n \in DOMAIN tasks /\ Copying(n) /\ tasks[n].pc # "copyVersioning" /\ p \in Paths /\ p # None
      /\ KeyOf(p) \in tasks[n].touches
  BY SourceTouched, NoneAssumption DEF InFlight, CopyTasks, Copying, CopyPcs
<1>2. HasSource(n) BY <1>1 DEF QInv, QuietTasksInv, QuietTask, QuietCopy
<1>3. PICK b \in Buckets, k \in Keys : KeyOf(p) = <<b, k>> /\ \E v \in Versions(b, k) : SourceIs(n, v)
  BY <1>2 DEF HasSource
<1>4. PICK v \in Versions(b, k) : SourceIs(n, v) BY <1>3
<1>5. v.data.file = p /\ v.etag = tasks[n].etag /\ v.size = tasks[n].size
  BY <1>1, <1>4 DEF SourceIs
<1>6. Agrees(v) BY <1>1, <1>3, <1>4 DEF QInv, KeysInv, AgreeAt, Quiet
<1>7. ~Held(p)
  <2>1. ~Holds(n, p) BY DEF Holds
  <2> QED BY <2>1, <1>1, HeldAlone DEF Held
<1>8. FileAgrees(v) BY <1>1, <1>5, <1>6, <1>7 DEF Agrees
<1>9. ASSUME NEW c \in Buckets, NEW l \in Keys, NEW w \in Versions(c, l), w.data.file = p PROVE w.size = tasks[n].size
  <2>1. c = b /\ l = k BY <1>1, <1>3, <1>9, FileOfKey
  <2> QED BY <2>1, <1>1, <1>4, <1>5, <1>9, OneVersion
<1> QED BY <1>1, <1>5, <1>8, <1>9 DEF FileAgrees

LEMMA CopyReadQuiet ==
    ASSUME IInv, QInv, NEW n, CopyRead(n)
    PROVE  QInv'
<1>1. /\ n \in InFlight /\ n \in DOMAIN tasks /\ tasks[n] \in CopyTasks /\ TypeInv /\ TaskInv(n)
      /\ tasks[n].pc = "copyRead" /\ tasks[n].op = "copy"
  BY Busy, Kinds DEF CopyRead, CopyTasks
<1>2. UNCHANGED <<versioning, objects, link, inPlace, everEnabled, contended, torn>>
  BY DEF CopyRead, meta, files, history
<1>3. Changes({}) BY <1>2, Unwritten
<1> DEFINE t == tasks[n]
<1>4. CASE Linked(t.data.file)
  <2> DEFINE data == Inline(disk[link[t.data.file]])
             u == [t EXCEPT !.data = data, !.pc = "commit"]
  <2>1. disk[link[t.data.file]] \in Contents BY <1>1, <1>4 DEF TypeInv, TypeOK, Linked
  <2>2. data \in DataRecords /\ data.file = None /\ data.bytes = disk[link[t.data.file]]
    BY <2>1 DEF DataRecords, Inline
  <2>3. tasks' = [tasks EXCEPT ![n] = u]
    <3>1. tasks' = [tasks EXCEPT ![n].data = data, ![n].pc = "commit"]
      BY <1>4 DEF CopyRead
    <3> QED BY <3>1, <1>1 DEF TypeInv
  <2> HIDE DEF data
  <2>4. /\ u \in CopyTasks
        /\ u.pc = "commit" /\ u.op = "copy" /\ u.touches = t.touches /\ u.b = t.b /\ u.k = t.k /\ u.vid = t.vid
        /\ u.etag = t.etag /\ u.data = data
    BY <2>2, <1>1 DEF CopyTasks, CopyPcs
  <2> HIDE DEF u
  <2>5. Moves(n) /\ tasks'[n] = u
    BY <1>1, <1>2, <2>3, <2>4, MovesTo DEF TaskRecords, BucketPcs
  <2>6. Underway(n) BY <2>4, <2>5, <1>1, <1>2, <1>3 DEF Underway
  <2>7. u.b \notin everEnabled => u.vid = Null
    BY <2>4, <1>1 DEF QInv, UnversionedInv, Copying, CopyPcs
  <2>8. ASSUME Quiet(n) PROVE QuietTask(n)'
    <3>1. PICK p : p = t.srcPath OBVIOUS
    <3>2. t.data.file = p /\ t.size <= Threshold
      BY <3>1, <1>1 DEF TaskInv, Copying, CopyPcs, CopyInv
    <3>3. p \in Paths /\ Linked(p) /\ (link[p] \in inPlace \/ t.etag = <<link[p]>>) /\ Unshared(p)
      BY <3>1, <3>2, <2>8, <1>1, SourceAgrees
    <3>4. t.etag = <<link[p]>> /\ link[p] \notin inPlace BY <3>3 DEF Unshared
    <3>5. disk[link[p]] = <<link[p]>> BY <3>3, <3>4 DEF IInv, FilesInv, FileInv, Linked
    <3>6. u.data.file = None /\ u.data.bytes = u.etag BY <3>2, <3>4, <3>5, <2>2, <2>4
    <3>7. \A q \in Paths : ~Holds(n, q)' BY <3>6, <2>5, NoneAssumption DEF Holds
    <3>8. QuietCopy(n)' BY <3>6, <3>7, <2>4, <2>5 DEF QuietCopy
    <3> QED BY <3>8, <2>4, <2>5 DEF QuietTask, Putting, Removes
  <2> QED BY <2>5, <2>6, <2>7, <2>8, UnderwayKeeps
<1>5. CASE ~Linked(t.data.file)
  <2>1. Finish(n) BY <1>5 DEF CopyRead
  <2> QED BY <2>1, <1>1, <1>2, <1>3, EndsQuietly
<1> QED BY <1>4, <1>5

LEMMA CopyVersioningQuiet ==
    ASSUME IInv, QInv, NEW n, CopyVersioning(n)
    PROVE  QInv'
<1>1. /\ n \in InFlight /\ n \in DOMAIN tasks /\ tasks[n] \in LookupTasks /\ TypeInv /\ TaskInv(n)
      /\ tasks[n].pc = "copyVersioning"
  BY Busy, Kinds DEF CopyVersioning
<1>2. UNCHANGED <<versioning, objects, link, inPlace, everEnabled, contended, torn>>
  BY DEF CopyVersioning, meta, files, history
<1> DEFINE t == tasks[n]
           vid == NewVersionId(t.b, n)
           path == <<t.b, t.k, vid>>
           toFile == t.src.data.file # None /\ t.src.size > Threshold
           pc == CASE t.src.data.file = None -> "commit"
                   [] toFile -> "copyResolve"
                   [] OTHER -> "copyRead"
           data == IF toFile THEN FileRef(path) ELSE t.src.data
           u == [op |-> "copy", pc |-> pc, touches |-> t.touches, b |-> t.b, k |-> t.k, vid |-> vid,
                 etag |-> t.src.etag, size |-> t.src.size, data |-> data,
                 srcPath |-> t.srcPath, path |-> path, then |-> "copyLink", from |-> None, to |-> None]
<1>3. tasks' = [tasks EXCEPT ![n] = u] BY DEF CopyVersioning
<1>4. t.b \in Buckets /\ t.src \in VersionRecords /\ t.srcPath \in Paths /\ t.op = "copy"
  BY <1>1 DEF LookupTasks
<1>5. /\ t.touches = {KeyOf(t.srcPath), <<t.b, t.k>>} /\ t.src.data.file \in {None, t.srcPath} /\ ~t.src.marker
  BY <1>1 DEF TaskInv, LookupInv
<1>6. t.b \notin everEnabled => vid = Null BY <1>4 DEF QInv, UnversionedInv, NewVersionId
<1> HIDE DEF vid, path
<1>7. \/ pc = "commit" /\ data = t.src.data /\ t.src.data.file = None
      \/ pc \in {"copyResolve", "copyRead"} /\ t.src.data.file = t.srcPath
  BY <1>5
<1> HIDE DEF pc, data
<1>8. /\ u.pc = pc /\ u.op = "copy" /\ u.touches = t.touches /\ u.b = t.b /\ u.vid = vid
      /\ u.srcPath = t.srcPath /\ u.etag = t.src.etag /\ u.size = t.src.size /\ u.data = data
  OBVIOUS
<1> HIDE DEF u
<1>9. /\ DOMAIN tasks' = DOMAIN tasks /\ Len(tasks') = Len(tasks) /\ tasks'[n] = u
      /\ \A m \in DOMAIN tasks : m # n => tasks'[m] = tasks[m]
  BY <1>1, <1>3 DEF TypeInv
<1>10. Moves(n) BY <1>1, <1>2, <1>4, <1>7, <1>8, <1>9 DEF Moves, Past, BucketPcs
<1>11. Underway(n)
  <2>1. Changes({}) BY <1>2, Unwritten
  <2> QED BY <2>1, <1>1, <1>2, <1>8, <1>9, <1>10 DEF Underway
<1>12. ASSUME Quiet(n) PROVE QuietTask(n)'
  <2>1. HasSource(n) BY <1>1, <1>12 DEF QInv, QuietTasksInv, QuietTask, QuietCopy
  <2>2. PICK b \in Buckets, k \in Keys : KeyOf(t.srcPath) = <<b, k>> /\ \E v \in Versions(b, k) : SourceIs(n, v)
    BY <2>1 DEF HasSource
  <2>3. t.src \in Versions(b, k) BY <2>2, <1>1 DEF SourceIs
  <2>4. CASE pc = "commit"
    <3>1. data = t.src.data /\ t.src.data.file = None BY <2>4, <1>7
    <3>2. Agrees(t.src) BY <2>2, <2>3, <1>5, <1>12 DEF QInv, KeysInv, AgreeAt, Quiet
    <3>3. u.data.file = None /\ u.data.bytes = u.etag BY <3>1, <3>2, <1>5, <1>8 DEF Agrees
    <3>4. \A q \in Paths : ~Holds(n, q)' BY <3>3, <1>9, NoneAssumption DEF Holds
    <3>5. QuietCopy(n)' BY <3>3, <3>4, <2>4, <1>8, <1>9 DEF QuietCopy
    <3> QED BY <3>5, <2>4, <1>8, <1>9 DEF QuietTask, Putting, Removes
  <2>5. CASE pc \in {"copyResolve", "copyRead"} /\ t.src.data.file = t.srcPath
    <3>1. PICK v : v = t.src OBVIOUS
    <3>2. SourceIs(n, v)' BY <3>1, <2>5, <1>8, <1>9 DEF SourceIs
    <3>3. v \in Versions(b, k)' /\ KeyOf(tasks'[n].srcPath) = <<b, k>>
      BY <3>1, <2>2, <2>3, <1>2, <1>8, <1>9 DEF Versions
    <3>4. HasSource(n)' BY <3>2, <3>3 DEF HasSource
    <3>5. QuietCopy(n)' BY <3>4, <2>5, <1>8, <1>9 DEF QuietCopy, Holds
    <3> QED BY <3>5, <2>5, <1>8, <1>9 DEF QuietTask, Putting, Removes
  <2> QED BY <2>4, <2>5, <1>7
<1> QED BY <1>6, <1>8, <1>9, <1>11, <1>12, UnderwayKeeps

LEMMA TmpChanges ==
    ASSUME IInv, NEW n \in InFlight, tasks[n] \in PutTasks, tasks[n].pc = "write", link' = With(link, TmpPath(n), n),
           inPlace' = inPlace
    PROVE  Changes({})
<1>1. n \in DOMAIN tasks /\ n \in 1..MaxOps /\ n \notin DOMAIN disk
  BY Numbered DEF InFlight, IInv, TasksInv, TaskInv, PutInv, Putting, PutTasks, PutPcs
<1>2. PICK tmp : tmp = TmpPath(n) OBVIOUS
<1>3. tmp[3] = <<n>> BY <1>2 DEF TmpPath
<1>4. tmp \notin Paths BY <1>1, <1>3, Names
<1>5. /\ DOMAIN link' = DOMAIN link \cup {tmp} /\ link'[tmp] = n
      /\ \A p \in DOMAIN link : p # tmp => link'[p] = link[p]
  BY <1>2 DEF With
<1>6. \A p \in DOMAIN link : link[p] # n BY <1>1 DEF IInv, FilesInv, FileInv
<1> QED BY <1>4, <1>5, <1>6 DEF Changes

LEMMA WriteTmpQuiet ==
    ASSUME IInv, QInv, NEW n, WriteTmp(n)
    PROVE  QInv'
<1>1. n \in InFlight /\ tasks[n] \in PutTasks /\ tasks[n].pc = "write"
  BY Busy, Kinds DEF WriteTmp
<1>2. UNCHANGED <<versioning, objects, inPlace, everEnabled, contended, torn>>
  BY DEF WriteTmp, meta, history
<1>3. CASE Dir(tasks[n].path) \in dirs
  <2>1. link' = With(link, TmpPath(n), n) /\ Goto(n, "rename") BY <1>3 DEF WriteTmp
  <2>2. Changes({}) BY <2>1, <1>1, <1>2, TmpChanges
  <2> QED BY <2>1, <2>2, <1>1, <1>2, GoesQuietly DEF PutPcs
<1>4. CASE Dir(tasks[n].path) \notin dirs
  <2>1. Finish(n) /\ link' = link BY <1>4 DEF WriteTmp
  <2> QED BY <2>1, <1>1, <1>2, Unwritten, EndsQuietly
<1> QED BY <1>3, <1>4

LEMMA WriteFailsQuiet ==
    ASSUME IInv, QInv, NEW n, WriteFails(n)
    PROVE  QInv'
<1>1. n \in InFlight /\ tasks[n] \in PutTasks /\ tasks[n].pc = "write"
  BY Busy, Kinds DEF WriteFails
<1>2. /\ UNCHANGED <<versioning, objects, inPlace, everEnabled, contended, torn>>
      /\ link' = With(link, TmpPath(n), n) /\ Finish(n)
  BY DEF WriteFails, meta, history
<1>3. Changes({}) BY <1>1, <1>2, TmpChanges
<1> QED BY <1>1, <1>2, <1>3, EndsQuietly

-----------------------------------------------------------------------------
(* Steps that change files *)

LEMMA UnversionedSame ==
    ASSUME QInv, NEW n, Moves(n), UNCHANGED <<objects, versioning, everEnabled>>,
           (Putting(n)' \/ Copying(n)') /\ tasks'[n].b \notin everEnabled => tasks'[n].vid = Null
    PROVE  UnversionedInv'
<1>1. /\ \A b \in Buckets : versioning'[b] \in {versioning[b], None}
      /\ \A b \in Buckets, k \in Keys : b \notin everEnabled => \A v \in Versions(b, k)' : v.vid = Null
  BY DEF QInv, UnversionedInv, Versions
<1> QED BY <1>1, UnversionedStays DEF QInv

LEMMA RenameQuiet ==
    ASSUME IInv, QInv, NEW n, Rename(n)
    PROVE  QInv'
<1>1. /\ n \in InFlight /\ n \in DOMAIN tasks /\ n \in 1..MaxOps /\ tasks[n] \in PutTasks /\ TaskInv(n) /\ tasks[n].pc = "rename"
      /\ TypeInv
  BY Busy, Kinds, Numbered DEF Rename
<1>2. UNCHANGED <<versioning, objects, inPlace, everEnabled, contended, torn>>
  BY DEF Rename, meta, history
<1>3. CASE ~Linked(TmpPath(n))
  <2>1. Finish(n) /\ link' = link BY <1>3 DEF Rename
  <2> QED BY <2>1, <1>1, <1>2, Unwritten, EndsQuietly
<1>4. CASE Linked(TmpPath(n))
  <2>1. PICK tmp, path : tmp = TmpPath(n) /\ path = tasks[n].path OBVIOUS
  <2>2. tmp \in DOMAIN link /\ IsTmp(tmp, n) /\ path \in Paths /\ tasks[n].after = "commit"
    BY <2>1, <1>1, <1>4 DEF Linked, TmpPath, IsTmp, PutTasks
  <2>3. link[tmp] = n /\ n \notin inPlace /\ \A p \in DOMAIN link : link[p] = n => p = tmp
    BY <2>2, <1>1 DEF IInv, FilesInv, FileInv
  <2>4. tmp \notin Paths BY <2>2, <1>1, Names DEF IsTmp
  <2>5. link' = With(Restrict(link, DOMAIN link \ {tmp}), path, link[tmp]) /\ Goto(n, "commit")
    BY <2>1, <2>2, <1>4 DEF Rename
  <2>6. /\ DOMAIN link' = (DOMAIN link \ {tmp}) \cup {path} /\ link'[path] = n
        /\ \A p \in DOMAIN link : p # tmp /\ p # path => link'[p] = link[p]
    BY <2>3, <2>5 DEF With, Restrict
  <2>7. Moves(n) /\ tasks'[n] = [tasks[n] EXCEPT !.pc = "commit"]
    BY <2>5, <1>1, <1>2, Going DEF PutPcs
  <2>8. /\ tasks'[n].b \notin everEnabled => tasks'[n].vid = Null
        /\ tasks'[n].touches = tasks[n].touches
    BY <2>7, <1>1, NameOn
  <2>9. /\ tasks'[n].pc = "commit" /\ tasks'[n].op = "put" /\ tasks'[n].b = tasks[n].b /\ tasks'[n].data.file = path
        /\ n \in DOMAIN tasks' /\ KeyOf(path) \in tasks[n].touches
    <3>1. PutInv(n) BY <1>1 DEF TaskInv, Putting, PutTasks
    <3> QED BY <3>1, <2>1, <2>7, <1>1 DEF PutTasks, PutInv, FileRef, KeyOf, Moves
  <2>10. Changes({path}) BY <2>3, <2>4, <2>6, <1>2 DEF Changes
  <2>11. Within(n, {path}) BY <2>7, <2>8, <2>9, <2>10, <1>2 DEF Within
  <2>12. UnversionedInv' BY <2>7, <2>8, <1>2, UnversionedSame
  <2>13. ASSUME Quiet(n) PROVE InOrder(n)
    <3>1. Holds(n, path)' /\ Held(path)' BY <2>9 DEF Holds, Held
    <3>2. ASSUME NEW b \in Buckets, NEW k \in Keys, <<b, k>> \in tasks[n].touches PROVE AgreeAt(b, k)' /\ ClaimedAt(b, k)'
      <4>1. AgreeAt(b, k) /\ ClaimedAt(b, k) BY <2>13, <3>2 DEF QInv, KeysInv, Quiet
      <4>2. ASSUME NEW p \in Paths PROVE KeepsHold(n, p) /\ KeepsRemoval(n, p) /\ (p \notin {path} \/ Held(p)')
        BY <3>1, <1>1 DEF KeepsHold, KeepsRemoval, Holds, Removes
      <4>3. Others(n) /\ objects'[b][k] = objects[b][k] /\ everEnabled \subseteq everEnabled'
        BY <2>7, <1>2 DEF Moves, Others
      <4> QED BY <4>1, <4>2, <4>3, <2>10, KeyStays
    <3>3. QuietTask(n)'
      <4>1. QuietPut(n)
        BY <2>13, <1>1 DEF QInv, QuietTasksInv, QuietTask, Putting, PutTasks
      <4>2. Linked(path)' /\ link'[path] = n /\ Unshared(path)'
        BY <2>3, <2>6, <1>2 DEF Linked, Unshared
      <4>3. QuietPut(n)' BY <4>1, <4>2, <2>9, <1>2 DEF QuietPut
      <4> QED BY <4>3, <2>9 DEF QuietTask, Copying, Removes
    <3> QED BY <3>2, <3>3 DEF InOrder
  <2> QED BY <2>11, <2>12, <2>13, WithinKeeps
<1> QED BY <1>3, <1>4

LEMMA RemoveFileQuiet ==
    ASSUME IInv, QInv, NEW n, NEW path, RemoveFile(n, path)
    PROVE  QInv'
<1>1. /\ n \in InFlight /\ n \in DOMAIN tasks /\ tasks[n] \in CleanupTasks /\ TaskInv(n) /\ TypeInv
      /\ tasks[n].pc = "cleanup" /\ path \in tasks[n].remove /\ path \in Paths
  BY Busy, Kinds DEF RemoveFile, CleanupTasks
<1>2. /\ UNCHANGED <<versioning, objects, inPlace, everEnabled, contended, torn>>
      /\ link' = Restrict(link, DOMAIN link \ {path})
  BY DEF RemoveFile, Unlink, meta, history
<1>3. DOMAIN link' = DOMAIN link \ {path} /\ \A p \in DOMAIN link : p # path => link'[p] = link[p]
  BY <1>2 DEF Restrict
<1>4. /\ Moves(n)
      /\ \/ n \notin InFlight' /\ tasks[n].remove = {path} /\ tasks'[n].pc = "done"
         \/ /\ tasks'[n].pc = "cleanup" /\ tasks'[n].touches = tasks[n].touches
            /\ tasks'[n].remove = tasks[n].remove \ {path}
  <2>1. CASE tasks[n].remove = {path}
    <3>1. Finish(n) BY <2>1 DEF RemoveFile
    <3>2. Moves(n) /\ tasks'[n] = Done(tasks[n].op) BY <3>1, <1>1, <1>2, Finished
    <3> QED BY <3>2, <2>1 DEF Done, InFlight
  <2>2. CASE tasks[n].remove # {path}
    <3> DEFINE u == [tasks[n] EXCEPT !.remove = tasks[n].remove \ {path}]
    <3>1. tasks' = [tasks EXCEPT ![n] = u] BY <2>2, <1>1 DEF RemoveFile
    <3>2. /\ u \in CleanupTasks /\ u.op = tasks[n].op /\ u.touches = tasks[n].touches /\ u.pc = "cleanup"
          /\ u.remove = tasks[n].remove \ {path}
      BY <1>1 DEF CleanupTasks
    <3> HIDE DEF u
    <3>3. Moves(n) /\ tasks'[n] = u
      BY <3>1, <3>2, <1>1, <1>2, MovesTo DEF TaskRecords, BucketPcs
    <3> QED BY <3>2, <3>3
  <2> QED BY <2>1, <2>2
<1>5. ~Putting(n)' /\ ~Copying(n)' /\ tasks'[n].pc # "copyVersioning"
  BY <1>4 DEF Putting, Copying, PutPcs, CopyPcs
<1>6. Changes({path}) BY <1>2, <1>3 DEF Changes
<1>7. Within(n, {path})
  <2>1. KeyOf(path) \in tasks[n].touches BY <1>1 DEF TaskInv
  <2> QED BY <2>1, <1>2, <1>4, <1>6 DEF Within
<1>8. UnversionedInv' BY <1>2, <1>4, <1>5, UnversionedSame
<1>9. ASSUME Quiet(n) PROVE InOrder(n)
  <2>1. QuietTask(n) BY <1>1, <1>9 DEF QInv, QuietTasksInv
  <2>2. ASSUME NEW b \in Buckets, NEW k \in Keys, <<b, k>> \in tasks[n].touches PROVE AgreeAt(b, k)' /\ ClaimedAt(b, k)'
    <3>1. AgreeAt(b, k) /\ ClaimedAt(b, k) BY <1>9, <2>2 DEF QInv, KeysInv, Quiet
    <3>2. ASSUME NEW p \in Paths PROVE KeepsHold(n, p) /\ (Linked(p)' => Held(p)' \/ (Linked(p) /\ KeepsRemoval(n, p)))
      <4>1. KeepsHold(n, p) BY <1>1 DEF KeepsHold, Holds
      <4>2. ASSUME Linked(p)' PROVE Linked(p) /\ KeepsRemoval(n, p)
        BY <4>2, <1>1, <1>3, <1>4 DEF Linked, KeepsRemoval, Removes, Moves
      <4> QED BY <4>1, <4>2
    <3>3. ASSUME NEW v \in Versions(b, k), v.data.file # None PROVE FileAgrees(v) => FileAgrees(v)'
      <4>1. v.data.file # path
        <5>1. Removes(n, path) BY <1>1 DEF Removes
        <5>2. CASE KeyOf(path) = <<b, k>> BY <5>1, <5>2, <2>1, <1>1, <3>3 DEF QuietTask
        <5>3. CASE KeyOf(path) # <<b, k>> BY <5>3, <3>3, FileOfKey
        <5> QED BY <5>2, <5>3
      <4> QED BY <4>1, <3>3, <1>6, FileOfKey, FileStays
    <3>4. Others(n) /\ objects'[b][k] = objects[b][k] /\ everEnabled \subseteq everEnabled'
      BY <1>2, <1>4 DEF Moves, Others
    <3> QED BY <3>1, <3>2, <3>3, <3>4, KeyFiles
  <2>3. ASSUME n \in InFlight' PROVE QuietTask(n)'
    <3>1. \A p \in Paths : Removes(n, p)' => Removes(n, p) BY <1>1, <1>4 DEF Removes
    <3>2. \A b \in Buckets, k \in Keys : Versions(b, k)' = Versions(b, k)
      BY <1>2 DEF Versions
    <3> QED BY <3>1, <3>2, <2>1, <1>5 DEF QuietTask
  <2> QED BY <2>2, <2>3 DEF InOrder
<1> QED BY <1>7, <1>8, <1>9, WithinKeeps

\* A bucket that is being deleted is empty, unless somebody raced.
LEMMA DeletedEmpty ==
    ASSUME IInv, QInv, NEW n \in InFlight, tasks[n].pc \in BucketPcs, Quiet(n), NEW b, b = tasks[n].b
    PROVE  b \in Buckets /\ \A k \in Keys : objects[b][k] = <<>> /\ Versions(b, k) = {}
<1>1. b \in Buckets /\ tasks[n].touches = {b} \X Keys
  BY Numbered, Kinds DEF IInv, InFlight, BucketTasks, TasksInv, TaskInv
<1>2. ASSUME NEW k \in Keys PROVE objects[b][k] = <<>>
  <2>1. <<b, k>> \in {b} \X Keys /\ <<b, k>> \notin torn
    BY <1>1 DEF QInv, ContentionInv, Quiet
  <2> QED BY <2>1 DEF IInv, DeletionInv
<1> QED BY <1>1, <1>2 DEF Versions

LEMMA RemoveBucketDirQuiet ==
    ASSUME IInv, QInv, NEW n, RemoveBucketDir(n)
    PROVE  QInv'
<1>1. /\ n \in InFlight /\ n \in DOMAIN tasks /\ tasks[n] \in BucketTasks /\ TaskInv(n) /\ TypeInv
      /\ tasks[n].pc = "removeDir" /\ tasks[n].pc \in BucketPcs /\ tasks[n].b \in Buckets
  BY Busy, Kinds DEF RemoveBucketDir, BucketPcs, BucketTasks
<1>2. PICK b \in Buckets : b = tasks[n].b BY <1>1
<1> DEFINE S == {p \in DOMAIN link : p[1] # b}
           P == {p \in DOMAIN link : p[1] = b}
<1>3. /\ UNCHANGED <<versioning, objects, inPlace, everEnabled, contended, torn>> /\ link' = Restrict(link, S)
  BY <1>2 DEF RemoveBucketDir, meta, history
<1>4. DOMAIN link' = S /\ \A p \in S : link'[p] = link[p] BY <1>3 DEF Restrict
<1>5. tasks[n].touches = {b} \X Keys BY <1>1, <1>2 DEF TaskInv
<1>6. Moves(n) /\ tasks'[n].pc \in {"forgetDirs", "done"} /\ (n \in InFlight' => tasks'[n].touches = tasks[n].touches)
  <2>1. CASE Finish(n)
    <3>1. Moves(n) /\ tasks'[n] = Done(tasks[n].op) BY <2>1, <1>1, <1>3, Finished
    <3> QED BY <3>1 DEF Done, InFlight
  <2>2. CASE Goto(n, "forgetDirs")
    <3>1. Moves(n) /\ tasks'[n] = [tasks[n] EXCEPT !.pc = "forgetDirs"]
      BY <2>2, <1>1, <1>3, Going DEF BucketPcs
    <3> QED BY <3>1, <1>1 DEF BucketTasks
  <2> QED BY <2>1, <2>2 DEF RemoveBucketDir
<1>7. ~Putting(n)' /\ ~Copying(n)' /\ tasks'[n].pc \notin {"copyVersioning", "cleanup"}
  BY <1>6 DEF Putting, Copying, PutPcs, CopyPcs
<1>8. Changes(P) BY <1>3, <1>4 DEF Changes
<1>9. Within(n, P)
  <2>1. ASSUME NEW p \in P PROVE KeyOf(p) \in tasks[n].touches
    <3>1. p \in Paths \/ \E m \in DOMAIN tasks : p \in Buckets \X Keys \X {<<m>>}
      BY <2>1 DEF IInv, FilesInv, FileInv
    <3>2. p[2] \in Keys /\ p[1] = b BY <3>1, <2>1, Names
    <3> QED BY <3>2, <1>5 DEF KeyOf
  <2> HIDE DEF P
  <2> QED BY <2>1, <1>3, <1>6, <1>8 DEF Within
<1>10. UnversionedInv' BY <1>3, <1>6, <1>7, UnversionedSame
<1>11. ASSUME Quiet(n) PROVE InOrder(n)
  <2>1. ASSUME NEW c \in Buckets, NEW k \in Keys, <<c, k>> \in tasks[n].touches PROVE AgreeAt(c, k)' /\ ClaimedAt(c, k)'
    <3>1. c = b BY <2>1, <1>5
    <3>2. Versions(b, k)' = {} BY <1>1, <1>2, <1>3, <1>11, DeletedEmpty DEF Versions
    <3>3. \A p \in Paths : p = <<b, k, Null>> => ~Linked(p)' BY <1>4 DEF Linked
    <3> QED BY <3>1, <3>2, <3>3 DEF AgreeAt, ClaimedAt
  <2>2. QuietTask(n)' BY <1>7 DEF QuietTask, Removes
  <2> QED BY <2>1, <2>2 DEF InOrder
<1> HIDE DEF P
<1> QED BY <1>9, <1>10, <1>11, WithinKeeps

LEMMA DeleteBucketMetaQuiet ==
    ASSUME IInv, QInv, NEW n, DeleteBucketMeta(n)
    PROVE  QInv'
<1>1. /\ n \in InFlight /\ n \in DOMAIN tasks /\ tasks[n] \in BucketTasks /\ TaskInv(n) /\ TypeInv
      /\ tasks[n].pc = "deleteBucket" /\ tasks[n].pc \in BucketPcs /\ tasks[n].b \in Buckets
  BY Busy, Kinds DEF DeleteBucketMeta, BucketPcs, BucketTasks
<1>2. PICK b \in Buckets : b = tasks[n].b BY <1>1
<1>3. UNCHANGED <<link, inPlace, everEnabled, contended, torn>> /\ Goto(n, "removeDir")
  BY DEF DeleteBucketMeta, files, history
<1>4. /\ \A c \in Buckets : versioning'[c] \in {versioning[c], None} /\ (c # b => versioning'[c] = versioning[c])
      /\ \A c \in Buckets, k \in Keys : objects'[c][k] \in {objects[c][k], <<>>} /\ (c # b => objects'[c][k] = objects[c][k])
  <2>1. versioning \in [Buckets -> {None, ""} \cup Versionings] /\ objects \in [Buckets -> [Keys -> Seq(VersionRecords)]]
    BY <1>1 DEF TypeInv, TypeOK
  <2>2. CASE versioning[b] = None BY <2>2, <1>2 DEF DeleteBucketMeta, meta
  <2>3. CASE versioning[b] # None
    <3>1. versioning' = [versioning EXCEPT ![b] = None] /\ objects' = [objects EXCEPT ![b] = [k \in Keys |-> <<>>]]
      BY <2>3, <1>2 DEF DeleteBucketMeta
    <3> QED BY <3>1, <2>1
  <2> QED BY <2>2, <2>3
<1>5. tasks[n].touches = {b} \X Keys BY <1>1, <1>2 DEF TaskInv
<1>6. Moves(n) /\ tasks'[n].pc = "removeDir" /\ tasks'[n].touches = tasks[n].touches
  <2>1. Moves(n) /\ tasks'[n] = [tasks[n] EXCEPT !.pc = "removeDir"]
    BY <1>1, <1>3, Going DEF BucketPcs
  <2> QED BY <2>1, <1>1 DEF BucketTasks
<1>7. ~Putting(n)' /\ ~Copying(n)' /\ tasks'[n].pc \notin {"copyVersioning", "cleanup"}
  BY <1>6 DEF Putting, Copying, PutPcs, CopyPcs
<1>8. Changes({}) BY <1>3, Unwritten
<1>9. Within(n, {}) BY <1>3, <1>4, <1>5, <1>6, <1>8 DEF Within
<1>10. UnversionedInv'
  <2>1. \A c \in Buckets, k \in Keys : c \notin everEnabled => \A v \in Versions(c, k)' : v.vid = Null
    BY <1>4 DEF QInv, UnversionedInv, Versions
  <2> QED BY <2>1, <1>3, <1>4, <1>6, <1>7, UnversionedStays DEF QInv
<1>11. ASSUME Quiet(n) PROVE InOrder(n)
  <2>1. ASSUME NEW c \in Buckets, NEW k \in Keys, <<c, k>> \in tasks[n].touches PROVE AgreeAt(c, k)' /\ ClaimedAt(c, k)'
    <3>1. objects'[c][k] = objects[c][k]
      BY <2>1, <1>1, <1>2, <1>4, <1>5, <1>11, DeletedEmpty
    <3>2. AgreeAt(c, k) /\ ClaimedAt(c, k) BY <1>11, <2>1 DEF QInv, KeysInv, Quiet
    <3>3. \A p \in Paths : KeyOf(p) = <<c, k>> => KeepsHold(n, p) /\ KeepsRemoval(n, p) /\ p \notin {}
      BY <1>1 DEF KeepsHold, KeepsRemoval, Holds, Removes
    <3>4. Others(n) /\ everEnabled \subseteq everEnabled' BY <1>3, <1>6 DEF Moves, Others
    <3> QED BY <3>1, <3>2, <3>3, <3>4, <1>8, KeyStays
  <2>2. QuietTask(n)' BY <1>7 DEF QuietTask, Removes
  <2> QED BY <2>1, <2>2 DEF InOrder
<1> QED BY <1>9, <1>10, <1>11, WithinKeeps

\* A copy that has its file in place.
LEMMA CopyReady ==
    ASSUME NEW n, tasks[n] \in CopyTasks, NEW path \in Paths, tasks[n].data.file = path,
           tasks'[n] = [tasks[n] EXCEPT !.pc = "commit"],
           Linked(path)', link'[path] \in inPlace' \/ tasks[n].etag = <<link'[path]>>
    PROVE  QuietTask(n)'
<1>1. tasks'[n].pc = "commit" /\ tasks'[n].op = "copy" /\ tasks'[n].data.file = path /\ tasks'[n].etag = tasks[n].etag
  BY DEF CopyTasks
<1>2. \A p \in Paths : Holds(n, p)' => p = path BY <1>1 DEF Holds
<1>3. path # None BY NoneAssumption
<1>4. QuietCopy(n)' BY <1>1, <1>2, <1>3 DEF QuietCopy
<1> QED BY <1>1, <1>4 DEF QuietTask, Putting, Removes

\* What is known of a copy that is about to link its file.
LEMMA Linking ==
    ASSUME IInv, QInv, NEW n, CopyLink(n)
    PROVE  /\ n \in InFlight /\ n \in DOMAIN tasks /\ tasks[n] \in CopyTasks /\ TypeInv /\ TaskInv(n) /\ tasks[n].pc = "copyLink"
           /\ tasks[n].path \in Paths /\ tasks[n].srcPath \in Paths /\ tasks[n].data.file = tasks[n].path
           /\ tasks[n].size > Threshold
           /\ KeyOf(tasks[n].path) \in tasks[n].touches /\ KeyOf(tasks[n].srcPath) \in tasks[n].touches
           /\ \A p : ~Holds(n, p) /\ ~Removes(n, p)
           /\ UNCHANGED <<versioning, objects, everEnabled, contended, torn>>
<1>1. /\ n \in InFlight /\ n \in DOMAIN tasks /\ tasks[n] \in CopyTasks /\ TypeInv /\ TaskInv(n)
      /\ tasks[n].pc = "copyLink"
  BY Busy, Kinds DEF CopyLink
<1>2. CopyInv(n) BY <1>1 DEF TaskInv, Copying, CopyTasks
<1>3. tasks[n].path \in Paths /\ tasks[n].srcPath \in Paths BY <1>1 DEF CopyTasks
<1>4. /\ tasks[n].data.file = tasks[n].path /\ tasks[n].size > Threshold
      /\ KeyOf(tasks[n].path) \in tasks[n].touches /\ KeyOf(tasks[n].srcPath) \in tasks[n].touches
  BY <1>1, <1>2 DEF CopyInv, KeyOf
<1>5. \A p : ~Holds(n, p) /\ ~Removes(n, p) BY <1>1 DEF Holds, Removes
<1>6. UNCHANGED <<versioning, objects, everEnabled, contended, torn>>
  BY DEF CopyLink, meta
<1> QED BY <1>1, <1>3, <1>4, <1>5, <1>6

\* A hard link: the inode of the source gets another name, which it can because it is not short.
LEMMA HardLinkQuiet ==
    ASSUME IInv, QInv, NEW n, CopyLink(n), NEW path, NEW src, path = tasks[n].path, src = tasks[n].srcPath, src # path,
           Linked(src), ~Linked(path), link' = With(link, path, link[src]), inPlace' = inPlace, Goto(n, "commit")
    PROVE  QInv'
<1>1. /\ n \in InFlight /\ n \in DOMAIN tasks /\ tasks[n] \in CopyTasks /\ TypeInv /\ tasks[n].pc = "copyLink"
      /\ path \in Paths /\ src \in Paths /\ tasks[n].data.file = path /\ tasks[n].size > Threshold
      /\ KeyOf(path) \in tasks[n].touches /\ KeyOf(src) \in tasks[n].touches
      /\ \A p : ~Holds(n, p) /\ ~Removes(n, p)
      /\ UNCHANGED <<versioning, objects, everEnabled, contended, torn>>
  BY Linking
<1>2. /\ DOMAIN link' = DOMAIN link \cup {path} /\ link'[path] = link[src] /\ src \in DOMAIN link /\ path \notin DOMAIN link
      /\ \A p \in DOMAIN link : link'[p] = link[p]
  BY DEF With, Linked
<1>3. Changes({path, src}) BY <1>2 DEF Changes
<1>4. Moves(n) /\ tasks'[n] = [tasks[n] EXCEPT !.pc = "commit"] BY <1>1, Going DEF CopyPcs
<1>5. /\ tasks'[n].b \notin everEnabled => tasks'[n].vid = Null
      /\ tasks'[n].touches = tasks[n].touches
  BY <1>1, <1>4, NameOn
<1>6. Within(n, {path, src}) BY <1>1, <1>3, <1>4, <1>5 DEF Within
<1>7. UnversionedInv' BY <1>1, <1>4, <1>5, UnversionedSame
<1>8. ASSUME Quiet(n) PROVE InOrder(n)
  <2>1. /\ link[src] \in inPlace \/ tasks[n].etag = <<link[src]>>
        /\ \A b \in Buckets, k \in Keys : \A v \in Versions(b, k) : v.data.file = src => v.size = tasks[n].size
    BY <1>1, <1>8, SourceAgrees
  <2>2. Held(path)'
    <3>1. tasks'[n].pc = "commit" /\ tasks'[n].data.file = path /\ n \in DOMAIN tasks'
      BY <1>1, <1>4 DEF CopyTasks, Moves
    <3> QED BY <3>1 DEF Held, Holds
  <2>3. ASSUME NEW b \in Buckets, NEW k \in Keys, <<b, k>> \in tasks[n].touches PROVE AgreeAt(b, k)' /\ ClaimedAt(b, k)'
    <3>1. AgreeAt(b, k) /\ ClaimedAt(b, k) BY <1>8, <2>3 DEF QInv, KeysInv, Quiet
    <3>2. ASSUME NEW p \in Paths PROVE KeepsHold(n, p) /\ (Linked(p)' => Held(p)' \/ (Linked(p) /\ KeepsRemoval(n, p)))
      BY <1>1, <1>2, <2>2 DEF KeepsHold, KeepsRemoval, Linked
    <3>3. ASSUME NEW v \in Versions(b, k), v.data.file # None PROVE Held(v.data.file)' \/ (FileAgrees(v) => FileAgrees(v)')
      <4>1. CASE v.data.file = path BY <4>1, <2>2
      <4>2. CASE v.data.file = src
        <5>1. v.size = tasks[n].size /\ tasks[n].size \in Nat /\ Threshold \in Nat
          BY <4>2, <2>1, <1>1, <3>3, S3Assumption DEF CopyTasks
        <5>2. ~(v.size <= Threshold) BY <5>1, <1>1
        <5> QED BY <5>2, <4>2, <1>2 DEF FileAgrees, Linked
      <4>3. CASE v.data.file \notin {path, src} BY <4>3, <3>3, <1>3, FileOfKey, FileStays
      <4> QED BY <4>1, <4>2, <4>3
    <3>4. Others(n) /\ objects'[b][k] = objects[b][k] /\ everEnabled \subseteq everEnabled'
      BY <1>1, <1>4 DEF Moves, Others
    <3> QED BY <3>1, <3>2, <3>3, <3>4, KeyFiles
  <2>4. QuietTask(n)'
    <3>1. Linked(path)' /\ (link'[path] \in inPlace' \/ tasks[n].etag = <<link'[path]>>)
      BY <2>1, <1>2 DEF Linked
    <3> QED BY <3>1, <1>1, <1>4, CopyReady
  <2> QED BY <2>3, <2>4 DEF InOrder
<1> QED BY <1>6, <1>7, <1>8, WithinKeeps

\* fs::copy over a file that is there: all its names are written over, which no short file has two of.
LEMMA OverwriteQuiet ==
    ASSUME IInv, QInv, NEW n, CopyLink(n), NEW path, path = tasks[n].path, Linked(path), link' = link,
           inPlace' = inPlace \cup {link[path]}, NEW from \in Nat, NEW to \in Nat,
           tasks' = [tasks EXCEPT ![n].pc = "copyFill", ![n].from = from, ![n].to = to]
    PROVE  QInv'
<1>1. /\ n \in InFlight /\ n \in DOMAIN tasks /\ tasks[n] \in CopyTasks /\ TypeInv /\ tasks[n].pc = "copyLink"
      /\ path \in Paths /\ tasks[n].data.file = path
      /\ KeyOf(path) \in tasks[n].touches
      /\ \A p : ~Holds(n, p) /\ ~Removes(n, p)
      /\ UNCHANGED <<versioning, objects, everEnabled, contended, torn>>
  BY Linking
<1> DEFINE u == [tasks[n] EXCEPT !.pc = "copyFill", !.from = from, !.to = to]
<1>2. tasks' = [tasks EXCEPT ![n] = u] BY <1>1 DEF TypeInv
<1>3. /\ u \in CopyTasks /\ u.pc = "copyFill" /\ u.op = "copy" /\ u.touches = tasks[n].touches /\ u.b = tasks[n].b
      /\ u.vid = tasks[n].vid /\ u.data = tasks[n].data /\ tasks[n].op = "copy"
  BY <1>1 DEF CopyTasks, CopyPcs
<1> HIDE DEF u
<1>4. Moves(n) /\ tasks'[n] = u
  <2>1. /\ DOMAIN tasks' = DOMAIN tasks /\ Len(tasks') = Len(tasks) /\ tasks'[n] = u
        /\ \A m \in DOMAIN tasks : m # n => tasks'[m] = tasks[m]
    BY <1>1, <1>2 DEF TypeInv
  <2> QED BY <2>1, <1>1, <1>3 DEF Moves, Past, BucketPcs
<1>5. u.b \notin everEnabled => u.vid = Null
  BY <1>1, <1>3 DEF QInv, UnversionedInv, Copying, CopyPcs
<1>6. Changes({path}) BY <1>1 DEF Changes, Linked
<1>7. Within(n, {path}) BY <1>1, <1>3, <1>4, <1>6 DEF Within
<1>8. UnversionedInv' BY <1>1, <1>4, <1>5, UnversionedSame
<1>9. ASSUME Quiet(n) PROVE InOrder(n)
  <2>1. Held(path)' BY <1>1, <1>3, <1>4 DEF Held, Holds, Moves
  <2>2. ASSUME NEW b \in Buckets, NEW k \in Keys, <<b, k>> \in tasks[n].touches PROVE AgreeAt(b, k)' /\ ClaimedAt(b, k)'
    <3>1. AgreeAt(b, k) /\ ClaimedAt(b, k) BY <1>9, <2>2 DEF QInv, KeysInv, Quiet
    <3>2. \A p \in Paths : KeyOf(p) = <<b, k>> => KeepsHold(n, p) /\ KeepsRemoval(n, p) /\ (p \notin {path} \/ Held(p)')
      BY <1>1, <2>1 DEF KeepsHold, KeepsRemoval
    <3>3. Others(n) /\ objects'[b][k] = objects[b][k] /\ everEnabled \subseteq everEnabled'
      BY <1>1, <1>4 DEF Moves, Others
    <3> QED BY <3>1, <3>2, <3>3, <1>6, KeyStays
  <2>3. QuietTask(n)'
    <3>1. \A p \in Paths : Holds(n, p)' => p = path BY <1>1, <1>3, <1>4 DEF Holds
    <3>2. Linked(path)' /\ link'[path] \in inPlace' BY DEF Linked
    <3>3. QuietCopy(n)' BY <3>1, <3>2, <1>3, <1>4 DEF QuietCopy
    <3> QED BY <3>3, <1>3, <1>4 DEF QuietTask, Putting, Removes
  <2> QED BY <2>2, <2>3 DEF InOrder
<1> QED BY <1>7, <1>8, <1>9, WithinKeeps

LEMMA CopyLinkQuiet ==
    ASSUME IInv, QInv, NEW n, CopyLink(n)
    PROVE  QInv'
<1>1. /\ n \in InFlight /\ n \in DOMAIN tasks /\ tasks[n] \in CopyTasks /\ TypeInv /\ tasks[n].pc = "copyLink"
      /\ tasks[n].path \in Paths /\ tasks[n].srcPath \in Paths /\ tasks[n].data.file = tasks[n].path
      /\ UNCHANGED <<versioning, objects, everEnabled, contended, torn>>
  BY Linking
<1>2. PICK path, src : path = tasks[n].path /\ src = tasks[n].srcPath OBVIOUS
<1>3. CASE src = path
  <2>1. Goto(n, "commit") /\ UNCHANGED <<link, inPlace>> BY <1>2, <1>3 DEF CopyLink
  <2>2. Changes({}) BY <2>1, Unwritten
  <2>3. Moves(n) /\ tasks'[n] = [tasks[n] EXCEPT !.pc = "commit"]
    BY <2>1, <1>1, Going DEF CopyPcs
  <2>4. /\ tasks'[n].b \notin everEnabled => tasks'[n].vid = Null
        /\ tasks'[n].touches = tasks[n].touches
    BY <2>3, <1>1, NameOn
  <2>5. Underway(n) BY <2>2, <2>3, <2>4, <1>1 DEF Underway
  <2>6. ASSUME Quiet(n) PROVE QuietTask(n)'
    <3>1. Linked(src) /\ (link[src] \in inPlace \/ tasks[n].etag = <<link[src]>>)
      BY <2>6, <1>1, <1>2, SourceAgrees
    <3>2. Linked(path)' /\ (link'[path] \in inPlace' \/ tasks[n].etag = <<link'[path]>>)
      BY <3>1, <2>1, <1>3 DEF Linked
    <3> QED BY <3>2, <2>3, <1>1, <1>2, CopyReady
  <2> QED BY <2>4, <2>5, <2>6, UnderwayKeeps
<1>4. CASE src # path /\ (~Linked(src) \/ Dir(path) \notin dirs)
  <2>1. Finish(n) /\ UNCHANGED <<link, inPlace>> BY <1>2, <1>4 DEF CopyLink
  <2> QED BY <2>1, <1>1, Unwritten, EndsQuietly
<1>5. CASE src # path /\ Linked(src) /\ Dir(path) \in dirs /\ ~Linked(path)
  <2>1. link' = With(link, path, link[src]) /\ Goto(n, "commit") /\ inPlace' = inPlace
    BY <1>2, <1>5 DEF CopyLink
  <2> QED BY <2>1, <1>2, <1>5, HardLinkQuiet
<1>6. CASE src # path /\ Linked(src) /\ Dir(path) \in dirs /\ Linked(path)
  <2>1. PICK from, to : from = link[src] /\ to = link[path] OBVIOUS
  <2>2. /\ inPlace' = inPlace \cup {to} /\ UNCHANGED link
        /\ tasks' = [tasks EXCEPT ![n].pc = "copyFill", ![n].from = from, ![n].to = to]
    BY <2>1, <1>2, <1>6 DEF CopyLink
  <2>3. from \in DOMAIN disk /\ to \in DOMAIN disk /\ DOMAIN disk \subseteq DOMAIN tasks
    BY <2>1, <1>6 DEF IInv, FilesInv, FileInv, Linked
  <2>4. from \in Nat /\ to \in Nat BY <2>3, <1>1, Numbered
  <2> QED BY <2>1, <2>2, <2>4, <1>2, <1>6, OverwriteQuiet
<1> QED BY <1>3, <1>4, <1>5, <1>6

LEMMA CopyFillQuiet ==
    ASSUME IInv, QInv, NEW n, CopyFill(n)
    PROVE  QInv'
<1>1. /\ n \in InFlight /\ n \in DOMAIN tasks /\ tasks[n] \in CopyTasks /\ TypeInv /\ TaskInv(n)
      /\ tasks[n].pc = "copyFill"
  BY Busy, Kinds DEF CopyFill
<1>2. UNCHANGED <<versioning, objects, link, inPlace, everEnabled, contended, torn>> /\ Goto(n, "commit")
  BY DEF CopyFill, meta, history
<1>3. PICK path \in Paths : path = tasks[n].path BY <1>1 DEF CopyTasks
<1>4. tasks[n].data.file = path BY <1>1, <1>3 DEF TaskInv, Copying, CopyTasks, CopyInv
<1>5. Moves(n) /\ tasks'[n] = [tasks[n] EXCEPT !.pc = "commit"]
  BY <1>1, <1>2, Going DEF CopyPcs
<1>6. /\ tasks'[n].b \notin everEnabled => tasks'[n].vid = Null
      /\ tasks'[n].touches = tasks[n].touches
  BY <1>1, <1>5, NameOn
<1>7. Changes({}) BY <1>2, Unwritten
<1>8. Within(n, {}) BY <1>2, <1>5, <1>6, <1>7 DEF Within
<1>9. UnversionedInv' BY <1>2, <1>5, <1>6, UnversionedSame
<1>10. ASSUME Quiet(n) PROVE InOrder(n)
  <2>1. ASSUME NEW b \in Buckets, NEW k \in Keys, <<b, k>> \in tasks[n].touches PROVE AgreeAt(b, k)' /\ ClaimedAt(b, k)'
    <3>1. AgreeAt(b, k) /\ ClaimedAt(b, k) BY <1>10, <2>1 DEF QInv, KeysInv, Quiet
    <3>2. tasks'[n].pc = "commit" /\ tasks'[n].data = tasks[n].data /\ n \in DOMAIN tasks'
      BY <1>1, <1>5 DEF CopyTasks, Moves
    <3>3. \A p \in Paths : KeyOf(p) = <<b, k>> => KeepsHold(n, p) /\ KeepsRemoval(n, p) /\ p \notin {}
      BY <3>2, <1>1 DEF KeepsHold, KeepsRemoval, Holds, Removes
    <3>4. Others(n) /\ objects'[b][k] = objects[b][k] /\ everEnabled \subseteq everEnabled'
      BY <1>2, <1>5 DEF Moves, Others
    <3> QED BY <3>1, <3>3, <3>4, <1>7, KeyStays
  <2>2. QuietTask(n)'
    <3>1. QuietCopy(n)
      BY <1>1, <1>10 DEF QInv, QuietTasksInv, QuietTask, Copying, CopyTasks
    <3>2. Linked(path) /\ link[path] \in inPlace BY <3>1, <1>1, <1>4 DEF QuietCopy, Holds
    <3>3. Linked(path)' /\ link'[path] \in inPlace' BY <3>2, <1>2 DEF Linked
    <3> QED BY <3>3, <1>1, <1>4, <1>5, CopyReady
  <2> QED BY <2>1, <2>2 DEF InOrder
<1> QED BY <1>8, <1>9, <1>10, WithinKeeps

-----------------------------------------------------------------------------
(* Recording versions where nobody races *)

LEMMA RecordedQuiet ==
    ASSUME IInv, QInv, NEW n, NEW R, Recorded(n, R),
           \A p \in R : KeyOf(p) \in tasks[n].touches,
           Quiet(n) => \A b \in Buckets, k \in Keys : <<b, k>> \in tasks[n].touches => Settled(n, R, b, k)
    PROVE  QInv'
<1>1. /\ n \in InFlight /\ n \in DOMAIN tasks /\ n \in DOMAIN tasks' /\ Moves(n)
      /\ UNCHANGED <<versioning, link, inPlace, contended, torn, everEnabled>>
      /\ tasks[n].pc # "cleanup" /\ tasks'[n].pc \in {"done", "cleanup"}
  BY DEF Recorded, Moves, InFlight
<1>2. Changes({}) BY <1>1, Unwritten
<1>3. ~Putting(n)' /\ ~Copying(n)' /\ tasks'[n].pc # "copyVersioning" /\ (n \in InFlight' => tasks'[n].pc = "cleanup")
  BY <1>1 DEF Putting, Copying, PutPcs, CopyPcs, InFlight
<1>4. Within(n, {}) BY <1>1, <1>2, <1>3 DEF Within, Recorded
<1>5. UnversionedInv'
  <2>1. \A b \in Buckets : versioning'[b] \in {versioning[b], None} BY <1>1
  <2>2. \A b \in Buckets, k \in Keys : b \notin everEnabled => \A v \in Versions(b, k)' : v.vid = Null
    BY Zenon DEF Recorded
  <2> QED BY <2>1, <2>2, <1>1, <1>3, UnversionedStays DEF QInv
<1>6. ASSUME Quiet(n), NEW b \in Buckets, NEW k \in Keys, <<b, k>> \in tasks[n].touches
      PROVE  AgreeAt(b, k)' /\ ClaimedAt(b, k)'
  <2>1. Settled(n, R, b, k) /\ AgreeAt(b, k) /\ ClaimedAt(b, k)
    BY <1>6 DEF QInv, KeysInv, Quiet
  <2>2. ASSUME NEW p \in Paths, KeyOf(p) = <<b, k>>, NEW m \in DOMAIN tasks, Holds(m, p) \/ Removes(m, p)
        PROVE  m = n /\ Holds(n, p)
    <3>1. m = n BY <2>2, <1>1, <1>6, HeldAlone
    <3> QED BY <3>1, <2>2, <1>1 DEF Removes
  <2>3. ASSUME NEW v \in Versions(b, k)' PROVE Agrees(v)'
    <3>1. CASE v \in Versions(b, k) /\ ~Holds(n, v.data.file)
      <4>1. Agrees(v) BY <3>1, <2>1 DEF AgreeAt
      <4>2. CASE v.data.file = None BY <4>1, <4>2 DEF Agrees
      <4>3. CASE v.data.file # None
        <5>1. v.data.file \in Paths /\ KeyOf(v.data.file) = <<b, k>> /\ v \in VersionRecords
          BY <3>1, <4>3, FileOfKey
        <5>2. ~Held(v.data.file) BY <5>1, <3>1, <2>2 DEF Held
        <5>3. FileAgrees(v) BY <4>1, <4>3, <5>2 DEF Agrees
        <5>4. FileAgrees(v)' BY <5>1, <5>3, <4>3, <1>2, FileStays
        <5> QED BY <5>4, <4>3 DEF Agrees
      <4> QED BY <4>2, <4>3
    <3> QED BY <3>1, <2>1 DEF Settled
  <2>4. ASSUME b \notin everEnabled', NEW p \in Paths, p = <<b, k, Null>>, Linked(p)' PROVE Claimed(b, k, p)'
    <3>1. Linked(p) /\ b \notin everEnabled /\ KeyOf(p) = <<b, k>>
      BY <1>1, <2>4 DEF Linked, KeyOf
    <3>2. Claimed(b, k, p) BY <3>1, <2>1, <2>4 DEF ClaimedAt
    <3>3. Holds(n, p) \/ \E v \in Versions(b, k) : v.data.file = p
      BY <3>1, <3>2, <2>2 DEF Claimed, Held
    <3>4. p \in R \/ \E v \in Versions(b, k)' : v.data.file = p
      BY <3>1, <3>3, <2>1, <2>4 DEF Settled
    <3>5. CASE p \in R
      <4>1. Removes(n, p)' BY <3>5, <1>1 DEF Removes, Recorded
      <4> QED BY <4>1, <1>1 DEF Claimed
    <3> QED BY <3>4, <3>5 DEF Claimed
  <2> QED BY <2>3, <2>4 DEF AgreeAt, ClaimedAt
<1>7. ASSUME Quiet(n), n \in InFlight' PROVE QuietTask(n)'
  <2>1. tasks'[n].pc = "cleanup" /\ tasks'[n].remove = R BY <1>3, <1>7 DEF Recorded
  <2>2. ASSUME NEW p \in Paths, Removes(n, p)', NEW b \in Buckets, NEW k \in Keys, KeyOf(p) = <<b, k>>,
               NEW v \in Versions(b, k)'
        PROVE  v.data.file # p
    <3>1. p \in R /\ <<b, k>> \in tasks[n].touches BY <2>1, <2>2 DEF Removes
    <3> QED BY <3>1, <2>2, <1>7 DEF Settled
  <2> QED BY <2>2, <1>3 DEF QuietTask
<1>8. Quiet(n) => InOrder(n) BY <1>6, <1>7 DEF InOrder
<1> QED BY <1>4, <1>5, <1>8, WithinKeeps

\* Files to remove are all removed.
LEMMA RemovingAll ==
    ASSUME TypeInv, NEW n \in InFlight, tasks[n].op \in {"put", "copy", "delete"}, tasks[n].pc # "cleanup",
           NEW R \in SUBSET Paths, ThenRemove(n, R), torn' = torn,
           \A p \in R : KeyOf(p) \in tasks[n].touches
    PROVE  /\ Moves(n) /\ tasks'[n].pc \in {"done", "cleanup"}
           /\ IF tasks'[n].pc = "done" THEN R = {} ELSE tasks'[n].remove = R /\ tasks'[n].touches = tasks[n].touches
<1>1. /\ Moves(n)
      /\ \/ tasks'[n].pc = "done"
         \/ tasks'[n].pc = "cleanup" /\ tasks'[n].remove = R /\ tasks'[n].touches = tasks[n].touches
  BY Removing
<1>2. ASSUME R # {} PROVE tasks'[n].pc = "cleanup"
  <2> DEFINE u == [op |-> tasks[n].op, pc |-> "cleanup", touches |-> tasks[n].touches, remove |-> R]
  <2>1. tasks' = [tasks EXCEPT ![n] = u] /\ n \in DOMAIN tasks /\ tasks \in Seq(TaskRecords)
    BY <1>2 DEF ThenRemove, InFlight, TypeInv
  <2>2. u.pc = "cleanup" OBVIOUS
  <2> HIDE DEF u
  <2> QED BY ONLY <2>1, <2>2
<1> QED BY <1>1, <1>2

\* What is recorded of an object, and what of the versions before it stays.
LEMMA Recording ==
    ASSUME IInv, NEW n, NEW t, Commits(n, t), NEW v, v = VersionOf(t), NEW b, b = t.b, NEW k, k = t.k
    PROVE  /\ v \in Versions(b, k)'
           /\ \A w \in Versions(b, k)' : w = v \/ (t.vid # Null /\ w \in Versions(b, k))
           /\ \A c \in Buckets, l \in Keys : ~(c = b /\ l = k) => objects'[c][l] = objects[c][l]
           /\ Replaced(t) \in SUBSET Paths
           /\ \A p \in Replaced(t) : KeyOf(p) = <<b, k>> /\ p # t.data.file /\ t.vid = Null
           /\ t.vid = Null /\ (\A w \in Versions(b, k) : w.vid = Null) =>
                  \A w \in Versions(b, k) : w.data.file \in Replaced(t) \cup {None, t.data.file}
<1>1. /\ b \in Buckets /\ k \in Keys /\ v \in VersionRecords /\ v.vid = t.vid
  BY Written DEF Commits
<1>2. PICK s : s = objects[b][k] OBVIOUS
<1>3. /\ s \in Seq(VersionRecords) /\ objects \in [Buckets -> [Keys -> Seq(VersionRecords)]]
      /\ Versions(b, k) = {s[i] : i \in DOMAIN s} /\ Unique(s)
  <2>1. objects \in [Buckets -> [Keys -> Seq(VersionRecords)]] /\ VersionsInv
    BY Zenon DEF IInv, TypeInv, TypeOK
  <2>2. Versions(b, k) = {s[i] : i \in DOMAIN s} BY <1>2 DEF Versions
  <2>3. Unique(s) BY <2>1, <1>1, <1>2 DEF VersionsInv, Unique
  <2> QED BY <2>1, <2>2, <2>3, <1>1, <1>2
<1>4. PICK r : r = PutObjectVersion(s, v) OBVIOUS
<1>5. /\ objects' = [objects EXCEPT ![b][k] = r] /\ r \in Seq(VersionRecords)
      /\ r = IF t.vid = Null THEN <<v>> ELSE <<v>> \o s
  BY <1>1, <1>2, <1>3, <1>4, Prepended DEF PutObjectVersion, Commits
<1>6. /\ objects'[b][k] = r
      /\ \A c \in Buckets, l \in Keys : ~(c = b /\ l = k) => objects'[c][l] = objects[c][l]
  <2> DEFINE row == [objects[b] EXCEPT ![k] = r]
  <2>1. row[k] = r /\ \A l \in Keys : l # k => row[l] = objects[b][l] BY <1>1, <1>3
  <2>2. objects' = [objects EXCEPT ![b] = row] BY <1>5
  <2> HIDE DEF row
  <2> QED BY <2>1, <2>2, <1>1, <1>3
<1>7. Versions(b, k)' = {r[i] : i \in DOMAIN r} BY <1>6 DEF Versions
<1>8. 1 \in DOMAIN r /\ r[1] = v /\ \A i \in DOMAIN r : r[i] = v \/ (t.vid # Null /\ \E j \in DOMAIN s : r[i] = s[j])
  BY <1>1, <1>3, <1>5, Prepended
<1>9. v \in Versions(b, k)' /\ \A w \in Versions(b, k)' : w = v \/ (t.vid # Null /\ w \in Versions(b, k))
  BY <1>3, <1>7, <1>8
<1>10. PICK prev : prev = Previous(s) OBVIOUS
<1>11. Replaced(t) = IF t.vid # Null \/ prev = None \/ prev.file = None \/ prev.file = t.data.file THEN {} ELSE {prev.file}
  BY <1>2, <1>10 DEF Replaced
<1>12. s # <<>> => prev = s[1].data /\ 1 \in DOMAIN s /\ s[1] \in Versions(b, k)
  BY <1>3, <1>10 DEF Previous
<1>13. ASSUME NEW p \in Replaced(t) PROVE p \in Paths /\ KeyOf(p) = <<b, k>> /\ p # t.data.file /\ t.vid = Null
  <2>1. t.vid = Null /\ prev # None /\ prev.file # None /\ p = prev.file /\ p # t.data.file
    BY <1>11, <1>13
  <2>2. s # <<>> BY <2>1, <1>10 DEF Previous
  <2>3. PICK w \in Versions(b, k) : w = s[1] BY <2>2, <1>12
  <2>4. w.data.file \in Paths /\ KeyOf(w.data.file) = <<b, k>>
    BY <2>1, <2>2, <2>3, <1>1, <1>12, FileOfKey
  <2> QED BY <2>1, <2>2, <2>3, <2>4, <1>12
<1>14. ASSUME t.vid = Null, \A w \in Versions(b, k) : w.vid = Null, NEW w \in Versions(b, k)
       PROVE  w.data.file \in Replaced(t) \cup {None, t.data.file}
  <2>1. PICK i \in DOMAIN s : w = s[i] BY <1>3
  <2>2. s # <<>> BY <2>1
  <2>3. s[i].vid = Null /\ s[1].vid = Null BY <2>1, <2>2, <1>12, <1>14
  <2>4. i = 1 BY <2>2, <2>3, <1>3, <1>12 DEF Unique
  <2>5. prev = w.data /\ w.data # None BY <2>1, <2>2, <2>4, <1>1, <1>12, VersionFile
  <2> QED BY <2>5, <1>11, <1>14
<1> QED BY <1>6, <1>9, <1>13, <1>14

\* A request that nobody races with has in place what it is about to record.
LEMMA RecordAgrees ==
    ASSUME IInv, QInv, NEW n \in InFlight, Quiet(n), tasks[n] \in PutTasks \cup CopyTasks, tasks[n].pc = "commit",
           UNCHANGED <<link, inPlace>>, NEW t, t = tasks[n], NEW v, v = VersionOf(t)
    PROVE  Agrees(v)'
<1>1. /\ t.data.file \in {None, t.path} /\ t.path \in Paths
      /\ v.data = t.data /\ ~v.marker /\ v.etag = t.etag /\ v.size = t.size
      /\ t.op = "put" => (t.etag = <<n>> /\ (t.data.file = None => t.data.bytes = <<n>>))
  BY Written
<1>2. QuietTask(n) /\ n \in DOMAIN tasks /\ TaskInv(n)
  BY DEF QInv, QuietTasksInv, InFlight, IInv, TasksInv
<1>3. PICK p : p = t.data.file OBVIOUS
<1>4. CASE t \in PutTasks
  <2>1. QuietPut(n) /\ t.op = "put" BY <1>2, <1>4 DEF QuietTask, Putting, PutTasks
  <2>2. CASE p = None BY <2>1, <2>2, <1>1, <1>3 DEF Agrees
  <2>3. CASE p # None
    <3>1. Linked(p) /\ link[p] = n /\ Unshared(p) BY <2>1, <2>3, <1>1, <1>3 DEF QuietPut
    <3>2. FileAgrees(v)' BY <3>1, <2>1, <1>1, <1>3 DEF FileAgrees, Linked, Unshared
    <3> QED BY <3>2, <2>3, <1>1, <1>3 DEF Agrees
  <2> QED BY <2>2, <2>3
<1>5. CASE t \in CopyTasks
  <2>1. QuietCopy(n) /\ CopyInv(n) /\ t.size \in Nat
    BY <1>2, <1>5 DEF QuietTask, TaskInv, Copying, CopyTasks
  <2>2. CASE p = None BY <2>1, <2>2, <1>1, <1>3 DEF Agrees, QuietCopy
  <2>3. CASE p # None
    <3>1. Linked(p) /\ (link[p] \in inPlace \/ t.etag = <<link[p]>>)
      BY <2>1, <2>3, <1>1, <1>3 DEF QuietCopy, Holds
    <3>2. ~(t.size <= Threshold)
      <4>1. t.size > Threshold BY <2>1, <2>3, <1>3 DEF CopyInv
      <4>2. t.size \in Nat /\ Threshold \in Nat BY <2>1, S3Assumption, Zenon
      <4> QED BY ONLY <4>1, <4>2
    <3>3. FileAgrees(v)' BY <3>1, <3>2, <1>1, <1>3 DEF FileAgrees, Linked
    <3> QED BY <3>3, <2>3, <1>1, <1>3 DEF Agrees
  <2> QED BY <2>2, <2>3
<1> QED BY <1>4, <1>5

LEMMA CommitQuiet ==
    ASSUME IInv, QInv, NEW n \in InFlight, tasks[n] \in PutTasks \cup CopyTasks, tasks[n].pc = "commit",
           objects' = [objects EXCEPT ![tasks[n].b][tasks[n].k] = PutObjectVersion(@, VersionOf(tasks[n]))],
           ThenRemove(n, Replaced(tasks[n])),
           UNCHANGED <<versioning, link, disk, dirs, known, contended, torn, inPlace, everEnabled>>
    PROVE  QInv'
<1>1. PICK t, v, b, k, R : t = tasks[n] /\ v = VersionOf(t) /\ b = t.b /\ k = t.k /\ R = Replaced(t)
  OBVIOUS
<1>2. /\ b \in Buckets /\ k \in Keys /\ <<b, k>> \in t.touches /\ t.op \in {"put", "copy"}
      /\ t.vid \in {Null, <<n, 1>>} /\ t.path = <<b, k, t.vid>> /\ t.path \in Paths
      /\ t.data.file \in {None, t.path} /\ v.vid = t.vid /\ v.data = t.data
  BY <1>1, Written
<1>3. /\ v \in Versions(b, k)'
      /\ \A w \in Versions(b, k)' : w = v \/ (t.vid # Null /\ w \in Versions(b, k))
      /\ \A c \in Buckets, l \in Keys : ~(c = b /\ l = k) => objects'[c][l] = objects[c][l]
      /\ R \in SUBSET Paths
      /\ \A p \in R : KeyOf(p) = <<b, k>> /\ p # t.data.file /\ t.vid = Null
      /\ t.vid = Null /\ (\A w \in Versions(b, k) : w.vid = Null) =>
             \A w \in Versions(b, k) : w.data.file \in R \cup {None, t.data.file}
  <2>1. /\ v \in Versions(b, k)'
        /\ \A w \in Versions(b, k)' : w = v \/ (t.vid # Null /\ w \in Versions(b, k))
        /\ \A c \in Buckets, l \in Keys : ~(c = b /\ l = k) => objects'[c][l] = objects[c][l]
        /\ Replaced(t) \in SUBSET Paths
        /\ \A p \in Replaced(t) : KeyOf(p) = <<b, k>> /\ p # t.data.file /\ t.vid = Null
        /\ t.vid = Null /\ (\A w \in Versions(b, k) : w.vid = Null) =>
               \A w \in Versions(b, k) : w.data.file \in Replaced(t) \cup {None, t.data.file}
    <3>1. Commits(n, t) BY <1>1 DEF Commits
    <3> QED BY <3>1, <1>1, Recording
  <2> QED BY <2>1, <1>1
<1>4. /\ TypeInv /\ n \in DOMAIN tasks /\ ~Past(n) /\ UnversionedInv /\ (Putting(n) \/ Copying(n))
  BY DEF IInv, InFlight, Past, QInv, Putting, Copying, PutTasks, CopyTasks
<1>5. /\ Moves(n) /\ tasks'[n].pc \in {"done", "cleanup"}
      /\ IF tasks'[n].pc = "done" THEN R = {} ELSE tasks'[n].remove = R /\ tasks'[n].touches = tasks[n].touches
  <2>1. tasks[n].op \in {"put", "copy", "delete"} /\ ThenRemove(n, R) /\ \A p \in R : KeyOf(p) \in tasks[n].touches
    BY <1>1, <1>2, <1>3
  <2> QED BY <2>1, <1>3, <1>4, RemovingAll
<1>6. b \notin everEnabled => t.vid = Null BY <1>1, <1>4 DEF UnversionedInv
<1>7. ASSUME NEW c \in Buckets, NEW l \in Keys, c \notin everEnabled, NEW w \in Versions(c, l)' PROVE w.vid = Null
  <2>1. CASE c = b /\ l = k BY <2>1, <1>2, <1>3, <1>6, <1>7
  <2>2. CASE ~(c = b /\ l = k)
    <3>1. w \in Versions(c, l) BY <2>2, <1>3, <1>7 DEF Versions
    <3> QED BY <3>1, <1>4, <1>7 DEF UnversionedInv
  <2> QED BY <2>1, <2>2
<1>8. Recorded(n, R)
  <2>1. \A c \in Buckets, l \in Keys : <<c, l>> \notin tasks[n].touches => objects'[c][l] = objects[c][l]
    BY <1>1, <1>2, <1>3
  <2> QED BY <2>1, <1>5, <1>7 DEF Recorded
<1>9. ASSUME Quiet(n), NEW c \in Buckets, NEW l \in Keys, <<c, l>> \in tasks[n].touches PROVE Settled(n, R, c, l)
  <2>1. CASE c = b /\ l = k
    <3>1. ASSUME NEW w \in Versions(b, k)' PROVE (w \in Versions(b, k) /\ ~Holds(n, w.data.file)) \/ Agrees(w)'
      <4>1. CASE w = v BY <4>1, <1>1, <1>9, RecordAgrees
      <4>2. CASE t.vid # Null /\ w \in Versions(b, k)
        <5>1. ASSUME Holds(n, w.data.file), w.data.file # None PROVE FALSE
          <6>1. w.data.file = t.path /\ w.data.file = <<b, k, w.vid>>
            BY <5>1, <4>2, <1>1, <1>2, FileOfKey DEF Holds
          <6>2. w.vid = t.vid
            <7>1. <<b, k, w.vid>> = <<b, k, t.vid>> BY <6>1, <1>2
            <7> QED BY ONLY <7>1
          <6>3. t.vid = <<n, 1>> /\ t.vid[1] = n BY <4>2, <1>2
          <6>4. Past(w.vid[1]) BY <6>2, <4>2, <1>2, VersionFile
          <6> QED BY <6>2, <6>3, <6>4, <1>4
        <5>2. CASE w.data.file = None
          <6>1. Agrees(w) BY <4>2, <1>2, <1>9, <2>1 DEF QInv, KeysInv, Quiet, AgreeAt
          <6> QED BY <6>1, <5>2 DEF Agrees
        <5> QED BY <5>1, <5>2, <4>2
      <4> QED BY <4>1, <4>2, <1>3
    <3>2. ASSUME b \notin everEnabled, NEW p \in Paths, p = <<b, k, Null>>,
                 Holds(n, p) \/ \E w \in Versions(b, k) : w.data.file = p
          PROVE  p \in R \/ \E w \in Versions(b, k)' : w.data.file = p
      <4>1. CASE p = t.data.file BY <4>1, <1>2, <1>3
      <4>2. CASE p # t.data.file
        <5>1. PICK w \in Versions(b, k) : w.data.file = p BY <4>2, <3>2, <1>1 DEF Holds
        <5>2. \A x \in Versions(b, k) : x.vid = Null
          BY <3>2, <1>2, <1>4 DEF UnversionedInv
        <5>3. p # None BY NoneAssumption
        <5> QED BY <5>1, <5>2, <5>3, <4>2, <3>2, <1>3, <1>6
      <4> QED BY <4>1, <4>2
    <3>3. ASSUME NEW p \in R, NEW w \in Versions(b, k)' PROVE w.data.file # p
      BY <3>3, <1>2, <1>3
    <3> QED BY <3>1, <3>2, <3>3, <2>1 DEF Settled
  <2>2. CASE ~(c = b /\ l = k)
    <3>1. Versions(c, l)' = Versions(c, l) BY <2>2, <1>3 DEF Versions
    <3>2. ASSUME NEW p \in Paths, KeyOf(p) = <<c, l>> PROVE ~Holds(n, p) /\ p \notin R
      <4>1. KeyOf(t.path) = <<b, k>> /\ p # None BY <1>2, NoneAssumption DEF KeyOf
      <4> QED BY <4>1, <3>2, <2>2, <1>1, <1>2, <1>3 DEF Holds
    <3>3. ASSUME NEW w \in Versions(c, l)' PROVE (w \in Versions(c, l) /\ ~Holds(n, w.data.file)) \/ Agrees(w)'
      <4>1. CASE w.data.file # None
        <5>1. w.data.file \in Paths /\ KeyOf(w.data.file) = <<c, l>>
          BY <4>1, <3>1, <3>3, FileOfKey
        <5> QED BY <5>1, <3>1, <3>2, <3>3
      <4>2. CASE w.data.file = None
        <5>1. Agrees(w) BY <3>1, <3>3, <1>9 DEF QInv, KeysInv, Quiet, AgreeAt
        <5> QED BY <5>1, <4>2 DEF Agrees
      <4> QED BY <4>1, <4>2
    <3>4. ASSUME NEW p \in Paths, p = <<c, l, Null>>, Holds(n, p) \/ \E w \in Versions(c, l) : w.data.file = p
          PROVE  \E w \in Versions(c, l)' : w.data.file = p
      <4>1. KeyOf(p) = <<c, l>> BY <3>4 DEF KeyOf
      <4> QED BY <4>1, <3>1, <3>2, <3>4
    <3> QED BY <3>2, <3>3, <3>4, <1>3 DEF Settled
  <2> QED BY <2>1, <2>2
<1>10. \A p \in R : KeyOf(p) \in tasks[n].touches BY <1>1, <1>2, <1>3
<1> QED BY <1>8, <1>9, <1>10, RecordedQuiet

LEMMA CommitCopyQuiet ==
    ASSUME IInv, QInv, NEW n, CommitCopy(n)
    PROVE  QInv'
<1>1. n \in InFlight /\ tasks[n] \in PutTasks \cup CopyTasks /\ tasks[n].pc = "commit"
  BY Busy, Kinds DEF CommitCopy
<1> QED BY <1>1, CommitQuiet DEF CommitCopy, files, history

\* A put without a bucket gives up; its key is contended.
LEMMA CommitPutQuiet ==
    ASSUME IInv, QInv, NEW n, CommitPut(n)
    PROVE  QInv'
<1>1. /\ n \in InFlight /\ n \in DOMAIN tasks /\ tasks[n] \in PutTasks \cup CopyTasks /\ tasks[n].pc = "commit"
      /\ tasks[n].op = "put"
  BY Busy, Kinds DEF CommitPut
<1>2. UNCHANGED <<versioning, link, disk, dirs, known, contended, torn, inPlace, everEnabled>>
  BY DEF CommitPut, files, history
<1>3. CASE versioning[tasks[n].b] # None BY <1>1, <1>2, <1>3, CommitQuiet DEF CommitPut
<1>4. CASE versioning[tasks[n].b] = None
  <2>1. PICK t, b, R : t = tasks[n] /\ b = t.b /\ R = IF t.data.file = None THEN {} ELSE {t.data.file}
    OBVIOUS
  <2>2. ThenRemove(n, R) /\ objects' = objects BY <2>1, <1>4 DEF CommitPut
  <2>3. b \in Buckets /\ t.path \in Paths /\ t.data.file \in {None, t.path} /\ KeyOf(t.path) \in t.touches
    <3>1. /\ t.b \in Buckets /\ <<t.b, t.k>> \in t.touches /\ t.path = <<t.b, t.k, t.vid>> /\ t.path \in Paths
          /\ t.data.file \in {None, t.path}
      BY <2>1, <1>1, Written
    <3> QED BY <3>1, <2>1 DEF KeyOf
  <2>4. R \in SUBSET Paths /\ \A p \in R : KeyOf(p) \in tasks[n].touches BY <2>1, <2>3
  <2>5. /\ Moves(n) /\ tasks'[n].pc \in {"done", "cleanup"}
        /\ IF tasks'[n].pc = "done" THEN R = {} ELSE tasks'[n].remove = R /\ tasks'[n].touches = tasks[n].touches
    <3>1. TypeInv /\ tasks[n].op \in {"put", "copy", "delete"} /\ tasks[n].pc # "cleanup"
      BY <1>1 DEF IInv
    <3> QED BY <3>1, <2>2, <2>4, <1>1, <1>2, RemovingAll
  <2>6. Recorded(n, R)
    <3>1. \A c \in Buckets, k \in Keys : c \notin everEnabled => \A v \in Versions(c, k)' : v.vid = Null
      BY <2>2 DEF QInv, UnversionedInv, Versions
    <3> QED BY <3>1, <2>2, <2>5, <1>1, <1>2 DEF Recorded
  <2>7. ~Quiet(n)
    <3>1. ASSUME Quiet(n) PROVE FALSE
      <4>1. QuietPut(n) BY <3>1, <1>1 DEF QInv, QuietTasksInv, QuietTask, Putting, PutPcs
      <4> QED BY <4>1, <2>1, <2>3, <1>4 DEF QuietPut
    <3> QED BY <3>1
  <2> QED BY <2>4, <2>6, <2>7, RecordedQuiet
<1> QED BY <1>3, <1>4

LEMMA DeleteMetaQuiet ==
    ASSUME IInv, QInv, NEW n, DeleteMeta(n)
    PROVE  QInv'
<1>1. /\ n \in InFlight /\ n \in DOMAIN tasks /\ tasks[n] \in DeleteTasks /\ TypeInv
      /\ tasks[n].op = "delete" /\ tasks[n].pc = "delete"
  BY Busy, Kinds DEF DeleteMeta, DeleteTasks, IInv
<1>2. UNCHANGED <<versioning, link, contended, torn, inPlace, everEnabled>>
  BY DEF DeleteMeta, files, history
<1>3. PICK b, done : b = tasks[n].b /\ done = DeletedEntries(n) OBVIOUS
<1>4. objects' = [objects EXCEPT ![b] = done.objs] /\ ThenRemove(n, done.gone)
  BY <1>3 DEF DeleteMeta
<1>5. PICK len \in Nat : len = Len(tasks[n].entries) BY <1>1 DEF DeleteTasks
<1>6. BatchInv(n, len, done) BY <1>1, <1>3, <1>5, BatchDone
<1>7. /\ done \in Batch /\ b \in Buckets
      /\ \A k \in Keys :
           /\ \A x \in DOMAIN done.objs[k] : OfBatch(n, len, b, k, done.objs[k][x])
           /\ done.objs[k] = objects[b][k] \/ <<b, k>> \in tasks[n].touches
      /\ \A p \in done.gone :
           /\ p = <<b, p[2], p[3]>> /\ KeyOf(p) \in tasks[n].touches
           /\ \A x \in DOMAIN done.objs[p[2]] : done.objs[p[2]][x].data.file # p
      /\ (versioning[b] # "Enabled" /\ \A k \in Keys : \A v \in Versions(b, k) : v.vid = Null) =>
           \A k \in Keys : \A v \in Versions(b, k) :
              \/ \E x \in DOMAIN done.objs[k] : done.objs[k][x] = v
              \/ v.data.file \in done.gone \cup {None}
  BY <1>1, <1>3, <1>6 DEF BatchInv, DeleteTasks
<1>8. PICK R \in SUBSET Paths : R = done.gone BY <1>7 DEF Batch
<1>9. /\ objects'[b] = done.objs
      /\ \A c \in Buckets : c # b => objects'[c] = objects[c]
  <2>1. objects \in [Buckets -> [Keys -> Seq(VersionRecords)]]
    BY <1>1, Zenon DEF TypeInv, TypeOK
  <2>2. b \in Buckets BY <1>7
  <2>3. objects' = [objects EXCEPT ![b] = done.objs] BY <1>4
  <2> QED BY ONLY <2>1, <2>2, <2>3
<1>10. ASSUME NEW k \in Keys
       PROVE  /\ Versions(b, k)' = {done.objs[k][x] : x \in DOMAIN done.objs[k]}
              /\ \A v \in Versions(b, k)' : v \in Versions(b, k) \/ (versioning[b] = "Enabled" /\ v.marker /\ v.data.file = None)
  <2>1. Versions(b, k)' = {done.objs[k][x] : x \in DOMAIN done.objs[k]}
    BY <1>9 DEF Versions
  <2>2. ASSUME NEW v \in Versions(b, k)', v \notin Versions(b, k) PROVE versioning[b] = "Enabled" /\ v.marker /\ v.data.file = None
    <3>1. OfBatch(n, len, b, k, v) BY <2>1, <2>2, <1>7
    <3> QED BY <3>1, <2>2 DEF OfBatch, DeleteMarker, Inline
  <2> QED BY <2>1, <2>2
<1>11. UnversionedInv /\ (b \notin everEnabled => versioning[b] # "Enabled")
  BY <1>7 DEF QInv, UnversionedInv
<1>12. Recorded(n, R)
  <2>1. /\ Moves(n) /\ tasks'[n].pc \in {"done", "cleanup"}
        /\ IF tasks'[n].pc = "done" THEN R = {} ELSE tasks'[n].remove = R /\ tasks'[n].touches = tasks[n].touches
    <3>1. tasks[n].op \in {"put", "copy", "delete"} /\ tasks[n].pc # "cleanup" /\ ThenRemove(n, R)
          /\ \A p \in R : KeyOf(p) \in tasks[n].touches
      BY <1>1, <1>4, <1>7, <1>8
    <3> QED BY <3>1, <1>1, <1>2, RemovingAll
  <2>2. ASSUME NEW c \in Buckets, NEW k \in Keys, <<c, k>> \notin tasks[n].touches PROVE objects'[c][k] = objects[c][k]
    BY <2>2, <1>7, <1>9
  <2>3. ASSUME NEW c \in Buckets, NEW k \in Keys, c \notin everEnabled, NEW v \in Versions(c, k)' PROVE v.vid = Null
    <3>1. CASE c = b BY <3>1, <2>3, <1>10, <1>11 DEF UnversionedInv
    <3>2. CASE c # b
      <4>1. v \in Versions(c, k) BY <3>2, <2>3, <1>9 DEF Versions
      <4> QED BY <4>1, <2>3, <1>11 DEF UnversionedInv
    <3> QED BY <3>1, <3>2
  <2> QED BY <2>1, <2>2, <2>3, <1>1, <1>2 DEF Recorded
<1>13. ASSUME Quiet(n), NEW c \in Buckets, NEW k \in Keys, <<c, k>> \in tasks[n].touches PROVE Settled(n, R, c, k)
  <2>1. c = b
    <3>1. DeleteInv(n) BY <1>1 DEF IInv, TasksInv, TaskInv
    <3> QED BY <3>1, <1>3, <1>13 DEF DeleteInv
  <2>2. \A p : ~Holds(n, p) BY <1>1 DEF Holds
  <2>3. ASSUME NEW v \in Versions(b, k)' PROVE v \in Versions(b, k) \/ Agrees(v)'
    BY <2>3, <1>10 DEF Agrees
  <2>4. ASSUME b \notin everEnabled, NEW p \in Paths, NEW v \in Versions(b, k), v.data.file = p
        PROVE  p \in R \/ \E w \in Versions(b, k)' : w.data.file = p
    <3>1. \A l \in Keys : \A w \in Versions(b, l) : w.vid = Null
      BY <2>4, <1>7, <1>11 DEF UnversionedInv
    <3>2. (\E x \in DOMAIN done.objs[k] : done.objs[k][x] = v) \/ v.data.file \in done.gone \cup {None}
      BY <3>1, <2>4, <1>7, <1>11
    <3>3. p # None BY NoneAssumption
    <3> QED BY <3>2, <3>3, <2>4, <1>8, <1>10
  <2>5. ASSUME NEW p \in R, KeyOf(p) = <<b, k>>, NEW v \in Versions(b, k)' PROVE v.data.file # p
    <3>1. p[2] = k BY <2>5 DEF KeyOf
    <3> QED BY <3>1, <2>5, <1>7, <1>8, <1>10
  <2> QED BY <2>1, <2>2, <2>3, <2>4, <2>5 DEF Settled
<1>14. \A p \in R : KeyOf(p) \in tasks[n].touches BY <1>7, <1>8
<1> QED BY <1>12, <1>13, <1>14, RecordedQuiet

-----------------------------------------------------------------------------
(* Requests that start where nobody races *)

LEMMA Begins ==
    ASSUME IInv, NEW t, Begin(t), NEW n, n = Len(tasks) + 1
    PROVE  /\ n \in Nat /\ n \notin DOMAIN tasks /\ DOMAIN tasks' = DOMAIN tasks \cup {n} /\ tasks'[n] = t
           /\ \A m \in DOMAIN tasks : tasks'[m] = tasks[m]
           /\ inPlace' = inPlace /\ everEnabled' = everEnabled
<1> DEFINE S == TaskRecords \cup {t}
<1>1. tasks' = Append(tasks, t) /\ inPlace' = inPlace /\ everEnabled' = everEnabled
  BY DEF Begin
<1>2. tasks \in Seq(S) /\ t \in S
  <2>1. tasks \in Seq(TaskRecords) BY Zenon DEF IInv, TypeInv
  <2>2. DOMAIN tasks = 1..Len(tasks) /\ Len(tasks) \in Nat /\ \A m \in DOMAIN tasks : tasks[m] \in TaskRecords
    BY <2>1
  <2> QED BY <2>1, <2>2
<1> HIDE DEF S
<1> QED BY <1>1, <1>2

\* Requests that work on the same keys as the one that starts are contended from then on.
LEMMA ContentionBegun ==
    ASSUME IInv, ContentionInv, NEW t, Begin(t), NEW n, n = Len(tasks) + 1
    PROVE  ContentionInv' /\ contended \subseteq contended'
<1> DEFINE others == {m \in InFlight : tasks[m].touches \cap t.touches # {}}
           both == UNION {tasks[m].touches \cup t.touches : m \in others}
           tainted == IF t.touches \cap contended = {} THEN {} ELSE t.touches
<1>1. /\ contended' = contended \cup both \cup tainted
      /\ torn' \subseteq torn \cup both
  BY DEF Begin
<1>2. /\ n \notin DOMAIN tasks /\ DOMAIN tasks' = DOMAIN tasks \cup {n} /\ tasks'[n] = t
      /\ \A m \in DOMAIN tasks : tasks'[m] = tasks[m]
  BY Begins
<1>3. \A m \in InFlight' : m = n \/ (m \in InFlight /\ tasks'[m] = tasks[m])
  BY <1>2 DEF InFlight
<1>4. \A m \in others : m \in InFlight /\ tasks[m].touches \subseteq both /\ t.touches \subseteq both
  OBVIOUS
<1>5. \A m \in InFlight : m \notin others => tasks[m].touches \cap t.touches = {} OBVIOUS
<1>6. \A x \in both : x \in t.touches \/ \E m \in others : x \in tasks[m].touches OBVIOUS
<1>7. tainted = t.touches \/ (tainted = {} /\ t.touches \cap contended = {}) OBVIOUS
<1>8. others # {} \/ both = {} OBVIOUS
<1> HIDE DEF others, both, tainted
<1>9. torn' \subseteq contended' BY <1>1 DEF ContentionInv
<1>10. ASSUME NEW m \in InFlight' PROVE Quiet(m)' \/ tasks'[m].touches \subseteq contended'
  <2>1. CASE m = n
    <3>1. CASE others # {} BY <3>1, <2>1, <1>1, <1>2, <1>4
    <3>2. CASE others = {}
      <4>1. both = {} BY <3>2, <1>8
      <4> QED BY <4>1, <2>1, <1>1, <1>2, <1>7 DEF Quiet
    <3> QED BY <3>1, <3>2
  <2>2. CASE m # n /\ m \in others BY <2>2, <1>1, <1>3, <1>4, <1>10
  <2>3. CASE m # n /\ m \notin others /\ tasks[m].touches \subseteq contended
    BY <2>3, <1>1, <1>3, <1>10
  <2>4. CASE m # n /\ m \notin others /\ ~(tasks[m].touches \subseteq contended)
    <3>1. m \in InFlight /\ tasks'[m] = tasks[m] /\ tasks[m].touches \cap t.touches = {}
      BY <2>4, <1>3, <1>5, <1>10
    <3>2. tasks[m].touches \cap contended = {} BY <3>1, <2>4 DEF ContentionInv, Quiet
    <3>3. ASSUME NEW l \in others PROVE tasks[m].touches \cap tasks[l].touches = {}
      BY <3>1, <3>3, <2>4, <1>4 DEF ContentionInv
    <3>4. tasks[m].touches \cap both = {} BY <3>1, <3>3, <1>6
    <3>5. tasks[m].touches \cap tainted = {} BY <3>1, <1>7
    <3> QED BY <3>1, <3>2, <3>4, <3>5, <1>1 DEF Quiet
  <2> QED BY <2>1, <2>2, <2>3, <2>4
<1>11. ASSUME NEW l \in InFlight', NEW m \in InFlight', l # m, tasks'[l].touches \cap tasks'[m].touches # {}
       PROVE  tasks'[l].touches \subseteq contended'
  <2>1. CASE l = n
    <3>1. m \in others BY <2>1, <1>2, <1>3, <1>5, <1>11
    <3> QED BY <3>1, <2>1, <1>1, <1>2, <1>4
  <2>2. CASE m = n /\ l # n
    <3>1. l \in others BY <2>2, <1>2, <1>3, <1>5, <1>11
    <3> QED BY <3>1, <2>2, <1>1, <1>3, <1>4, <1>11
  <2>3. CASE m # n /\ l # n
    <3>1. tasks[l].touches \subseteq contended BY <2>3, <1>3, <1>11 DEF ContentionInv
    <3> QED BY <3>1, <2>3, <1>1, <1>3, <1>11
  <2> QED BY <2>1, <2>2, <2>3
<1>12. contended \subseteq contended' BY <1>1
<1> QED BY <1>9, <1>10, <1>11, <1>12 DEF ContentionInv

LEMMA BeginQuiet ==
    ASSUME IInv, QInv, NEW t, Begin(t), UNCHANGED <<meta, files>>, NEW n, n = Len(tasks) + 1,
           t.op = "put" /\ t.pc \in PutPcs => t.b \in everEnabled \/ t.vid = Null,
           ~(t.op = "copy" /\ t.pc \in CopyPcs),
           QuietTask(n)'
    PROVE  QInv'
<1>1. /\ n \notin DOMAIN tasks /\ DOMAIN tasks' = DOMAIN tasks \cup {n} /\ tasks'[n] = t
      /\ \A m \in DOMAIN tasks : tasks'[m] = tasks[m]
      /\ inPlace' = inPlace /\ everEnabled' = everEnabled
  BY Begins
<1>2. UNCHANGED <<versioning, objects, link>> BY DEF meta, files
<1>3. Others(n) /\ Changes({}) BY <1>1, <1>2, Unwritten DEF Others
<1>4. ContentionInv' /\ contended \subseteq contended' BY ContentionBegun DEF QInv
<1>5. UnversionedInv'
  <2>1. \A b \in Buckets, k \in Keys : Versions(b, k)' = Versions(b, k)
    BY <1>2 DEF Versions
  <2>2. ASSUME NEW m \in DOMAIN tasks', Putting(m)' \/ Copying(m)', tasks'[m].b \notin everEnabled
        PROVE  tasks'[m].vid = Null
    <3>1. CASE m = n BY <3>1, <2>2, <1>1 DEF Putting, Copying
    <3>2. CASE m # n
      <4>1. m \in DOMAIN tasks /\ tasks'[m] = tasks[m] BY <3>2, <1>1
      <4> QED BY <4>1, <2>2 DEF QInv, UnversionedInv, Putting, Copying
    <3> QED BY <3>1, <3>2
  <2> QED BY <2>1, <2>2, <1>1, <1>2 DEF QInv, UnversionedInv
<1>6. ASSUME NEW b \in Buckets, NEW k \in Keys, <<b, k>> \notin contended' PROVE AgreeAt(b, k)' /\ ClaimedAt(b, k)'
  <2>1. AgreeAt(b, k) /\ ClaimedAt(b, k) BY <1>4, <1>6 DEF QInv, KeysInv
  <2>2. \A p \in Paths : KeyOf(p) = <<b, k>> => KeepsHold(n, p) /\ KeepsRemoval(n, p) /\ p \notin {}
    BY <1>1 DEF KeepsHold, KeepsRemoval
  <2>3. objects'[b][k] = objects[b][k] /\ everEnabled \subseteq everEnabled' BY <1>1, <1>2
  <2> QED BY <2>1, <2>2, <2>3, <1>3, KeyStays
<1>7. ASSUME NEW m \in InFlight', Quiet(m)' PROVE QuietTask(m)'
  <2>1. CASE m = n BY <2>1
  <2>2. CASE m # n
    <3>1. m \in InFlight /\ m \in DOMAIN tasks /\ tasks'[m] = tasks[m]
      BY <2>2, <1>1, <1>7 DEF InFlight
    <3>2. Quiet(m) BY <3>1, <1>4, <1>7 DEF Quiet
    <3>3. QuietTask(m) BY <3>1, <3>2 DEF QInv, QuietTasksInv
    <3>4. Spared(m, {}) BY <1>2 DEF Spared
    <3> QED BY <3>1, <3>3, <3>4, <1>3, QuietTaskStays
  <2> QED BY <2>1, <2>2
<1> QED BY <1>4, <1>5, <1>6, <1>7 DEF QInv, KeysInv, QuietTasksInv

\* A request that neither puts nor copies relies on nothing.
LEMMA PlainBegins ==
    ASSUME IInv, QInv, NEW t, Begin(t), UNCHANGED <<meta, files>>, t.op \in {"get", "delete", "deleteBucket"},
           t.pc \in {"read", "done", "delete", "deleteBucket"}
    PROVE  QInv'
<1>1. PICK n : n = Len(tasks) + 1 OBVIOUS
<1>2. tasks'[n] = t BY <1>1, Begins
<1>3. QuietTask(n)' BY <1>2 DEF QuietTask, Putting, Copying, Removes
<1> QED BY <1>1, <1>3, BeginQuiet

LEMMA PutPreflightQuiet ==
    ASSUME IInv, QInv, NEW b \in Buckets, NEW k \in Keys, NEW kind, PutPreflight(b, k, kind)
    PROVE  QInv'
<1>1. PICK n, vid, path, pc, data :
        /\ n = Len(tasks) + 1 /\ vid = NewVersionId(b, n) /\ path = <<b, k, vid>>
        /\ pc = (IF kind = "inline" THEN "commit" ELSE "ensureDir")
        /\ data = (IF kind = "inline" THEN Inline(<<n>>) ELSE FileRef(path))
  OBVIOUS
<1>2. PICK t : t = [op |-> "put", pc |-> pc, touches |-> {<<b, k>>}, b |-> b, k |-> k, vid |-> vid,
                    body |-> <<n>>, etag |-> <<n>>, size |-> BodySize(kind), data |-> data,
                    path |-> path, then |-> "write", after |-> "commit"]
  OBVIOUS
<1>3. Begin(t) /\ UNCHANGED <<meta, files>> /\ versioning[b] # None
  BY <1>1, <1>2, Zenon DEF PutPreflight
<1>4. t.op = "put" /\ t.pc = pc /\ t.b = b /\ t.vid = vid /\ t.data = data BY <1>2
<1>5. tasks'[n] = t /\ versioning' = versioning BY <1>1, <1>3, Begins DEF meta
<1>6. pc = "commit" => data.file = None BY <1>1 DEF Inline
<1>7. QuietPut(n)' BY <1>3, <1>4, <1>5, <1>6, NoneAssumption DEF QuietPut
<1>8. pc \in {"commit", "ensureDir"} BY <1>1
<1>9. QuietTask(n)' BY <1>4, <1>5, <1>7, <1>8 DEF QuietTask, Copying, Removes
<1>10. t.b \in everEnabled \/ t.vid = Null
  BY <1>1, <1>4 DEF QInv, UnversionedInv, NewVersionId
<1> QED BY <1>1, <1>3, <1>4, <1>9, <1>10, BeginQuiet

LEMMA CopyLookupQuiet ==
    ASSUME IInv, QInv, NEW sb \in Buckets, NEW sk \in CopySources, NEW b \in Buckets, NEW k \in Keys, CopyLookup(sb, sk, b, k)
    PROVE  QInv'
<1>1. PICK v, n, path : v = Current(objects[sb][sk]) /\ n = Len(tasks) + 1 /\ path = <<sb, sk, v.vid>>
  OBVIOUS
<1>2. PICK t : t = [op |-> "copy", pc |-> "copyVersioning", touches |-> {<<sb, sk>>, <<b, k>>},
                    b |-> b, k |-> k, src |-> v, srcPath |-> path]
  OBVIOUS
<1>3. v # None /\ Begin(t) /\ UNCHANGED <<meta, files>>
  BY <1>1, <1>2, Zenon DEF CopyLookup
<1>4. sk \in Keys BY S3Assumption, Zenon
<1>5. v \in Versions(sb, sk) BY <1>1, <1>3, <1>4, CurrentIs
<1>6. t.op = "copy" /\ t.pc = "copyVersioning" /\ t.src = v /\ t.srcPath = path BY <1>2
<1>7. tasks'[n] = t /\ objects' = objects BY <1>1, <1>3, Begins DEF meta
<1>8. HasSource(n)'
  <2>1. SourceIs(n, v)' BY <1>6, <1>7 DEF SourceIs
  <2>2. v \in Versions(sb, sk)' /\ KeyOf(tasks'[n].srcPath) = <<sb, sk>>
    BY <1>1, <1>5, <1>6, <1>7 DEF Versions, KeyOf
  <2> QED BY <2>1, <2>2, <1>4 DEF HasSource
<1>9. QuietTask(n)' BY <1>6, <1>7, <1>8 DEF QuietTask, QuietCopy, Putting, Holds, Removes
<1> QED BY <1>1, <1>3, <1>6, <1>9, BeginQuiet DEF CopyPcs

LEMMA ObjectNextQuiet ==
    ASSUME IInv, QInv, NEW b \in Buckets, ObjectNext(b)
    PROVE  QInv'
<1>1. ASSUME NEW k \in Keys, NEW kind \in BodyKinds, PutPreflight(b, k, kind) PROVE QInv'
  BY <1>1, PutPreflightQuiet
<1>2. ASSUME NEW k \in Keys, NEW vid \in VersionIds(b, k), GetObject(b, k, vid) PROVE QInv'
  <2>1. PICK v, pc : /\ v = (IF vid = None THEN Current(objects[b][k]) ELSE GetVersion(objects[b][k], vid))
                     /\ pc = (IF v.data.file = None THEN "done" ELSE "read")
    OBVIOUS
  <2>2. PICK t : t = [op |-> "get", pc |-> pc, touches |-> {}, vid |-> v.vid, etag |-> v.etag,
                      got |-> v.data.bytes, path |-> v.data.file]
    OBVIOUS
  <2>3. Begin(t) /\ UNCHANGED <<meta, files>> BY <1>2, <2>1, <2>2, Zenon DEF GetObject
  <2>4. t.op = "get" /\ t.pc \in {"done", "read"} BY <2>1, <2>2
  <2> QED BY <2>3, <2>4, PlainBegins
<1>3. ASSUME NEW entries \in Batches(b), DeleteCheck(b, entries) PROVE QInv'
  <2>1. PICK t : t = [op |-> "delete", pc |-> "delete", touches |-> {<<b, entries[i].k>> : i \in DOMAIN entries},
                      b |-> b, entries |-> entries]
    OBVIOUS
  <2>2. Begin(t) /\ UNCHANGED <<meta, files>> BY <1>3, <2>1, Zenon DEF DeleteCheck
  <2>3. t.op = "delete" /\ t.pc = "delete" BY <2>1
  <2> QED BY <2>2, <2>3, PlainBegins
<1>4. ASSUME NEW sb \in Buckets, NEW sk \in CopySources, NEW k \in Keys, CopyLookup(sb, sk, b, k) PROVE QInv'
  BY <1>4, CopyLookupQuiet
<1> QED BY <1>1, <1>2, <1>3, <1>4 DEF ObjectNext

\* What happens to buckets only adds to what may be relied on.
LEMMA BucketsQuiet ==
    ASSUME IInv, QInv, UNCHANGED <<objects, link, tasks, contended, torn, inPlace>>, everEnabled \subseteq everEnabled',
           \A b \in Buckets : versioning[b] # None => versioning'[b] # None,
           \A b \in Buckets : versioning'[b] = "Enabled" => b \in everEnabled'
    PROVE  QInv'
<1>1. Changes({}) /\ Others(0) /\ InFlight' = InFlight BY Unwritten DEF Others, InFlight
<1>2. ContentionInv' BY <1>1 DEF QInv, ContentionInv, Quiet
<1>3. UnversionedInv'
  <2>1. \A b \in Buckets, k \in Keys : Versions(b, k)' = Versions(b, k) BY DEF Versions
  <2>2. \A n \in DOMAIN tasks : Putting(n)' = Putting(n) /\ Copying(n)' = Copying(n)
    BY DEF Putting, Copying
  <2> QED BY <2>1, <2>2 DEF QInv, UnversionedInv
<1>4. ASSUME NEW b \in Buckets, NEW k \in Keys, <<b, k>> \notin contended' PROVE AgreeAt(b, k)' /\ ClaimedAt(b, k)'
  <2>1. AgreeAt(b, k) /\ ClaimedAt(b, k) BY <1>4 DEF QInv, KeysInv
  <2>2. \A p \in Paths : KeyOf(p) = <<b, k>> => KeepsHold(0, p) /\ KeepsRemoval(0, p) /\ p \notin {}
    BY DEF KeepsHold, KeepsRemoval, Holds, Removes
  <2>3. objects'[b][k] = objects[b][k] OBVIOUS
  <2> QED BY <2>1, <2>2, <2>3, <1>1, KeyStays
<1>5. ASSUME NEW m \in InFlight', Quiet(m)' PROVE QuietTask(m)'
  <2>1. m \in DOMAIN tasks /\ tasks'[m] = tasks[m] /\ QuietTask(m)
    BY <1>1, <1>5 DEF QInv, QuietTasksInv, Quiet, InFlight
  <2>2. Spared(m, {}) BY DEF Spared
  <2> QED BY <2>1, <2>2, <1>1, QuietTaskStays
<1> QED BY <1>2, <1>3, <1>4, <1>5 DEF QInv, KeysInv, QuietTasksInv

LEMMA BucketNextQuiet ==
    ASSUME IInv, QInv, NEW b \in Buckets, BucketNext(b)
    PROVE  QInv'
<1>1. versioning \in [Buckets -> Statuses] /\ \A c \in Buckets : versioning[c] = "Enabled" => c \in everEnabled
  BY Zenon DEF IInv, TypeInv, TypeOK, Statuses, QInv, UnversionedInv
<1>2. CASE CreateBucket(b)
  <2>1. PICK s : s = "" BY Zenon
  <2>2. versioning' = [versioning EXCEPT ![b] = s] /\ UNCHANGED <<objects, files, tasks, history>>
    BY <2>1, <1>2, Zenon DEF CreateBucket
  <2>3. UNCHANGED <<objects, link, tasks, contended, torn, inPlace, everEnabled>>
    BY ONLY <2>2 DEF files, history
  <2>4. s # None BY <2>1, S3Assumption, Zenon
  <2>5. s # "Enabled" BY <2>1, Zenon
  <2>6. \A c \in Buckets : versioning'[c] = IF c = b THEN s ELSE versioning[c]
    BY ONLY <2>2, <1>1
  <2> QED BY <2>3, <2>4, <2>5, <2>6, <1>1, BucketsQuiet
<1>3. ASSUME NEW status \in Versionings, PutBucketVersioning(b, status) PROVE QInv'
  <2>1. /\ versioning' = [versioning EXCEPT ![b] = status] /\ UNCHANGED <<objects, link, tasks, contended, torn, inPlace>>
        /\ everEnabled \subseteq everEnabled' /\ (status = "Enabled" => b \in everEnabled')
    BY <1>3 DEF PutBucketVersioning, files
  <2>2. status # None BY S3Assumption, Zenon
  <2>3. \A c \in Buckets : versioning'[c] = IF c = b THEN status ELSE versioning[c]
    BY <2>1, <1>1
  <2> QED BY <2>1, <2>2, <2>3, <1>1, BucketsQuiet
<1>4. CASE DeleteBucketCheck(b)
  <2>1. PICK t : t = [op |-> "deleteBucket", pc |-> "deleteBucket", touches |-> {b} \X Keys, b |-> b]
    OBVIOUS
  <2>2. Begin(t) /\ UNCHANGED <<meta, files>> BY <2>1, <1>4, Zenon DEF DeleteBucketCheck
  <2>3. t.op = "deleteBucket" /\ t.pc = "deleteBucket" BY <2>1
  <2> QED BY <2>2, <2>3, PlainBegins
<1> QED BY <1>2, <1>3, <1>4 DEF BucketNext

LEMMA TaskStepQuiet ==
    ASSUME IInv, QInv, NEW n \in DOMAIN tasks, TaskStep(n)
    PROVE  QInv'
<1>1. CASE FileStoreStep(n)
  <2>1. ASSUME NEW path \in tasks[n].remove, RemoveFile(n, path) PROVE QInv'
    BY <2>1, RemoveFileQuiet
  <2> QED BY <1>1, <2>1, EnsureDirQuiet, RememberDirQuiet, WriteTmpQuiet, WriteFailsQuiet, RenameQuiet DEF FileStoreStep
<1>2. CASE DeleteBucketMeta(n) \/ RemoveBucketDir(n) \/ ForgetDirs(n)
  BY <1>2, DeleteBucketMetaQuiet, RemoveBucketDirQuiet, ForgetDirsQuiet
<1>3. CASE CommitPut(n) \/ ReadFile(n) \/ DeleteMeta(n) \/ Cancel(n)
  BY <1>3, CommitPutQuiet, ReadFileQuiet, DeleteMetaQuiet, CancelQuiet
<1>4. CASE CopyVersioning(n) \/ CopyRead(n) \/ CopyResolve(n) \/ CopyLink(n) \/ CopyFill(n) \/ CommitCopy(n)
  BY <1>4, CopyVersioningQuiet, CopyReadQuiet, CopyResolveQuiet, CopyLinkQuiet, CopyFillQuiet, CommitCopyQuiet
<1> QED BY <1>1, <1>2, <1>3, <1>4 DEF TaskStep

LEMMA InitQuiet == Init => QInv
<1> SUFFICES ASSUME Init PROVE QInv
  OBVIOUS
<1>1. /\ versioning = [b \in Buckets |-> None] /\ objects = [b \in Buckets |-> [k \in Keys |-> <<>>]]
      /\ link = <<>> /\ tasks = <<>> /\ torn = {} /\ everEnabled = {}
  BY DEF Init
<1>2. DOMAIN tasks = {} /\ DOMAIN link = {} /\ InFlight = {} BY <1>1 DEF InFlight
<1>3. \A b \in Buckets, k \in Keys : Versions(b, k) = {}
  <2>1. \A b \in Buckets, k \in Keys : objects[b][k] = <<>> BY <1>1
  <2> QED BY <2>1 DEF Versions
<1>4. ContentionInv /\ QuietTasksInv BY <1>1, <1>2 DEF ContentionInv, QuietTasksInv
<1>5. UnversionedInv
  <2>1. \A b \in Buckets : versioning[b] # "Enabled"
    <3>1. None # "Enabled" BY S3Assumption, Zenon
    <3> QED BY <3>1, <1>1
  <2> QED BY <2>1, <1>2, <1>3 DEF UnversionedInv
<1>6. KeysInv BY <1>2, <1>3 DEF KeysInv, AgreeAt, ClaimedAt, Linked
<1> QED BY <1>4, <1>5, <1>6 DEF QInv

\* A request that nobody races with finds its keys as it left them, whatever happens on other keys:
\* the file it copies is there, the file it is about to commit is its own, and what it removes has
\* no version any more.
THEOREM QuietInvariant == Spec => []QInv
<1>1. ASSUME IInv, QInv, [Next]_vars PROVE QInv'
  <2>1. CASE UNCHANGED vars
    <3>1. UNCHANGED <<versioning, objects, link, tasks, contended, torn, inPlace, everEnabled>>
      BY <2>1 DEF vars
    <3> QED BY <3>1, <1>1, BucketsQuiet DEF QInv, UnversionedInv
  <2>2. ASSUME NEW b \in Buckets, BucketNext(b) \/ ObjectNext(b) PROVE QInv'
    BY <1>1, <2>2, BucketNextQuiet, ObjectNextQuiet
  <2>3. ASSUME NEW n \in DOMAIN tasks, TaskStep(n) PROVE QInv'
    BY <1>1, <2>3, TaskStepQuiet
  <2> QED BY <1>1, <2>1, <2>2, <2>3 DEF Next
<1> QED BY <1>1, InitQuiet, Invariant, PTL DEF Spec

\* Nobody has a file in hand whose key is at rest.
LEMMA AtRestFree ==
    ASSUME IInv, NEW b \in Buckets, NEW k \in Keys, AtRest(b, k), NEW p \in Paths, KeyOf(p) = <<b, k>>
    PROVE  ~Held(p) /\ \A n \in DOMAIN tasks : ~Removes(n, p)
<1>1. ASSUME NEW n \in DOMAIN tasks, Holds(n, p) \/ Removes(n, p) PROVE FALSE
  <2>1. <<b, k>> \in tasks[n].touches BY <1>1, InHand
  <2>2. n \in InFlight BY <1>1 DEF Holds, Removes, InFlight
  <2> QED BY <2>1, <2>2 DEF AtRest
<1> QED BY <1>1 DEF Held

\* As long as the requests that touch a key come one after the other, and none is dropped by its
\* client, metadata and files of the key agree whenever none of them is running.
THEOREM QuietKeys == Spec => []QuietKeysAgree
<1>1. ASSUME IInv, QInv PROVE QuietKeysAgree
  <2> SUFFICES ASSUME NEW b \in Buckets, NEW k \in Keys, AtRest(b, k), <<b, k>> \notin contended,
                      NEW v \in Versions(b, k), ~v.marker, ~Overwritten(v)
               PROVE  Backed(v)
    BY DEF QuietKeysAgree
  <2>1. Agrees(v) BY <1>1 DEF QInv, KeysInv, AgreeAt
  <2>2. CASE v.data.file = None BY <2>1, <2>2 DEF Agrees, Backed
  <2>3. CASE v.data.file # None
    <3>1. PICK p \in Paths : p = v.data.file /\ KeyOf(p) = <<b, k>>
      BY <2>3, <1>1, FileOfKey
    <3>2. FileAgrees(v) BY <3>1, <2>1, <2>3, <1>1, AtRestFree DEF Agrees
    <3>3. p \in DOMAIN link /\ link[p] \notin inPlace /\ v.etag = <<link[p]>>
      BY <3>1, <3>2, <2>3 DEF FileAgrees, Overwritten, Linked
    <3>4. disk[link[p]] = <<link[p]>> BY <3>3, <1>1 DEF IInv, FilesInv, FileInv
    <3> QED BY <3>1, <3>3, <3>4, <2>3 DEF Backed, Linked
  <2> QED BY <2>2, <2>3
<1> QED BY <1>1, Invariant, QuietInvariant, PTL

\* In a bucket that was never versioned, a key nobody raced on has no file but the one its metadata
\* refers to.
THEOREM NothingLeft == Spec => []NoFileLeftBehind
<1>1. ASSUME IInv, QInv PROVE NoFileLeftBehind
  <2> SUFFICES ASSUME NEW b \in Buckets \ everEnabled, NEW k \in Keys, AtRest(b, k), <<b, k>> \notin contended,
                      Linked(<<b, k, Null>>)
               PROVE  \E v \in Versions(b, k) : v.data.file = <<b, k, Null>>
    BY DEF NoFileLeftBehind
  <2>1. PICK p \in Paths : p = <<b, k, Null>> /\ KeyOf(p) = <<b, k>> BY DEF Paths, KeyOf
  <2>2. Claimed(b, k, p) BY <2>1, <1>1 DEF QInv, KeysInv, ClaimedAt
  <2> QED BY <2>1, <2>2, <1>1, AtRestFree DEF Claimed
<1> QED BY <1>1, Invariant, QuietInvariant, PTL

-----------------------------------------------------------------------------
(* Multipart uploads *)

LEMMA SequenceIs ==
    ASSUME NEW S, NEW s \in Seq(S)
    PROVE  IsSeq(s)
BY DEF IsSeq

LEMMA Appended ==
    ASSUME IsSeq(tasks), NEW t, tasks' = Append(tasks, t)
    PROVE  Lengthens /\ Len(tasks') = Len(tasks) + 1 /\ Len(tasks) \in Nat
<1> DEFINE S == {tasks[i] : i \in DOMAIN tasks} \cup {t}
<1>1. tasks \in Seq(S) BY DEF IsSeq
<1> HIDE DEF S
<1>2. tasks' \in Seq(S) /\ Len(tasks') = Len(tasks) + 1 /\ Len(tasks) \in Nat
  <2>1. t \in S BY DEF S
  <2> QED BY <2>1, <1>1
<1>3. IsSeq(tasks') BY <1>2, SequenceIs
<1> QED BY <1>2, <1>3 DEF Lengthens

LEMMA Replaces ==
    ASSUME IsSeq(tasks), NEW n \in DOMAIN tasks, NEW t, tasks' = [tasks EXCEPT ![n] = t]
    PROVE  Lengthens /\ Len(tasks') = Len(tasks)
<1> DEFINE S == {tasks[i] : i \in DOMAIN tasks} \cup {t}
<1>1. tasks \in Seq(S) BY DEF IsSeq
<1>2. t \in S OBVIOUS
<1> HIDE DEF S
<1>3. tasks' \in Seq(S) /\ Len(tasks') = Len(tasks) /\ Len(tasks) \in Nat BY <1>1, <1>2
<1>4. IsSeq(tasks') BY <1>3, SequenceIs
<1> QED BY <1>3, <1>4 DEF Lengthens

LEMMA Same ==
    ASSUME IsSeq(tasks), tasks' = tasks
    PROVE  Lengthens
BY DEF IsSeq, Lengthens

\* What a request leaves in its place when it moves on.
LEMMA Proceeds ==
    ASSUME IsSeq(tasks), NEW n \in DOMAIN tasks
    PROVE  /\ \A pc : Goto(n, pc) => Lengthens
           /\ Finish(n) => Lengthens
           /\ \A paths : ThenRemove(n, paths) => Lengthens
<1>1. ASSUME NEW pc, Goto(n, pc) PROVE Lengthens
  <2>1. tasks' = [tasks EXCEPT ![n] = [tasks[n] EXCEPT !.pc = pc]] BY <1>1 DEF Goto
  <2> QED BY <2>1, Replaces
<1>2. ASSUME Finish(n) PROVE Lengthens
  <2>1. tasks' = [tasks EXCEPT ![n] = Done(tasks[n].op)] BY <1>2 DEF Finish
  <2> QED BY <2>1, Replaces
<1>3. ASSUME NEW paths, ThenRemove(n, paths) PROVE Lengthens
  <2>1. CASE paths # {}
    <3>1. \E u : tasks' = [tasks EXCEPT ![n] = u] BY <1>3, <2>1, Zenon DEF ThenRemove
    <3> QED BY <3>1, Replaces
  <2>2. CASE paths = {} BY <1>2, <1>3, <2>2 DEF ThenRemove
  <2> QED BY <2>1, <2>2
<1> QED BY <1>1, <1>2, <1>3

LEMMA FileStoreLengthens ==
    ASSUME IsSeq(tasks), NEW n \in DOMAIN tasks, FileStoreStep(n)
    PROVE  Lengthens /\ uploads' = uploads
<1>1. CASE EnsureDir(n) \/ RememberDir(n)
  BY <1>1, Proceeds DEF EnsureDir, RememberDir, meta
<1>2. CASE WriteTmp(n) BY <1>2, Proceeds DEF WriteTmp, meta
<1>3. CASE WriteFails(n) BY <1>3, Proceeds DEF WriteFails, meta
<1>4. CASE Rename(n) BY <1>4, Proceeds DEF Rename, meta
<1>5. ASSUME NEW path, RemoveFile(n, path) PROVE Lengthens /\ uploads' = uploads
  <2>1. uploads' = uploads /\ (Finish(n) \/ tasks' = [tasks EXCEPT ![n].remove = @ \ {path}])
    BY <1>5 DEF RemoveFile, meta
  <2>2. CASE tasks' = [tasks EXCEPT ![n].remove = @ \ {path}]
    <3>1. tasks' = [tasks EXCEPT ![n] = [tasks[n] EXCEPT !.remove = @ \ {path}]] BY <2>2
    <3> QED BY <3>1, <2>1, Replaces
  <2> QED BY <2>1, <2>2, Proceeds
<1> QED BY <1>1, <1>2, <1>3, <1>4, <1>5 DEF FileStoreStep

LEMMA TaskStepLengthens ==
    ASSUME IsSeq(tasks), NEW n \in DOMAIN tasks, TaskStep(n)
    PROVE  Lengthens /\ uploads' = uploads
<1>1. CASE FileStoreStep(n) BY <1>1, FileStoreLengthens
<1>2. CASE DeleteBucketMeta(n) BY <1>2, Proceeds DEF DeleteBucketMeta, meta
<1>3. CASE RemoveBucketDir(n) BY <1>3, Proceeds DEF RemoveBucketDir, meta
<1>4. CASE ForgetDirs(n) BY <1>4, Proceeds DEF ForgetDirs, meta
<1>5. CASE CommitPut(n)
  <2>1. uploads' = uploads /\ \E paths : ThenRemove(n, paths) BY <1>5, Zenon DEF CommitPut
  <2> QED BY <2>1, Proceeds
<1>6. CASE ReadFile(n)
  <2>1. uploads' = uploads BY <1>6 DEF ReadFile, meta
  <2>2. CASE Linked(tasks[n].path)
    <3>1. PICK bytes : bytes = disk[link[tasks[n].path]] OBVIOUS
    <3>2. tasks' = [tasks EXCEPT ![n].pc = "done", ![n].got = bytes]
      BY <1>6, <2>2, <3>1 DEF ReadFile
    <3>3. tasks' = [tasks EXCEPT ![n] = [tasks[n] EXCEPT !.pc = "done", !.got = bytes]]
      BY <3>2
    <3> QED BY <3>3, <2>1, Replaces
  <2>3. CASE ~Linked(tasks[n].path) BY <1>6, <2>1, <2>3, Proceeds DEF ReadFile
  <2> QED BY <2>2, <2>3
<1>7. CASE DeleteMeta(n)
  <2>1. uploads' = uploads /\ \E paths : ThenRemove(n, paths)
    BY <1>7, Zenon DEF DeleteMeta
  <2> QED BY <2>1, Proceeds
<1>8. CASE CopyVersioning(n)
  <2>1. uploads' = uploads BY <1>8 DEF CopyVersioning, meta
  <2>2. \E u : tasks' = [tasks EXCEPT ![n] = u] BY <1>8, Zenon DEF CopyVersioning
  <2> QED BY <2>1, <2>2, Replaces
<1>9. CASE CopyRead(n)
  <2>1. uploads' = uploads BY <1>9 DEF CopyRead, meta
  <2>2. CASE Linked(tasks[n].data.file)
    <3>1. PICK data : data = Inline(disk[link[tasks[n].data.file]]) OBVIOUS
    <3>2. tasks' = [tasks EXCEPT ![n].data = data, ![n].pc = "commit"]
      BY <1>9, <2>2, <3>1 DEF CopyRead
    <3>3. tasks' = [tasks EXCEPT ![n] = [tasks[n] EXCEPT !.data = data, !.pc = "commit"]]
      BY <3>2
    <3> QED BY <3>3, <2>1, Replaces
  <2>3. CASE ~Linked(tasks[n].data.file) BY <1>9, <2>1, <2>3, Proceeds DEF CopyRead
  <2> QED BY <2>2, <2>3
<1>10. CASE CopyResolve(n) BY <1>10, Proceeds DEF CopyResolve, meta
<1>11. CASE CopyLink(n)
  <2>1. uploads' = uploads BY <1>11 DEF CopyLink, meta
  <2>2. PICK from, to : from = link[tasks[n].srcPath] /\ to = link[tasks[n].path] OBVIOUS
  <2>3. \/ Goto(n, "commit") \/ Finish(n)
        \/ tasks' = [tasks EXCEPT ![n].pc = "copyFill", ![n].from = from, ![n].to = to]
    BY <1>11, <2>2 DEF CopyLink
  <2>4. CASE tasks' = [tasks EXCEPT ![n].pc = "copyFill", ![n].from = from, ![n].to = to]
    <3>1. tasks' = [tasks EXCEPT ![n] = [tasks[n] EXCEPT !.pc = "copyFill", !.from = from, !.to = to]]
      BY <2>4
    <3> QED BY <3>1, <2>1, Replaces
  <2> QED BY <2>1, <2>3, <2>4, Proceeds
<1>12. CASE CopyFill(n) BY <1>12, Proceeds DEF CopyFill, meta
<1>13. CASE CommitCopy(n)
  <2>1. uploads' = uploads /\ \E paths : ThenRemove(n, paths)
    BY <1>13, Zenon DEF CommitCopy
  <2> QED BY <2>1, Proceeds
<1>14. CASE Cancel(n)
  <2>1. uploads' = uploads /\ tasks' = [tasks EXCEPT ![n] = Dropped(tasks[n].op)]
    BY <1>14 DEF Cancel, meta
  <2> QED BY <2>1, Replaces
<1> QED BY <1>1, <1>2, <1>3, <1>4, <1>5, <1>6, <1>7, <1>8, <1>9, <1>10, <1>11, <1>12, <1>13, <1>14 DEF TaskStep

LEMMA NextLengthens ==
    ASSUME IsSeq(tasks), Next
    PROVE  Lengthens /\ uploads' = uploads
<1>1. ASSUME NEW t, Begin(t) PROVE Lengthens
  <2>1. tasks' = Append(tasks, t) BY <1>1 DEF Begin
  <2> QED BY <2>1, Appended
<1>2. ASSUME NEW b \in Buckets, BucketNext(b) PROVE Lengthens /\ uploads' = uploads
  <2>1. CASE CreateBucket(b) \/ \E status \in Versionings : PutBucketVersioning(b, status)
    <3>1. UNCHANGED <<uploads, tasks>>
      BY <2>1, Zenon DEF CreateBucket, PutBucketVersioning
    <3> QED BY <3>1, Same
  <2>2. CASE DeleteBucketCheck(b)
    <3>1. UNCHANGED meta /\ \E t : Begin(t) BY <2>2, Zenon DEF DeleteBucketCheck
    <3> QED BY <3>1, <1>1 DEF meta
  <2> QED BY <1>2, <2>1, <2>2 DEF BucketNext
<1>3. ASSUME NEW b \in Buckets, ObjectNext(b) PROVE Lengthens /\ uploads' = uploads
  <2>1. ASSUME NEW k, NEW kind, PutPreflight(b, k, kind) PROVE UNCHANGED meta /\ \E t : Begin(t)
    BY <2>1, Zenon DEF PutPreflight
  <2>2. ASSUME NEW k, NEW vid, GetObject(b, k, vid) PROVE UNCHANGED meta /\ \E t : Begin(t)
    BY <2>2, Zenon DEF GetObject
  <2>3. ASSUME NEW entries, DeleteCheck(b, entries) PROVE UNCHANGED meta /\ \E t : Begin(t)
    BY <2>3, Zenon DEF DeleteCheck
  <2>4. ASSUME NEW sb, NEW sk, NEW k, CopyLookup(sb, sk, b, k) PROVE UNCHANGED meta /\ \E t : Begin(t)
    BY <2>4, Zenon DEF CopyLookup
  <2>5. UNCHANGED meta /\ \E t : Begin(t) BY <1>3, <2>1, <2>2, <2>3, <2>4 DEF ObjectNext
  <2> QED BY <2>5, <1>1 DEF meta
<1> QED BY <1>2, <1>3, TaskStepLengthens DEF Next

\* A request that leaves the uploads there are, and no object from one, keeps the invariant; so does
\* one that forgets uploads.
LEMMA OnceStays ==
    ASSUME OnceInv, Lengthens, DOMAIN uploads' \subseteq DOMAIN uploads, assembled' = assembled
    PROVE  OnceInv'
<1>1. Len(tasks) \in Nat /\ Len(tasks') \in Nat /\ Len(tasks') >= Len(tasks)
  BY DEF OnceInv, Lengthens, IsSeq
<1>2. 1..Len(tasks) \subseteq 1..Len(tasks') BY <1>1
<1>3. IsSeq(tasks)' BY DEF Lengthens
<1>4. \A x \in assembled' : x[1] \in 1..Len(tasks') /\ x[1] \notin DOMAIN uploads'
  BY <1>2 DEF OnceInv
<1>5. DOMAIN uploads' \subseteq 1..Len(tasks') BY <1>2 DEF OnceInv
<1>6. CompletedOnce' BY DEF OnceInv, CompletedOnce
<1> QED BY <1>3, <1>4, <1>5, <1>6 DEF OnceInv

LEMMA UploadStepKeeps ==
    ASSUME OnceInv, NEW u \in DOMAIN uploads,
           \/ \E p \in PartNumbers, kind \in BodyKinds : UploadPartLookup(u, p, kind)
           \/ \E listed \in SUBSET PartNumbers : CompleteGather(u, listed)
           \/ AbortMultipartUpload(u)
    PROVE  OnceInv'
<1>1. IsSeq(tasks) BY DEF OnceInv
<1>2. ASSUME NEW t, Begin(t) PROVE Lengthens
  <2>1. tasks' = Append(tasks, t) BY <1>2 DEF Begin
  <2> QED BY <2>1, <1>1, Appended
<1>3. ASSUME NEW p, NEW kind, UploadPartLookup(u, p, kind) PROVE OnceInv'
  <2>1. UNCHANGED <<meta, files, assembled>> /\ \E t : Begin(t)
    BY <1>3, Zenon DEF UploadPartLookup
  <2> QED BY <2>1, <1>2, OnceStays DEF meta
<1>4. ASSUME NEW listed, CompleteGather(u, listed) PROVE OnceInv'
  <2>1. UNCHANGED <<meta, files, assembled>> /\ \E t : Begin(t)
    BY <1>4, Zenon DEF CompleteGather
  <2> QED BY <2>1, <1>2, OnceStays DEF meta
<1>5. CASE AbortMultipartUpload(u)
  <2>1. uploads' = Drop(uploads, u) /\ UNCHANGED <<tasks, assembled>>
    BY <1>5 DEF AbortMultipartUpload
  <2>2. DOMAIN uploads' \subseteq DOMAIN uploads BY <2>1 DEF Drop, Restrict
  <2> QED BY <2>1, <2>2, <1>1, Same, OnceStays
<1> QED BY <1>3, <1>4, <1>5

LEMMA MultipartStepKeeps ==
    ASSUME OnceInv, NEW n \in DOMAIN tasks, MultipartStep(n)
    PROVE  OnceInv'
<1>1. IsSeq(tasks) BY DEF OnceInv
<1>2. CASE CommitPart(n)
  <2>1. Finish(n) /\ assembled' = assembled BY <1>2 DEF CommitPart
  <2>2. DOMAIN uploads' \subseteq DOMAIN uploads
    <3>1. PICK u, parts : u = tasks[n].u /\ parts = With(uploads[u].parts, tasks[n].p, tasks[n].part)
      OBVIOUS
    <3>2. uploads' = IF u \notin DOMAIN uploads THEN uploads ELSE [uploads EXCEPT ![u].parts = parts]
      BY <1>2, <3>1 DEF CommitPart
    <3> QED BY <3>2
  <2> QED BY <2>1, <2>2, <1>1, Proceeds, OnceStays
<1>3. CASE CompleteVersioning(n)
  <2>1. uploads' = uploads /\ assembled' = assembled
    BY <1>3, Zenon DEF CompleteVersioning, meta
  <2>2. \E u : tasks' = [tasks EXCEPT ![n] = u] BY <1>3, Zenon DEF CompleteVersioning
  <2> QED BY <2>1, <2>2, <1>1, Replaces, OnceStays
<1>4. CASE AssemblePart(n)
  <2>1. uploads' = uploads /\ assembled' = assembled BY <1>4, Zenon DEF AssemblePart, meta
  <2>2. \/ Finish(n)
        \/ \E u : tasks' = [tasks EXCEPT ![n] = u]
    BY <1>4, Zenon DEF AssemblePart
  <2>3. Lengthens BY <2>2, <1>1, Replaces, Proceeds
  <2> QED BY <2>1, <2>3, OnceStays
<1>5. CASE Assembled(n)
  <2>1. uploads' = uploads /\ assembled' = assembled BY <1>5, Zenon DEF Assembled, meta
  <2>2. PICK pc, data : pc = tasks[n].after /\ data = Inline(tasks[n].body) OBVIOUS
  <2>3. \/ tasks' = [tasks EXCEPT ![n].pc = "write"]
        \/ tasks' = [tasks EXCEPT ![n].pc = pc, ![n].data = data]
    BY <1>5, <2>2 DEF Assembled
  <2>4. \/ tasks' = [tasks EXCEPT ![n] = [tasks[n] EXCEPT !.pc = "write"]]
        \/ tasks' = [tasks EXCEPT ![n] = [tasks[n] EXCEPT !.pc = pc, !.data = data]]
    BY <2>3
  <2> QED BY <2>1, <2>4, <1>1, Replaces, OnceStays
<1>6. ASSUME NEW path, RemovePart(n, path) PROVE OnceInv'
  <2>1. uploads' = uploads /\ assembled' = assembled BY <1>6, Zenon DEF RemovePart, meta
  <2>2. \E u : tasks' = [tasks EXCEPT ![n] = u] BY <1>6, Zenon DEF RemovePart
  <2> QED BY <2>1, <2>2, <1>1, Replaces, OnceStays
<1>7. CASE CommitComplete(n)
  <2>1. PICK u : u = tasks[n].u OBVIOUS
  <2>2. CASE u \notin DOMAIN uploads
    <3>1. Finish(n) /\ UNCHANGED <<uploads, assembled>>
      BY <1>7, <2>1, <2>2 DEF CommitComplete
    <3> QED BY <3>1, <1>1, Proceeds, OnceStays
  <2>3. CASE u \in DOMAIN uploads
    <3>1. /\ uploads' = Drop(uploads, u) /\ assembled' = assembled \cup {<<u, n>>}
          /\ \E paths : ThenRemove(n, paths)
      BY <1>7, <2>1, <2>3, Zenon DEF CommitComplete
    <3>2. Lengthens BY <3>1, <1>1, Proceeds
    <3>3. DOMAIN uploads' = DOMAIN uploads \ {u} BY <3>1 DEF Drop, Restrict
    <3>4. 1..Len(tasks) \subseteq 1..Len(tasks') BY <3>2, <1>1 DEF Lengthens, IsSeq
    <3>5. \A x \in assembled : x[1] # u BY <2>3 DEF OnceInv
    <3>6. IsSeq(tasks)' /\ DOMAIN uploads' \subseteq 1..Len(tasks')
      BY <3>2, <3>3, <3>4 DEF OnceInv, Lengthens
    <3>7. <<u, n>>[1] = u OBVIOUS
    <3>8. \A x \in assembled' : x[1] \in 1..Len(tasks') /\ x[1] \notin DOMAIN uploads'
      BY <3>1, <3>3, <3>4, <3>7, <2>3 DEF OnceInv
    <3>9. CompletedOnce' BY <3>1, <3>5, <3>7 DEF OnceInv, CompletedOnce
    <3> QED BY <3>6, <3>8, <3>9 DEF OnceInv
  <2> QED BY <2>2, <2>3
<1> QED BY <1>2, <1>3, <1>4, <1>5, <1>6, <1>7 DEF MultipartStep

LEMMA CreateUploadKeeps ==
    ASSUME OnceInv, NEW b, NEW k, CreateMultipartUpload(b, k)
    PROVE  OnceInv'
<1>1. PICK u, up, t : /\ u = Len(tasks) + 1 /\ up = [bucket |-> b, key |-> k, parts |-> <<>>]
                      /\ t = [Done("createUpload") EXCEPT !.touches = {<<b, k>>}]
  OBVIOUS
<1>2. Begin(t) /\ uploads' = With(uploads, u, up) /\ assembled' = assembled
  BY <1>1, Zenon DEF CreateMultipartUpload
<1>3. Lengthens /\ Len(tasks') = Len(tasks) + 1 /\ Len(tasks) \in Nat
  <2>1. tasks' = Append(tasks, t) /\ IsSeq(tasks) BY <1>2 DEF Begin, OnceInv
  <2> QED BY <2>1, Appended
<1>4. DOMAIN uploads' = DOMAIN uploads \cup {u} BY <1>2 DEF With
<1>5. u = Len(tasks) + 1 BY <1>1
<1>6. 1..Len(tasks) \subseteq 1..Len(tasks') /\ u \in 1..Len(tasks') /\ u \notin 1..Len(tasks)
  BY <1>3, <1>5
<1>7. IsSeq(tasks)' /\ DOMAIN uploads' \subseteq 1..Len(tasks')
  BY <1>3, <1>4, <1>6 DEF OnceInv, Lengthens
<1>8. \A x \in assembled' : x[1] \in 1..Len(tasks') /\ x[1] \notin DOMAIN uploads'
  BY <1>2, <1>4, <1>6 DEF OnceInv
<1>9. CompletedOnce' BY <1>2 DEF OnceInv, CompletedOnce
<1> QED BY <1>7, <1>8, <1>9 DEF OnceInv

\* However many CompleteMultipartUpload requests race for an upload, and whatever other requests do,
\* it becomes an object once.
THEOREM UploadsComplete == MSpec => []CompletedOnce
<1>1. MInit => OnceInv
  <2> SUFFICES ASSUME MInit PROVE OnceInv
    OBVIOUS
  <2>1. tasks = <<>> /\ uploads = <<>> /\ assembled = {} BY Zenon DEF MInit, Init
  <2> QED BY <2>1 DEF OnceInv, IsSeq, CompletedOnce
<1>2. ASSUME OnceInv, [MNext]_mvars PROVE OnceInv'
  <2>1. IsSeq(tasks) BY <1>2 DEF OnceInv
  <2>2. CASE UNCHANGED mvars
    <3>1. tasks' = tasks /\ uploads' = uploads /\ assembled' = assembled
      BY <2>2 DEF mvars, vars
    <3> QED BY <3>1, <2>1, <1>2, Same, OnceStays
  <2>3. CASE Next /\ UNCHANGED assembled BY <2>1, <2>3, <1>2, NextLengthens, OnceStays
  <2>4. ASSUME NEW b \in Buckets, NEW k \in Keys, CreateMultipartUpload(b, k) PROVE OnceInv'
    BY <2>4, <1>2, CreateUploadKeeps
  <2>5. ASSUME NEW u \in DOMAIN uploads,
               \/ \E p \in PartNumbers, kind \in BodyKinds : UploadPartLookup(u, p, kind)
               \/ \E listed \in SUBSET PartNumbers : CompleteGather(u, listed)
               \/ AbortMultipartUpload(u)
        PROVE  OnceInv'
    BY <2>5, <1>2, UploadStepKeeps
  <2>6. ASSUME NEW n \in DOMAIN tasks, MultipartStep(n) PROVE OnceInv'
    BY <2>6, <1>2, MultipartStepKeeps
  <2> QED BY <1>2, <2>2, <2>3, <2>4, <2>5, <2>6 DEF MNext
<1>3. OnceInv => CompletedOnce BY DEF OnceInv
<1> QED BY <1>1, <1>2, <1>3, PTL DEF MSpec

-----------------------------------------------------------------------------
(* Parts of uploads keep their files *)

LEMMA NamesApart ==
    /\ PartNames \cap Vids = {}
    /\ \A n \in 1..MaxOps : <<n>> \notin PartNames /\ <<n>> \notin Vids
<1>1. ASSUME NEW p \in PartNumbers PROVE <<0, 0, p>> \notin Vids
  <2>1. <<0, 0, p>> # Null BY PartAssumption
  <2>2. \A x \in Nat \X Nat : x # <<0, 0, p>> OBVIOUS
  <2> QED BY <2>1, <2>2 DEF Vids
<1>2. ASSUME NEW n \in 1..MaxOps PROVE <<n>> \notin PartNames /\ <<n>> \notin Vids
  <2>1. <<n>> # Null /\ \A x \in Nat \X Nat : x # <<n>> BY NullAssumption
  <2>2. \A p \in PartNumbers : <<0, 0, p>> # <<n>> OBVIOUS
  <2> QED BY <2>1, <2>2 DEF Vids, PartNames
<1> QED BY <1>1, <1>2 DEF PartNames

LEMMA PathName ==
    ASSUME NEW q \in Paths
    PROVE  q[3] \in Vids /\ q = <<q[1], q[2], q[3]>>
<1>1. q = <<q[1], q[2], q[3]>> /\ q[3] \in {Null} \cup ((1..MaxOps) \X {1}) BY DEF Paths
<1>2. (1..MaxOps) \X {1} \subseteq Nat \X Nat OBVIOUS
<1> QED BY <1>1, <1>2 DEF Vids

LEMMA OthersFit ==
    ASSUME NEW m \in DOMAIN tasks, Fits(tasks[m], m), tasks'[m] = tasks[m], UploadsFound, DOMAIN tasks \subseteq DOMAIN tasks',
           \A i \in DOMAIN tasks : tasks'[i].op = tasks[i].op,
           OfPart(m) /\ m \in DOMAIN disk => m \in DOMAIN disk' /\ disk'[m] = disk[m]
    PROVE  Fits(tasks[m], m)'
<1>1. PICK t : t = tasks[m] /\ t = tasks'[m] OBVIOUS
<1>2. OfUpload(t) => OfUpload(t)' BY DEF OfUpload, UploadsFound
<1>3. CopyFits(t) => CopyFits(t)' BY DEF CopyFits, OfPart, WillRecord
<1>4. GatherFits(t) => GatherFits(t)' BY <1>2 DEF GatherFits
<1>5. CompleteFits(t) => CompleteFits(t)' BY <1>2 DEF CompleteFits, WillRecord
<1>6. t.op = "part" /\ PartFits(t, m) => PartFits(t, m)'
  BY <1>1 DEF PartFits, UploadsFound, OfPart
<1>7. Fits(t, m) => Fits(t, m)' BY <1>3, <1>4, <1>5, <1>6 DEF Fits
<1> QED BY <1>1, <1>7

LEMMA OpsStay ==
    ASSUME NEW n, Moving(n)
    PROVE  \A i \in DOMAIN tasks : tasks'[i].op = tasks[i].op
BY DEF Moving

\* What is known besides of the parts survives a step of request n ...
LEMMA FitStays ==
    ASSUME PartsInv, NEW n, Moving(n), UploadsStay, UploadsFit', PlainObjects', Fits(tasks[n], n)',
           Spares(n),
           \A q \in DOMAIN link' : (q \in DOMAIN link /\ link'[q] = link[q]) \/ LinkFits(q)',
           OfPart(n) /\ tasks[n].pc = "commit" => tasks'[n].pc \in {"commit", "done", "dropped"}
    PROVE  (PlainObjects /\ TasksFit /\ LinksFit /\ UploadsFit /\ Raced /\ BucketsRaced)'
<1>1. n \in DOMAIN tasks /\ DOMAIN tasks' = DOMAIN tasks BY DEF Moving, InFlight
<1>2. TasksFit'
  <2>1. ASSUME NEW m \in DOMAIN tasks' PROVE Fits(tasks[m], m)'
    <3>1. CASE m = n BY <3>1
    <3>2. CASE m # n
      <4>1. Fits(tasks[m], m) /\ tasks'[m] = tasks[m] /\ m \in DOMAIN tasks
        BY <3>2, <1>1 DEF Moving, PartsInv, TasksFit
      <4>2. OfPart(m) /\ m \in DOMAIN disk => m \in DOMAIN disk' /\ disk'[m] = disk[m]
        BY <3>2, <4>1 DEF Spares
      <4>3. UploadsFound BY DEF UploadsStay, UploadsFound
      <4> QED BY <4>1, <4>2, <4>3, <3>2, <1>1, OpsStay, OthersFit
    <3> QED BY <3>1, <3>2
  <2>2. IsSeq(tasks)' /\ Len(tasks') <= MaxOps
    <3>1. IsSeq(tasks) /\ IsSeq(tasks') /\ Len(tasks) <= MaxOps
      BY DEF Moving, PartsInv, TasksFit
    <3>2. Len(tasks') = Len(tasks) BY <3>1, <1>1 DEF IsSeq
    <3> QED BY <3>1, <3>2
  <2> QED BY <2>1, <2>2 DEF TasksFit
<1>3. LinksFit'
  <2>1. ASSUME NEW q \in DOMAIN link', q \in DOMAIN link, link'[q] = link[q] PROVE LinkFits(q)'
    <3>1. LinkFits(q) BY <2>1 DEF PartsInv, LinksFit
    <3>2. PICK i \in DOMAIN tasks : i = link[q] /\ i \in DOMAIN disk'
      BY <3>1 DEF LinkFits, Spares
    <3>3. tasks'[i].op = tasks[i].op BY OpsStay
    <3>4. tasks[i].op = "part" /\ tasks[i].pc \in {"commit", "done", "dropped"} => tasks'[i].pc \in {"commit", "done", "dropped"}
      <4>1. CASE i = n BY <4>1 DEF Moving, InFlight, OfPart
      <4>2. CASE i # n BY <4>2 DEF Moving
      <4> QED BY <4>1, <4>2
    <3> QED BY <2>1, <3>1, <3>2, <3>3, <3>4, <1>1 DEF LinkFits, OfPart
  <2> QED BY <2>1 DEF LinksFit
<1>4. ASSUME NEW m \in InFlight' PROVE m \in InFlight /\ tasks'[m].touches = tasks[m].touches
  BY <1>1, <1>4 DEF Moving, InFlight, Over
<1>5. Raced' BY <1>4 DEF Raced, PartsInv, Moving
<1>6. BucketsRaced'
  <2>1. ASSUME NEW u \in DOMAIN uploads', NEW m \in InFlight', tasks'[m].op = "deleteBucket",
               tasks'[m].b = uploads'[u].bucket
        PROVE  UploadKey(u)' \in contended'
    <3>1. u \in DOMAIN uploads /\ UploadKey(u)' = UploadKey(u) /\ uploads'[u].bucket = uploads[u].bucket
      BY <2>1 DEF UploadsStay, UploadKey
    <3>2. m \in InFlight /\ tasks[m].op = "deleteBucket" /\ tasks[m].b = uploads[u].bucket
      <4>1. CASE m = n BY <4>1, <3>1, <2>1, <1>4 DEF Moving, InFlight, Over
      <4>2. CASE m # n BY <4>2, <3>1, <2>1, <1>4 DEF Moving, InFlight
      <4> QED BY <4>1, <4>2
    <3>3. UploadKey(u) \in contended BY <3>1, <3>2 DEF PartsInv, BucketsRaced
    <3> QED BY <3>1, <3>3 DEF Moving
  <2> QED BY <2>1 DEF BucketsRaced
<1> QED BY <1>2, <1>3, <1>5, <1>6

LEMMA BackedStays ==
    ASSUME NEW v, NEW q, v.data.file \in {None, q}, SameFile(q), Backed(v)
    PROVE  Backed(v)'
BY DEF Backed, SameFile, Linked

\* ... and so does a part ...
LEMMA KeptAt ==
    ASSUME PartsInv, NEW n, Moving(n), NEW u \in DOMAIN uploads', NEW p \in PartNumbers, Undisturbed(u, p)',
           u \in DOMAIN uploads, uploads'[u].bucket = uploads[u].bucket, uploads'[u].key = uploads[u].key,
           p \in DOMAIN uploads'[u].parts => p \in DOMAIN uploads[u].parts /\ uploads'[u].parts[p] = uploads[u].parts[p],
           Consumes(n, u) => Consumes(n, u)' \/ UploadKey(u) \in contended',
           PartToken(u, p) \notin contended' =>
               Arrives(n, u, p)' = Arrives(n, u, p) /\ (Arrives(n, u, p) => tasks'[n].part = tasks[n].part),
           Undisturbed(u, p) => SameFile(PartPath(u, p))
    PROVE  PartKept(u, p)'
<1>1. /\ PartToken(u, p)' = PartToken(u, p)
      /\ UploadKey(u)' = UploadKey(u) /\ contended \subseteq contended' /\ DOMAIN tasks' = DOMAIN tasks
      /\ UploadKey(u) \notin contended' /\ PartToken(u, p) \notin contended' /\ n \in DOMAIN tasks
  BY DEF PartToken, UploadKey, Moving, Undisturbed, InFlight
<1>2. Undisturbed(u, p)
  <2>1. ASSUME NEW m \in DOMAIN tasks, Consumes(m, u) PROVE FALSE
    <3>1. CASE m = n BY <3>1, <2>1, <1>1 DEF Undisturbed, Consumed
    <3>2. CASE m # n
      <4>1. Consumes(m, u)' BY <3>2, <2>1 DEF Consumes, Moving
      <4> QED BY <4>1, <1>1 DEF Undisturbed, Consumed
    <3> QED BY <3>1, <3>2
  <2> QED BY <2>1, <1>1 DEF Undisturbed, Consumed
<1>3. PartKept(u, p) /\ SameFile(PartPath(u, p)) /\ UploadFits(u)
  BY <1>1, <1>2 DEF PartsInv, PartsKept, UploadsFit
<1>4. ASSUME NEW m \in DOMAIN tasks PROVE Arrives(m, u, p)' = Arrives(m, u, p) /\ (Arrives(m, u, p) => tasks'[m].part = tasks[m].part)
  <2>1. CASE m = n BY <2>1, <1>1
  <2>2. CASE m # n BY <2>2 DEF Moving, Arrives
  <2> QED BY <2>1, <2>2
<1>5. Arriving(u, p)' = Arriving(u, p) BY <1>1, <1>4 DEF Arriving
<1>6. ASSUME p \in DOMAIN uploads'[u].parts, ~Arriving(u, p)' PROVE Backed(uploads[u].parts[p])'
  <2>1. PICK v : v = uploads[u].parts[p] OBVIOUS
  <2>2. v = uploads'[u].parts[p] /\ p \in DOMAIN uploads[u].parts BY <2>1, <1>6
  <2>3. Backed(v) /\ v.data.file \in {None, PartPath(u, p)}
    BY <2>1, <2>2, <1>3, <1>5, <1>6 DEF PartKept, UploadFits
  <2>4. Backed(v)' BY <2>3, <1>3, BackedStays
  <2> QED BY <2>2, <2>4
<1>7. ASSUME NEW m \in DOMAIN tasks, Arrives(m, u, p)' PROVE Backed(tasks[m].part)'
  <2>1. Arrives(m, u, p) BY <1>4, <1>7
  <2>2. PICK v : v = tasks[m].part /\ v = tasks'[m].part BY <2>1, <1>4
  <2>3. Backed(v) BY <2>1, <2>2, <1>3 DEF PartKept
  <2>4. v.data.file \in {None, PartPath(u, p)}
    <3>1. Fits(tasks[m], m) BY DEF PartsInv, TasksFit
    <3>2. PartFits(tasks[m], m) BY <3>1, <2>1 DEF Fits, Arrives, Over
    <3> QED BY <3>2, <2>1, <2>2, <1>1 DEF PartFits, Arrives, PartPath, FileRef, Inline
  <2>5. Backed(v)' BY <2>3, <2>4, <1>3, BackedStays
  <2> QED BY <2>2, <2>5
<1> QED BY <1>1, <1>6, <1>7 DEF PartKept

\* ... and all of them.
LEMMA KeptStays ==
    ASSUME PartsInv, NEW n, Moving(n), \A u \in DOMAIN uploads' : u \in DOMAIN uploads /\ uploads'[u] = uploads[u],
           \A u \in DOMAIN uploads' : Consumes(n, u) => Consumes(n, u)' \/ UploadKey(u) \in contended',
           \A u \in DOMAIN uploads', p \in PartNumbers : PartToken(u, p) \notin contended' =>
               Arrives(n, u, p)' = Arrives(n, u, p) /\ (Arrives(n, u, p) => tasks'[n].part = tasks[n].part),
           \A u \in DOMAIN uploads', p \in PartNumbers : Undisturbed(u, p) => SameFile(PartPath(u, p))
    PROVE  PartsKept'
<1>1. ASSUME NEW u \in DOMAIN uploads', NEW p \in PartNumbers, Undisturbed(u, p)' PROVE PartKept(u, p)'
  <2>1. u \in DOMAIN uploads /\ uploads'[u] = uploads[u] OBVIOUS
  <2> QED BY <2>1, <1>1, KeptAt
<1> QED BY <1>1 DEF PartsKept

LEMMA UploadsSame ==
    ASSUME UploadsFit, DOMAIN tasks \subseteq DOMAIN tasks',
           \A u \in DOMAIN uploads' : u \in DOMAIN uploads /\ uploads'[u] = uploads[u]
    PROVE  UploadsStay /\ UploadsFit'
<1>1. ASSUME NEW u \in DOMAIN uploads' PROVE UploadFits(u)'
  BY DEF UploadsFit, UploadFits, PartPath
<1> QED BY <1>1 DEF UploadsFit, UploadsStay

LEMMA ObjectsSame ==
    ASSUME PlainObjects, objects' = objects
    PROVE  PlainObjects'
BY DEF PlainObjects, Versions

LEMMA StepStays ==
    ASSUME PartsInv, NEW n, Moving(n), UploadsStay, UploadsFit', PlainObjects', Fits(tasks[n], n)', Beside(n),
           \A u \in DOMAIN uploads' : uploads'[u] = uploads[u],
           Spares(n),
           \A q \in DOMAIN link' : (q \in DOMAIN link /\ link'[q] = link[q]) \/ LinkFits(q)',
           \A u \in DOMAIN uploads', p \in PartNumbers : Undisturbed(u, p) => SameFile(PartPath(u, p))
    PROVE  PartsInv'
<1>1. n \in DOMAIN tasks /\ tasks'[n].op = tasks[n].op BY DEF Moving, InFlight
<1>2. (PlainObjects /\ TasksFit /\ LinksFit /\ UploadsFit /\ Raced /\ BucketsRaced)'
  <2>1. OfPart(n) /\ tasks[n].pc = "commit" => tasks'[n].pc \in {"commit", "done", "dropped"}
    BY DEF OfPart, Beside
  <2> QED BY <2>1, FitStays
<1>3. PartsKept'
  <2>1. \A u \in DOMAIN uploads' : Consumes(n, u) => Consumes(n, u)' \/ UploadKey(u) \in contended'
    BY DEF Consumes, Beside
  <2>2. \A u \in DOMAIN uploads', p \in PartNumbers : PartToken(u, p) \notin contended' =>
           Arrives(n, u, p)' = Arrives(n, u, p) /\ (Arrives(n, u, p) => tasks'[n].part = tasks[n].part)
    <3>1. ASSUME NEW u, NEW p PROVE Arrives(n, u, p)' = FALSE /\ Arrives(n, u, p) = FALSE
      BY <1>1 DEF Arrives, Beside
    <3> QED BY <3>1
  <2>3. \A u \in DOMAIN uploads' : u \in DOMAIN uploads BY DEF UploadsStay
  <2> QED BY <2>1, <2>2, <2>3, KeptStays
<1> QED BY <1>2, <1>3 DEF PartsInv

LEMMA AsideStays ==
    ASSUME PartsInv, NEW n, Moving(n), UNCHANGED <<objects, uploads, link, disk>>, Fits(tasks[n], n)', Beside(n)
    PROVE  PartsInv'
<1>1. UploadsStay /\ UploadsFit' BY UploadsSame DEF PartsInv, Moving
<1>2. PlainObjects' BY ObjectsSame DEF PartsInv
<1>3. Spares(n) /\ \A q : SameFile(q) BY DEF Spares, SameFile
<1> QED BY <1>1, <1>2, <1>3, StepStays

LEMMA Advances ==
    ASSUME PartsInv, NEW n \in InFlight, NEW t, tasks' = [tasks EXCEPT ![n] = t], t.op = tasks[n].op,
           ~Over(t) => t.touches = tasks[n].touches, ~Over(t) /\ tasks[n].op = "deleteBucket" => t.b = tasks[n].b,
           contended \subseteq contended'
    PROVE  Moving(n) /\ tasks'[n] = t /\ n \in DOMAIN tasks
<1>1. IsSeq(tasks) /\ n \in DOMAIN tasks BY DEF PartsInv, TasksFit, InFlight
<1>2. IsSeq(tasks') BY <1>1, Replaces DEF Lengthens
<1> QED BY <1>1, <1>2 DEF Moving

LEMMA Ends ==
    ASSUME PartsInv, NEW n \in InFlight, Finish(n), contended \subseteq contended'
    PROVE  Moving(n) /\ Over(tasks'[n]) /\ Fits(tasks[n], n)' /\ n \in DOMAIN tasks /\ tasks'[n].op = tasks[n].op
<1>1. PICK op : op = tasks[n].op OBVIOUS
<1>2. PICK t : t = Done(op) OBVIOUS
<1>3. tasks' = [tasks EXCEPT ![n] = t] BY <1>1, <1>2 DEF Finish
<1>4. t.op = op /\ Over(t) /\ Has(t, {"op", "pc", "touches"}) BY <1>2 DEF Done, Over, Has
<1>5. Moving(n) /\ tasks'[n] = t /\ n \in DOMAIN tasks BY <1>1, <1>3, <1>4, Advances
<1> QED BY <1>1, <1>4, <1>5 DEF Fits, Over

LEMMA GoesTo ==
    ASSUME PartsInv, NEW n \in InFlight, NEW pc, Goto(n, pc), contended \subseteq contended'
    PROVE  /\ Moving(n) /\ n \in DOMAIN tasks /\ tasks'[n].pc = pc /\ DOMAIN tasks'[n] = DOMAIN tasks[n]
           /\ \A f \in DOMAIN tasks[n] : f # "pc" => tasks'[n][f] = tasks[n][f]
           /\ Has(tasks[n], {"op", "pc", "touches"})
<1>1. PICK t : t = [tasks[n] EXCEPT !.pc = pc] OBVIOUS
<1>2. tasks' = [tasks EXCEPT ![n] = t] BY <1>1 DEF Goto
<1>3. n \in DOMAIN tasks /\ Fits(tasks[n], n) BY DEF InFlight, PartsInv, TasksFit
<1>4. Has(tasks[n], {"op", "pc", "touches"}) BY <1>3 DEF Fits
<1>5. t.pc = pc /\ DOMAIN t = DOMAIN tasks[n] /\ \A f \in DOMAIN tasks[n] : f # "pc" => t[f] = tasks[n][f]
  BY <1>1, <1>4 DEF Has
<1>6. t.op = tasks[n].op /\ t.touches = tasks[n].touches BY <1>4, <1>5 DEF Has
<1>7. tasks[n].op = "deleteBucket" => t.b = tasks[n].b
  <2>1. tasks[n].op = "deleteBucket" => Has(tasks[n], {"b"})
    BY <1>3 DEF Fits, BucketFits, InFlight, Over
  <2> QED BY <2>1, <1>5 DEF Has
<1>8. Moving(n) /\ tasks'[n] = t BY <1>2, <1>6, <1>7, Advances
<1> QED BY <1>3, <1>4, <1>5, <1>8

\* What a request is that has come to some point.
LEMMA Stage ==
    ASSUME PartsInv, NEW n \in DOMAIN tasks, NEW t, t = tasks[n]
    PROVE  /\ Has(t, {"op", "pc", "touches"})
           /\ t.pc \in {"ensureDir", "remember"} =>
                \/ (t.op = "put" /\ PutFits(t)) \/ (t.op = "copy" /\ CopyFits(t))
                \/ (t.op = "complete" /\ CompleteFits(t)) \/ (t.op = "part" /\ PartFits(t, n))
           /\ t.pc \in {"write", "rename"} =>
                \/ (t.op = "put" /\ PutFits(t)) \/ (t.op = "complete" /\ CompleteFits(t))
                \/ (t.op = "part" /\ PartFits(t, n))
           /\ t.pc = "cleanup" => t.op \in {"put", "copy", "complete", "delete"} /\ CleanupFits(t)
           /\ t.pc = "commit" /\ t.op = "put" => PutFits(t)
           /\ t.pc = "commit" /\ t.op = "part" => PartFits(t, n)
           /\ t.pc \in {"commit", "assemble", "removeParts"} /\ t.op = "complete" => CompleteFits(t)
           /\ t.pc \in {"assemble", "removeParts"} => t.op = "complete"
           /\ t.pc = "completeVersioning" => t.op = "complete" /\ GatherFits(t)
           /\ t.pc = "commit" /\ t.op = "copy" => CopyFits(t)
           /\ t.pc \in {"copyRead", "copyResolve", "copyLink", "copyFill"} => t.op = "copy" /\ CopyFits(t)
           /\ t.pc = "copyVersioning" => t.op = "copy" /\ LookupFits(t)
           /\ t.pc = "delete" => t.op = "delete" /\ DeleteFits(t)
           /\ t.pc \in BucketPcs => t.op = "deleteBucket" /\ BucketFits(t)
           /\ t.pc = "read" => t.op = "get" /\ GetFits(t)
<1>1. Fits(t, n) BY DEF PartsInv, TasksFit
<1>2. /\ Has(t, {"op", "pc", "touches"})
      /\ \/ t.pc \in {"done", "dropped"}
         \/ t.op = "put" /\ PutFits(t) /\ t.pc \in WritePcs \cup {"commit"}
         \/ t.op \in {"put", "copy", "complete", "delete"} /\ CleanupFits(t) /\ t.pc = "cleanup"
         \/ t.op = "copy" /\ LookupFits(t) /\ t.pc = "copyVersioning"
         \/ t.op = "copy" /\ CopyFits(t) /\ t.pc \in {"copyRead", "copyResolve", "ensureDir", "remember", "copyLink", "copyFill", "commit"}
         \/ t.op = "complete" /\ GatherFits(t) /\ t.pc = "completeVersioning"
         \/ t.op = "complete" /\ CompleteFits(t) /\ t.pc \in WritePcs \cup {"assemble", "removeParts", "commit"}
         \/ t.op = "part" /\ PartFits(t, n) /\ t.pc \in WritePcs \cup {"commit"}
         \/ t.op = "delete" /\ DeleteFits(t) /\ t.pc = "delete"
         \/ t.op = "deleteBucket" /\ BucketFits(t) /\ t.pc \in BucketPcs
         \/ t.op = "get" /\ GetFits(t) /\ t.pc = "read"
  BY <1>1 DEF Fits, Over, PutFits, CleanupFits, LookupFits, CopyFits, GatherFits, CompleteFits, PartFits, DeleteFits,
              BucketFits, GetFits
<1> QED BY <1>2 DEF WritePcs, BucketPcs

LEMMA GoFits ==
    ASSUME PartsInv, NEW n \in InFlight, NEW pc, Goto(n, pc), contended \subseteq contended', uploads' = uploads,
           NEW t, t = tasks[n],
           \/ t.op = "put" /\ PutFits(t) /\ pc \in WritePcs \cup {"commit"}
           \/ t.op = "copy" /\ CopyFits(t) /\ pc \in {"copyResolve", "ensureDir", "remember", "copyLink", "commit"}
           \/ t.op = "complete" /\ CompleteFits(t) /\ pc \in WritePcs \cup {"assemble", "removeParts", "commit"}
           \/ /\ t.op = "part" /\ PartFits(t, n) /\ t.part.data = FileRef(t.path) /\ pc \in WritePcs \cup {"commit"}
              /\ pc = "rename" => n \in DOMAIN disk' /\ disk'[n] = <<n>>
           \/ t.op = "deleteBucket" /\ BucketFits(t) /\ pc \in BucketPcs
    PROVE  Fits(tasks[n], n)' /\ Moving(n) /\ n \in DOMAIN tasks /\ tasks'[n].pc = pc /\ tasks'[n].op = t.op
<1>1. PICK r : r = tasks'[n] OBVIOUS
<1>2. /\ Moving(n) /\ n \in DOMAIN tasks /\ r.pc = pc /\ DOMAIN r = DOMAIN t
      /\ \A f \in DOMAIN t : f # "pc" => r[f] = t[f]
      /\ {"op", "pc", "touches"} \subseteq DOMAIN t
  BY <1>1, GoesTo DEF Has
<1>3. r.op = t.op /\ r.touches = t.touches /\ Has(r, {"op", "pc", "touches"})
  BY <1>2 DEF Has
<1>4. DOMAIN tasks' = DOMAIN tasks /\ \A i \in DOMAIN tasks : tasks'[i].op = tasks[i].op
  BY <1>2, OpsStay DEF Moving
<1>5. ASSUME WillRecord(t) PROVE WillRecord(r)
  BY <1>2, <1>5 DEF WillRecord, Has, ObjectFile
<1>6. CASE t.op = "put" /\ PutFits(t) /\ pc \in WritePcs \cup {"commit"}
  <2>1. PutFits(r)' BY <1>2, <1>5, <1>6 DEF PutFits, Has, WillRecord
  <2> QED BY <2>1, <1>1, <1>2, <1>3, <1>6 DEF Fits
<1>7. CASE t.op = "copy" /\ CopyFits(t) /\ pc \in {"copyResolve", "ensureDir", "remember", "copyLink", "commit"}
  <2>1. CopyFits(r)' BY <1>2, <1>5, <1>7 DEF CopyFits, Has, WillRecord
  <2> QED BY <2>1, <1>1, <1>2, <1>3, <1>7 DEF Fits
<1>8. CASE t.op = "complete" /\ CompleteFits(t) /\ pc \in WritePcs \cup {"assemble", "removeParts", "commit"}
  <2>1. CompleteFits(r)'
    <3>1. OfUpload(r)' BY <1>2, <1>3, <1>4, <1>8 DEF CompleteFits, OfUpload, Has
    <3>2. WillRecord(r) /\ Has(t, {"left", "body", "remove", "after", "then"}) /\ \A q \in t.remove : q[2] = t.u
      BY <1>5, <1>8 DEF CompleteFits, WillRecord, Has
    <3>3. /\ Has(r, {"left", "body", "remove", "after"}) /\ r.then = t.then /\ r.after = t.after
          /\ r.remove = t.remove /\ r.u = t.u
      BY <3>2, <1>2, <1>8 DEF Has, CompleteFits, OfUpload
    <3> QED BY <3>1, <3>2, <3>3, <1>2, <1>8 DEF CompleteFits, WillRecord, ObjectFile
  <2> QED BY <2>1, <1>1, <1>2, <1>3, <1>8 DEF Fits
<1>9. CASE /\ t.op = "part" /\ PartFits(t, n) /\ t.part.data = FileRef(t.path) /\ pc \in WritePcs \cup {"commit"}
           /\ pc = "rename" => n \in DOMAIN disk' /\ disk'[n] = <<n>>
  <2>1. PartFits(r, n)' BY <1>2, <1>3, <1>4, <1>9 DEF PartFits, Has
  <2> QED BY <2>1, <1>1, <1>2, <1>3, <1>9 DEF Fits
<1>10. CASE t.op = "deleteBucket" /\ BucketFits(t) /\ pc \in BucketPcs
  <2>1. BucketFits(r)' BY <1>2, <1>3, <1>10 DEF BucketFits, Has
  <2> QED BY <2>1, <1>1, <1>2, <1>3, <1>10 DEF Fits
<1> QED BY <1>1, <1>2, <1>3, <1>6, <1>7, <1>8, <1>9, <1>10

LEMMA Flying ==
    ASSUME PartsInv, NEW n, NEW pc, At(n, pc), pc \notin {"done", "dropped"}
    PROVE  n \in InFlight /\ n \in DOMAIN tasks /\ tasks[n].pc = pc /\ n \in 1..MaxOps
<1>1. n \in InFlight /\ n \in DOMAIN tasks /\ tasks[n].pc = pc BY DEF At, InFlight
<1>2. DOMAIN tasks = 1..Len(tasks) /\ Len(tasks) \in Nat /\ Len(tasks) <= MaxOps
  BY DEF PartsInv, TasksFit, IsSeq
<1>3. MaxOps \in Nat BY S3Assumption, Zenon
<1> QED BY <1>1, <1>2, <1>3

LEMMA EnsureDirParts ==
    ASSUME PartsInv, NEW n, EnsureDir(n) \/ RememberDir(n)
    PROVE  PartsInv'
<1>1. PICK pc \in {"ensureDir", "remember"} : At(n, pc) BY DEF EnsureDir, RememberDir
<1>2. n \in InFlight /\ n \in DOMAIN tasks /\ tasks[n].pc = pc BY <1>1, Flying
<1>3. Goto(n, tasks[n].then) \/ Goto(n, "remember") BY DEF EnsureDir, RememberDir
<1>4. UNCHANGED <<objects, uploads, link, disk, contended>>
  BY DEF EnsureDir, RememberDir, meta, history
<1>5. PICK t : t = tasks[n] OBVIOUS
<1>6. \/ (t.op = "put" /\ PutFits(t)) \/ (t.op = "copy" /\ CopyFits(t))
      \/ (t.op = "complete" /\ CompleteFits(t)) \/ (t.op = "part" /\ PartFits(t, n))
  BY <1>1, <1>2, <1>5, Stage
<1>7. PICK next : Goto(n, next) /\ next \in {t.then, "remember"} BY <1>3, <1>5
<1>8. \/ t.op = "put" /\ PutFits(t) /\ next \in WritePcs \cup {"commit"}
      \/ t.op = "copy" /\ CopyFits(t) /\ next \in {"copyResolve", "ensureDir", "remember", "copyLink", "commit"}
      \/ t.op = "complete" /\ CompleteFits(t) /\ next \in WritePcs \cup {"assemble", "removeParts", "commit"}
      \/ /\ t.op = "part" /\ PartFits(t, n) /\ t.part.data = FileRef(t.path) /\ next \in WritePcs \cup {"commit"}
         /\ next = "rename" => n \in DOMAIN disk' /\ disk'[n] = <<n>>
  <2>1. CASE t.op = "put" /\ PutFits(t) BY <2>1, <1>7 DEF PutFits, WritePcs
  <2>2. CASE t.op = "copy" /\ CopyFits(t) BY <2>2, <1>7 DEF CopyFits
  <2>3. CASE t.op = "complete" /\ CompleteFits(t) BY <2>3, <1>7 DEF CompleteFits, WritePcs
  <2>4. CASE t.op = "part" /\ PartFits(t, n)
    <3>1. t.then = "write" /\ (t.part.data = FileRef(t.path) \/ t.pc = "commit")
      BY <2>4 DEF PartFits
    <3>2. next \in {"write", "remember"} /\ t.part.data = FileRef(t.path)
      BY <3>1, <1>1, <1>2, <1>5, <1>7
    <3> QED BY <2>4, <3>2 DEF WritePcs
  <2> QED BY <1>6, <2>1, <2>2, <2>3, <2>4
<1>9. Fits(tasks[n], n)' /\ Moving(n) /\ tasks'[n].pc = next /\ tasks'[n].op = t.op
  <2>1. contended \subseteq contended' /\ uploads' = uploads BY <1>4
  <2> QED BY <2>1, <1>2, <1>5, <1>7, <1>8, GoFits
<1>10. Beside(n)
  <2>1. t.op = "part" => next # "commit" BY <1>7, <1>6 DEF PartFits
  <2> QED BY <2>1, <1>1, <1>2, <1>5, <1>9 DEF Beside
<1> QED BY <1>4, <1>9, <1>10, AsideStays

\* A request that stops where no part depends on it.
LEMMA StopsParts ==
    ASSUME PartsInv, NEW n \in InFlight, Finish(n), UNCHANGED <<objects, uploads, link, disk, contended>>,
           ~(tasks[n].op = "part" /\ tasks[n].pc = "commit"), ~(tasks[n].op = "complete" /\ tasks[n].pc \in {"removeParts", "commit"})
    PROVE  PartsInv'
<1>1. Moving(n) /\ Over(tasks'[n]) /\ Fits(tasks[n], n)' BY Ends
<1>2. Beside(n) BY <1>1 DEF Beside, Over
<1> QED BY <1>1, <1>2, AsideStays

LEMMA CancelParts ==
    ASSUME PartsInv, NEW n, Cancel(n)
    PROVE  PartsInv'
<1>1. n \in InFlight /\ n \in DOMAIN tasks /\ contended' = contended \cup tasks[n].touches
  BY DEF Cancel, InFlight
<1>2. UNCHANGED <<objects, uploads, link, disk>> BY DEF Cancel, meta, files
<1>3. PICK op, t : op = tasks[n].op /\ t = Dropped(op) OBVIOUS
<1>4. tasks' = [tasks EXCEPT ![n] = t] BY <1>3 DEF Cancel
<1>5. t.op = op /\ Over(t) /\ Has(t, {"op", "pc", "touches"})
  BY <1>3 DEF Dropped, Over, Has
<1>6. Moving(n) /\ tasks'[n] = t BY <1>1, <1>3, <1>4, <1>5, Advances
<1>7. Fits(tasks[n], n)' BY <1>5, <1>6 DEF Fits, Over
<1>8. UploadsStay /\ UploadsFit' /\ PlainObjects'
  BY <1>2, <1>6, UploadsSame, ObjectsSame DEF PartsInv, Moving
<1>9. (PlainObjects /\ TasksFit /\ LinksFit /\ UploadsFit /\ Raced /\ BucketsRaced)'
  <2>1. tasks'[n].pc \in {"commit", "done", "dropped"} BY <1>5, <1>6 DEF Over
  <2>2. \A q \in DOMAIN link' : q \in DOMAIN link /\ link'[q] = link[q] BY <1>2
  <2>3. Spares(n) BY <1>2 DEF Spares
  <2> QED BY <2>1, <2>2, <2>3, <1>6, <1>7, <1>8, FitStays
<1>10. PartsKept'
  <2>1. \A u \in DOMAIN uploads' : Consumes(n, u) => Consumes(n, u)' \/ UploadKey(u) \in contended'
    <3>1. ASSUME NEW u \in DOMAIN uploads, Consumes(n, u) PROVE UploadKey(u) \in contended'
      <4>1. CompleteFits(tasks[n]) /\ tasks[n].u = u BY <3>1, <1>1, Stage DEF Consumes
      <4> QED BY <4>1, <1>1 DEF CompleteFits, OfUpload, UploadKey
    <3> QED BY <3>1, <1>2
  <2>2. \A u \in DOMAIN uploads', p \in PartNumbers : PartToken(u, p) \notin contended' =>
           Arrives(n, u, p)' = Arrives(n, u, p) /\ (Arrives(n, u, p) => tasks'[n].part = tasks[n].part)
    <3>1. ASSUME NEW u \in DOMAIN uploads, NEW p, Arrives(n, u, p) PROVE PartToken(u, p) \in contended'
      <4>1. PartFits(tasks[n], n) /\ tasks[n].u = u /\ tasks[n].p = p
        BY <3>1, <1>1, Stage DEF Arrives
      <4> QED BY <4>1, <1>1 DEF PartFits, PartToken
    <3>2. \A u, p : Arrives(n, u, p)' = FALSE BY <1>5, <1>6 DEF Arrives, Over
    <3>3. \A u, p : Arrives(n, u, p) \in BOOLEAN BY DEF Arrives
    <3> QED BY <3>1, <3>2, <3>3, <1>2
  <2>3. \A q : SameFile(q) BY <1>2 DEF SameFile
  <2>4. \A u \in DOMAIN uploads' : u \in DOMAIN uploads /\ uploads'[u] = uploads[u]
    BY <1>2
  <2> QED BY <2>1, <2>2, <2>3, <2>4, <1>6, KeptStays
<1> QED BY <1>9, <1>10 DEF PartsInv

LEMMA Numbers ==
    ASSUME PartsInv
    PROVE  DOMAIN tasks \subseteq 1..MaxOps /\ DOMAIN tasks = 1..Len(tasks) /\ Len(tasks) \in Nat
<1>1. DOMAIN tasks = 1..Len(tasks) /\ Len(tasks) \in Nat /\ Len(tasks) <= MaxOps
  BY DEF PartsInv, TasksFit, IsSeq
<1>2. MaxOps \in Nat BY S3Assumption, Zenon
<1> QED BY <1>1, <1>2

\* Whose bytes are under the name of a part, of a version, and of a temporary file.
LEMMA Inodes ==
    ASSUME PartsInv, NEW q \in DOMAIN link
    PROVE  /\ link[q] \in DOMAIN tasks /\ link[q] \in DOMAIN disk
           /\ q[3] \in PartNames => OfPart(link[q]) /\ tasks[link[q]].pc \in {"commit", "done", "dropped"}
           /\ q[3] \in Vids => ~OfPart(link[q])
           /\ \A n \in 1..MaxOps : q[3] = <<n>> => link[q] = n
<1>1. LinkFits(q) BY DEF PartsInv, LinksFit
<1>2. PICK i \in 1..MaxOps : i = link[q] /\ i \in DOMAIN tasks
  BY <1>1, Numbers DEF LinkFits
<1>3. <<i>> \notin PartNames /\ <<i>> \notin Vids /\ PartNames \cap Vids = {}
  BY NamesApart
<1>4. \A n \in 1..MaxOps : <<n>> = <<i>> => n = i OBVIOUS
<1> QED BY <1>1, <1>2, <1>3, <1>4, NamesApart DEF LinkFits

LEMMA PartPathIs ==
    ASSUME NEW u, NEW p \in PartNumbers
    PROVE  PartPath(u, p)[3] \in PartNames /\ PartPath(u, p)[2] = u /\ PartPath(u, p)[1] = uploads[u].bucket
BY DEF PartPath, PartNames

\* The bytes of parts are changed by nobody who writes his own, or over those of a version.
LEMMA PartFileStays ==
    ASSUME PartsInv, NEW u, NEW p \in PartNumbers, PartPath(u, p) \in DOMAIN link' <=> PartPath(u, p) \in DOMAIN link,
           PartPath(u, p) \in DOMAIN link => link'[PartPath(u, p)] = link[PartPath(u, p)],
           NEW n, Spares(n), n \in DOMAIN disk /\ OfPart(n) /\ tasks[n].pc \in {"commit", "done", "dropped"} => disk'[n] = disk[n]
    PROVE  SameFile(PartPath(u, p))
<1>1. ASSUME PartPath(u, p) \in DOMAIN link PROVE disk'[link[PartPath(u, p)]] = disk[link[PartPath(u, p)]]
  <2>1. PICK q \in DOMAIN link : q = PartPath(u, p) BY <1>1
  <2>2. q[3] \in PartNames BY <2>1, PartPathIs
  <2>3. link[q] \in DOMAIN tasks /\ link[q] \in DOMAIN disk /\ OfPart(link[q]) /\ tasks[link[q]].pc \in {"commit", "done", "dropped"}
    BY <2>2, Inodes
  <2> QED BY <2>1, <2>3 DEF Spares
<1> QED BY <1>1 DEF SameFile

LEMMA TmpPathIs ==
    ASSUME NEW n \in 1..MaxOps
    PROVE  TmpPath(n)[3] = <<n>> /\ TmpPath(n)[3] \notin PartNames
BY NamesApart DEF TmpPath

\* A temporary file appears.
LEMMA TmpParts ==
    ASSUME PartsInv, NEW n, At(n, "write"), NEW c, link' = With(link, TmpPath(n), n), disk' = With(disk, n, c),
           Moving(n), Fits(tasks[n], n)', Beside(n), UNCHANGED <<objects, uploads>>
    PROVE  PartsInv'
<1>1. n \in InFlight /\ n \in DOMAIN tasks /\ tasks[n].pc = "write" /\ n \in 1..MaxOps
  BY Flying
<1>2. UploadsStay /\ UploadsFit' /\ PlainObjects'
  BY UploadsSame, ObjectsSame DEF PartsInv, Moving
<1>3. PICK tmp : tmp = TmpPath(n) /\ tmp[3] = <<n>> /\ tmp[3] \notin PartNames
  BY <1>1, TmpPathIs
<1>4. /\ DOMAIN link' = DOMAIN link \cup {tmp} /\ link'[tmp] = n
      /\ \A q \in DOMAIN link : q # tmp => link'[q] = link[q]
  BY <1>3 DEF With
<1>5. \A q \in DOMAIN link' : (q \in DOMAIN link /\ link'[q] = link[q]) \/ LinkFits(q)'
  <2>1. LinkFits(tmp)' BY <1>1, <1>3, <1>4 DEF LinkFits, Moving, With
  <2> QED BY <2>1, <1>4
<1>6. Spares(n) BY DEF With, Spares
<1>7. ASSUME NEW u, NEW p \in PartNumbers PROVE SameFile(PartPath(u, p))
  <2>1. PartPath(u, p) # tmp BY <1>3, PartPathIs
  <2> QED BY <2>1, <1>1, <1>4, <1>6, PartFileStays
<1> QED BY <1>2, <1>5, <1>6, <1>7, StepStays

LEMMA WriteParts ==
    ASSUME PartsInv, NEW n, WriteTmp(n) \/ WriteFails(n)
    PROVE  PartsInv'
<1>1. At(n, "write") /\ UNCHANGED <<objects, uploads, contended>>
  BY DEF WriteTmp, WriteFails, meta, history
<1>2. n \in InFlight /\ n \in DOMAIN tasks /\ tasks[n].pc = "write" /\ n \in 1..MaxOps
  BY <1>1, Flying
<1>3. PICK t : t = tasks[n] OBVIOUS
<1>4. \/ (t.op = "put" /\ PutFits(t)) \/ (t.op = "complete" /\ CompleteFits(t)) \/ (t.op = "part" /\ PartFits(t, n))
  BY <1>2, <1>3, Stage
<1>5. CASE Finish(n) /\ UNCHANGED <<link, disk>> BY <1>1, <1>2, <1>5, StopsParts
<1>6. CASE Finish(n) /\ link' = With(link, TmpPath(n), n) /\ disk' = With(disk, n, <<>>)
  <2>1. Moving(n) /\ Over(tasks'[n]) /\ Fits(tasks[n], n)' BY <1>1, <1>2, <1>6, Ends
  <2>2. Beside(n) BY <2>1, <1>2 DEF Beside, Over
  <2> QED BY <2>1, <2>2, <1>1, <1>6, TmpParts
<1>7. CASE Goto(n, "rename") /\ link' = With(link, TmpPath(n), n) /\ disk' = With(disk, n, tasks[n].body)
  <2>1. \/ t.op = "put" /\ PutFits(t) /\ "rename" \in WritePcs \cup {"commit"}
        \/ t.op = "complete" /\ CompleteFits(t) /\ "rename" \in WritePcs \cup {"assemble", "removeParts", "commit"}
        \/ /\ t.op = "part" /\ PartFits(t, n) /\ t.part.data = FileRef(t.path) /\ "rename" \in WritePcs \cup {"commit"}
           /\ "rename" = "rename" => n \in DOMAIN disk' /\ disk'[n] = <<n>>
    <3>1. CASE t.op = "part" /\ PartFits(t, n)
      BY <3>1, <1>2, <1>3, <1>7 DEF PartFits, With, WritePcs
    <3> QED BY <3>1, <1>4 DEF WritePcs
  <2>2. Fits(tasks[n], n)' /\ Moving(n) /\ tasks'[n].pc = "rename"
    <3>1. contended \subseteq contended' /\ uploads' = uploads BY <1>1
    <3> QED BY <2>1, <3>1, <1>2, <1>3, <1>7, GoFits
  <2>3. Beside(n) BY <2>2, <1>2 DEF Beside
  <2> QED BY <2>2, <2>3, <1>1, <1>7, TmpParts
<1> QED BY <1>5, <1>6, <1>7 DEF WriteTmp, WriteFails

LEMMA Renamed ==
    ASSUME PartsInv, NEW n, Rename(n), Linked(TmpPath(n)), NEW path, path = tasks[n].path
    PROVE  Relinked(n, path)
<1>1. n \in 1..MaxOps BY Flying DEF Rename
<1>2. PICK tmp \in DOMAIN link : tmp = TmpPath(n) /\ tmp[3] = <<n>> /\ tmp[3] \notin PartNames
  BY <1>1, TmpPathIs DEF Linked
<1>3. link[tmp] = n /\ n \in DOMAIN disk BY <1>1, <1>2, Inodes
<1>4. link' = With(Restrict(link, DOMAIN link \ {tmp}), path, n) BY <1>2, <1>3 DEF Rename
<1>5. /\ DOMAIN link' = (DOMAIN link \ {tmp}) \cup {path} /\ link'[path] = n
      /\ \A q \in DOMAIN link' : q # path => q \in DOMAIN link /\ link'[q] = link[q]
  BY ONLY <1>4 DEF With, Restrict
<1> QED BY <1>2, <1>3, <1>5 DEF Relinked

LEMMA RenameParts ==
    ASSUME PartsInv, NEW n, Rename(n), tasks[n].op # "part"
    PROVE  PartsInv'
<1>1. At(n, "rename") /\ UNCHANGED <<objects, uploads, disk, contended>>
  BY DEF Rename, meta, history
<1>2. n \in InFlight /\ n \in DOMAIN tasks /\ tasks[n].pc = "rename" /\ n \in 1..MaxOps
  BY <1>1, Flying
<1>3. PICK t : t = tasks[n] OBVIOUS
<1>4. (t.op = "put" /\ PutFits(t)) \/ (t.op = "complete" /\ CompleteFits(t))
  BY <1>2, <1>3, Stage
<1>5. CASE Finish(n) /\ UNCHANGED link BY <1>1, <1>2, <1>5, StopsParts
<1>6. CASE Linked(TmpPath(n)) /\ Goto(n, t.after)
  <2>1. PICK next : next = t.after OBVIOUS
  <2>2. \/ t.op = "put" /\ PutFits(t) /\ next \in WritePcs \cup {"commit"}
        \/ t.op = "complete" /\ CompleteFits(t) /\ next \in WritePcs \cup {"assemble", "removeParts", "commit"}
    BY <2>1, <1>4 DEF PutFits, CompleteFits
  <2>3. Fits(tasks[n], n)' /\ Moving(n) /\ tasks'[n].pc = next /\ tasks'[n].op = t.op
    <3>1. contended \subseteq contended' /\ uploads' = uploads /\ Goto(n, next)
      BY <1>1, <1>6, <2>1
    <3> QED BY <2>2, <3>1, <1>2, <1>3, GoFits
  <2>4. Beside(n) BY <1>2, <1>3, <1>4 DEF Beside
  <2>5. PICK path \in Paths : path = t.path BY <1>4 DEF PutFits, CompleteFits, WillRecord
  <2>6. path[3] \in Vids /\ path[3] \notin PartNames BY PathName, NamesApart
  <2>7. /\ DOMAIN link' = (DOMAIN link \ {TmpPath(n)}) \cup {path} /\ link'[path] = n
        /\ \A q \in DOMAIN link' : q # path => q \in DOMAIN link /\ link'[q] = link[q]
        /\ n \in DOMAIN disk /\ TmpPath(n)[3] \notin PartNames
    BY <1>3, <1>6, <2>5, Renamed DEF Relinked
  <2>8. \A q \in DOMAIN link' : (q \in DOMAIN link /\ link'[q] = link[q]) \/ LinkFits(q)'
    <3>1. LinkFits(path)'
      BY <2>3, <2>6, <2>7, <1>1, <1>2, <1>3, <1>4 DEF LinkFits, OfPart, Moving
    <3> QED BY <3>1, <2>7
  <2>9. Spares(n) BY <1>1 DEF Spares
  <2>10. ASSUME NEW u, NEW p \in PartNumbers PROVE SameFile(PartPath(u, p))
    <3>1. PartPath(u, p) # path /\ PartPath(u, p) # TmpPath(n) BY <2>6, <2>7, PartPathIs
    <3>2. disk'[n] = disk[n] BY <1>1
    <3> QED BY <3>1, <3>2, <2>7, <2>9, PartFileStays
  <2>11. UploadsStay /\ UploadsFit' /\ PlainObjects'
    BY <1>1, <2>3, UploadsSame, ObjectsSame DEF PartsInv, Moving
  <2>12. \A u \in DOMAIN uploads' : uploads'[u] = uploads[u] BY <1>1
  <2> QED BY <2>3, <2>4, <2>8, <2>9, <2>10, <2>11, <2>12, StepStays
<1> QED BY <1>3, <1>5, <1>6 DEF Rename

\* A part has its name now, and nobody else sends the same part unless the two race.
LEMMA PartAlone ==
    ASSUME PartsInv, NEW n \in InFlight, NEW m \in InFlight, m # n, NEW u, NEW p, u \in DOMAIN uploads, PartToken(u, p) \notin contended,
           PartFits(tasks[n], n), PartFits(tasks[m], m), tasks[n].u = u, tasks[n].p = p, tasks[m].u = u, tasks[m].p = p
    PROVE  FALSE
<1>1. tasks[n].touches = {PartToken(u, p)} /\ tasks[m].touches = {PartToken(u, p)}
  BY DEF PartFits, PartToken
<1> QED BY <1>1 DEF PartsInv, Raced

LEMMA PartPathApart ==
    ASSUME NEW t, NEW n, PartFits(t, n), NEW u \in DOMAIN uploads, NEW p
    PROVE  PartPath(u, p) = t.path <=> (u = t.u /\ p = t.p)
<1>1. t.path = <<t.path[1], t.u, <<0, 0, t.p>>>> /\ (t.u \in DOMAIN uploads => uploads[t.u].bucket = t.path[1])
  BY DEF PartFits
<1>2. PICK x : x = t.path[1] OBVIOUS
<1>3. t.path = <<x, t.u, <<0, 0, t.p>>>> /\ PartPath(u, p) = <<uploads[u].bucket, u, <<0, 0, p>>>>
  BY <1>1, <1>2 DEF PartPath
<1>4. u = t.u => uploads[u].bucket = x BY <1>1, <1>2
<1>5. \A a, c : <<0, 0, a>> = <<0, 0, c>> => a = c OBVIOUS
<1> QED BY <1>3, <1>4, <1>5

LEMMA SomePath ==
    ASSUME PartsInv, NEW t, NEW n, PartFits(t, n), t.u \in DOMAIN uploads
    PROVE  t.path # None
<1>1. t.path = <<t.path[1], t.u, <<0, 0, t.p>>>> /\ t.path[1] = uploads[t.u].bucket /\ t.u \in DOMAIN tasks /\ t.p \in PartNumbers
  BY DEF PartFits
<1>2. t.u \in Nat /\ uploads[t.u].bucket \in Buckets
  BY <1>1, Numbers DEF PartsInv, UploadsFit, UploadFits
<1>3. t.path \in Buckets \X Nat \X {<<0, 0, t.p>>} BY <1>1, <1>2
<1> QED BY <1>1, <1>3, PartAssumption

LEMMA PartRenamed ==
    ASSUME PartsInv, NEW n, Rename(n), tasks[n].op = "part"
    PROVE  PartsInv'
<1>1. At(n, "rename") /\ UNCHANGED <<objects, uploads, disk, contended>>
  BY DEF Rename, meta, history
<1>2. n \in InFlight /\ n \in DOMAIN tasks /\ tasks[n].pc = "rename" /\ n \in 1..MaxOps
  BY <1>1, Flying
<1>3. PICK t : t = tasks[n] OBVIOUS
<1>4. PartFits(t, n) /\ t.part.data = FileRef(t.path) /\ t.after = "commit" /\ t.part.etag = <<n>> /\ disk[n] = <<n>>
  <2>1. PartFits(t, n) BY <1>2, <1>3, Stage
  <2> QED BY <2>1, <1>2, <1>3 DEF PartFits
<1>5. CASE Finish(n) /\ UNCHANGED link BY <1>1, <1>2, <1>5, StopsParts
<1>6. CASE Linked(TmpPath(n)) /\ Goto(n, t.after)
  <2>1. /\ DOMAIN link' = (DOMAIN link \ {TmpPath(n)}) \cup {t.path} /\ link'[t.path] = n
        /\ \A q \in DOMAIN link' : q # t.path => q \in DOMAIN link /\ link'[q] = link[q]
        /\ n \in DOMAIN disk /\ TmpPath(n)[3] \notin PartNames
    BY <1>3, <1>6, Renamed DEF Relinked
  <2>2. Goto(n, "commit") /\ contended \subseteq contended' /\ uploads' = uploads
    BY <1>1, <1>4, <1>6
  <2>3. Fits(tasks[n], n)' /\ Moving(n) /\ tasks'[n].pc = "commit" /\ tasks'[n].op = "part"
    BY <2>2, <1>2, <1>3, <1>4, GoFits DEF WritePcs
  <2>4. tasks'[n].u = t.u /\ tasks'[n].p = t.p /\ tasks'[n].part = t.part
    <3>1. \A f \in DOMAIN tasks[n] : f # "pc" => tasks'[n][f] = tasks[n][f]
      BY <2>2, <1>2, GoesTo
    <3> QED BY <3>1, <1>3, <1>4 DEF PartFits, Has
  <2>5. UploadsStay /\ UploadsFit' /\ PlainObjects'
    BY <1>1, <2>3, UploadsSame, ObjectsSame DEF PartsInv, Moving
  <2>6. Spares(n) BY <1>1 DEF Spares
  <2>7. \A q \in DOMAIN link' : (q \in DOMAIN link /\ link'[q] = link[q]) \/ LinkFits(q)'
    <3>1. t.path[3] \in PartNames BY <1>4 DEF PartFits, PartNames
    <3>2. LinkFits(t.path)' BY <2>1, <2>3, <3>1, <1>1, <1>2 DEF LinkFits, OfPart, Moving
    <3> QED BY <3>2, <2>1
  <2>8. (PlainObjects /\ TasksFit /\ LinksFit /\ UploadsFit /\ Raced /\ BucketsRaced)'
    <3>1. OfPart(n) /\ tasks[n].pc = "commit" => tasks'[n].pc \in {"commit", "done", "dropped"}
      BY <2>3
    <3> QED BY <3>1, <2>3, <2>5, <2>6, <2>7, FitStays
  <2>9. ASSUME NEW u \in DOMAIN uploads', NEW p \in PartNumbers, Undisturbed(u, p)' PROVE PartKept(u, p)'
    <3>1. u \in DOMAIN uploads /\ uploads'[u] = uploads[u] /\ PartToken(u, p) \notin contended
      BY <1>1, <2>9 DEF Undisturbed, PartToken
    <3>2. CASE u = t.u /\ p = t.p
      <4>1. Arrives(n, u, p)' /\ n \in DOMAIN tasks'
        BY <2>3, <2>4, <3>2, <1>2 DEF Arrives, Moving
      <4>2. Backed(t.part)'
        <5>1. t.path # None BY <1>4, <3>1, <3>2, SomePath
        <5>2. t.part.data.file = t.path BY <1>4 DEF FileRef
        <5> QED BY <5>1, <5>2, <2>1, <1>1, <1>4 DEF Backed, Linked
      <4>3. ASSUME NEW m \in DOMAIN tasks', Arrives(m, u, p)' PROVE Backed(tasks[m].part)'
        <5>1. m = n
          <6>1. SUFFICES ASSUME m # n PROVE FALSE OBVIOUS
          <6>2. m \in InFlight /\ tasks[m].op = "part" /\ tasks[m].pc = "commit" /\ tasks[m].u = u /\ tasks[m].p = p
            BY <6>1, <4>3, <2>3 DEF Moving, Arrives, InFlight
          <6>3. PartFits(tasks[m], m) BY <6>2, Stage DEF InFlight
          <6> QED BY <6>1, <6>2, <6>3, <3>1, <3>2, <1>2, <1>3, <1>4, PartAlone
        <5> QED BY <5>1, <4>2, <2>4
      <4> QED BY <4>1, <4>3 DEF PartKept, Arriving
    <3>3. CASE ~(u = t.u /\ p = t.p)
      <4>1. Arrives(n, u, p)' = FALSE /\ Arrives(n, u, p) = FALSE /\ ~Consumes(n, u)
        BY <2>3, <2>4, <3>3, <1>2, <1>3 DEF Arrives, Consumes
      <4>2. SameFile(PartPath(u, p))
        <5>1. PartPath(u, p) # t.path /\ PartPath(u, p) # TmpPath(n)
          BY <2>1, <3>1, <3>3, <1>4, PartPathIs, PartPathApart
        <5>2. disk'[n] = disk[n] BY <1>1
        <5> QED BY <5>1, <5>2, <2>1, <2>6, PartFileStays
      <4> QED BY <4>1, <4>2, <3>1, <2>3, <2>9, KeptAt
    <3> QED BY <3>2, <3>3
  <2> QED BY <2>8, <2>9 DEF PartsInv, PartsKept
<1> QED BY <1>3, <1>5, <1>6 DEF Rename

LEMMA AsideTo ==
    ASSUME PartsInv, NEW n \in InFlight, NEW t, tasks' = [tasks EXCEPT ![n] = t], t.op = tasks[n].op,
           t.touches = tasks[n].touches \/ Over(t), UNCHANGED <<objects, uploads, link, disk, contended>>,
           tasks[n].op \in {"copy", "complete", "get"}, tasks[n].pc \notin {"removeParts", "commit"}, Fits(t, n)'
    PROVE  PartsInv'
<1>1. Moving(n) /\ tasks'[n] = t BY Advances
<1>2. Fits(tasks[n], n)' BY <1>1
<1>3. Beside(n) BY DEF Beside
<1> QED BY <1>1, <1>2, <1>3, AsideStays

LEMMA CopyVersioningParts ==
    ASSUME PartsInv, NEW n, CopyVersioning(n)
    PROVE  PartsInv'
<1>1. n \in InFlight /\ n \in DOMAIN tasks /\ tasks[n].pc = "copyVersioning" /\ n \in 1..MaxOps
  BY Flying DEF CopyVersioning
<1>2. UNCHANGED <<objects, uploads, link, disk, contended>>
  BY DEF CopyVersioning, meta, files, history
<1> DEFINE t == tasks[n]
           vid == NewVersionId(t.b, n)
           path == <<t.b, t.k, vid>>
           toFile == t.src.data.file # None /\ t.src.size > Threshold
           pc == CASE t.src.data.file = None -> "commit"
                   [] toFile -> "copyResolve"
                   [] OTHER -> "copyRead"
           data == IF toFile THEN FileRef(path) ELSE t.src.data
           r == [op |-> "copy", pc |-> pc, touches |-> t.touches, b |-> t.b, k |-> t.k, vid |-> vid,
                 etag |-> t.src.etag, size |-> t.src.size, data |-> data,
                 srcPath |-> t.srcPath, path |-> path, then |-> "copyLink", from |-> None, to |-> None]
<1>3. tasks' = [tasks EXCEPT ![n] = r] BY DEF CopyVersioning
<1>4. t.op = "copy" /\ t.b \in Buckets /\ t.k \in Keys /\ PlainVersion(t.src) /\ t.srcPath[3] \in Vids
  BY <1>1, Stage DEF LookupFits
<1>5. vid \in Vids /\ path \in Paths /\ FileRef(path).file = path
  BY <1>1, <1>4, NewName DEF FileRef
<1>6. pc \in {"commit", "copyResolve", "copyRead"} OBVIOUS
<1>7. ObjectFile(data)
  <2> HIDE DEF path, vid, toFile
  <2> QED BY <1>4, <1>5 DEF ObjectFile, PlainVersion
<1> HIDE DEF vid, path, pc, data
<1>8. /\ {"op", "pc", "touches", "b", "k", "vid", "etag", "size", "data", "path", "then", "srcPath", "from", "to"} \subseteq DOMAIN r
      /\ r.op = "copy" /\ r.pc = pc /\ r.touches = t.touches /\ r.b = t.b /\ r.k = t.k /\ r.vid = vid
      /\ r.path = path /\ r.srcPath = t.srcPath /\ r.data = data /\ r.then = "copyLink"
  OBVIOUS
<1> HIDE DEF r
<1>9. PICK s : s = r OBVIOUS
<1>10. Fits(s, n)'
  <2>1. CopyFits(s)' BY <1>4, <1>5, <1>6, <1>7, <1>8, <1>9 DEF CopyFits, WillRecord, Has
  <2> QED BY <2>1, <1>8, <1>9 DEF Fits, Has
<1>11. tasks' = [tasks EXCEPT ![n] = s] /\ s.op = tasks[n].op /\ s.touches = tasks[n].touches
  BY <1>3, <1>4, <1>8, <1>9
<1> QED BY <1>1, <1>2, <1>4, <1>10, <1>11, AsideTo

LEMMA CopyReadParts ==
    ASSUME PartsInv, NEW n, CopyRead(n)
    PROVE  PartsInv'
<1>1. n \in InFlight /\ n \in DOMAIN tasks /\ tasks[n].pc = "copyRead"
  BY Flying DEF CopyRead
<1>2. UNCHANGED <<objects, uploads, link, disk, contended>>
  BY DEF CopyRead, meta, files, history
<1>3. PICK t : t = tasks[n] OBVIOUS
<1>4. t.op = "copy" /\ CopyFits(t) /\ Has(t, {"op", "pc", "touches"}) BY <1>1, <1>3, Stage
<1>5. CASE Linked(t.data.file)
  <2>1. PICK data : data = Inline(disk[link[t.data.file]]) OBVIOUS
  <2>2. PICK r : r = [t EXCEPT !.data = data, !.pc = "commit"] OBVIOUS
  <2>3. tasks' = [tasks EXCEPT ![n] = r]
    <3>1. tasks' = [tasks EXCEPT ![n].data = data, ![n].pc = "commit"]
      BY <2>1, <1>3, <1>5 DEF CopyRead
    <3> QED BY <3>1, <2>2, <1>1, <1>3
  <2>4. /\ DOMAIN r = DOMAIN t /\ r.pc = "commit" /\ r.data = data
        /\ \A f \in DOMAIN t : f \notin {"pc", "data"} => r[f] = t[f]
    BY <2>2, <1>4 DEF CopyFits, WillRecord, Has
  <2>5. ObjectFile(data) BY <2>1 DEF ObjectFile, Inline
  <2>6. CopyFits(r)' BY <2>4, <2>5, <1>4 DEF CopyFits, WillRecord, Has
  <2>7. r.op = "copy" /\ r.touches = t.touches /\ Has(r, {"op", "pc", "touches"})
    BY <2>4, <1>4 DEF Has
  <2>8. Fits(r, n)' BY <2>6, <2>7 DEF Fits
  <2> QED BY <2>3, <2>7, <2>8, <1>1, <1>2, <1>3, <1>4, AsideTo
<1>6. CASE ~Linked(t.data.file) BY <1>1, <1>2, <1>3, <1>4, <1>6, StopsParts DEF CopyRead
<1> QED BY <1>5, <1>6

LEMMA CopyResolveParts ==
    ASSUME PartsInv, NEW n, CopyResolve(n)
    PROVE  PartsInv'
<1>1. n \in InFlight /\ n \in DOMAIN tasks /\ tasks[n].pc = "copyResolve"
  BY Flying DEF CopyResolve
<1>2. UNCHANGED <<objects, uploads, link, disk, contended>>
  BY DEF CopyResolve, meta, files, history
<1>3. tasks[n].op = "copy" /\ CopyFits(tasks[n]) BY <1>1, Stage
<1>4. CASE Goto(n, "ensureDir")
  <2>1. Fits(tasks[n], n)' /\ Moving(n) BY <1>1, <1>2, <1>3, <1>4, GoFits
  <2>2. Beside(n) BY <1>3 DEF Beside
  <2> QED BY <2>1, <2>2, <1>2, AsideStays
<1>5. CASE Finish(n) BY <1>1, <1>2, <1>3, <1>5, StopsParts
<1> QED BY <1>4, <1>5 DEF CopyResolve

LEMMA ReadFileParts ==
    ASSUME PartsInv, NEW n, ReadFile(n)
    PROVE  PartsInv'
<1>1. n \in InFlight /\ n \in DOMAIN tasks /\ tasks[n].pc = "read" BY Flying DEF ReadFile
<1>2. UNCHANGED <<objects, uploads, link, disk, contended>>
  BY DEF ReadFile, meta, files, history
<1>3. tasks[n].op = "get" /\ GetFits(tasks[n]) /\ Has(tasks[n], {"op", "pc", "touches"})
  BY <1>1, Stage
<1>4. CASE Linked(tasks[n].path)
  <2>1. PICK bytes : bytes = disk[link[tasks[n].path]] OBVIOUS
  <2>2. PICK t : t = tasks[n] OBVIOUS
  <2>3. PICK r : r = [t EXCEPT !.pc = "done", !.got = bytes] OBVIOUS
  <2>4. tasks' = [tasks EXCEPT ![n] = r]
    <3>1. tasks' = [tasks EXCEPT ![n].pc = "done", ![n].got = bytes]
      BY <2>1, <1>4 DEF ReadFile
    <3> QED BY <3>1, <2>2, <2>3, <1>1
  <2>5. r.pc = "done" /\ r.op = "get" /\ DOMAIN r = DOMAIN t
    BY <2>2, <2>3, <1>3 DEF Has, GetFits
  <2>6. Fits(r, n)' /\ Over(r) BY <2>2, <2>5, <1>3 DEF Fits, Over, Has
  <2> QED BY <2>4, <2>5, <2>6, <1>1, <1>2, <1>3, AsideTo
<1>5. CASE ~Linked(tasks[n].path) BY <1>1, <1>2, <1>3, <1>5, StopsParts DEF ReadFile
<1> QED BY <1>4, <1>5

\* A request that is no part's changes files that are no parts'.
LEMMA FilesParts ==
    ASSUME PartsInv, NEW n, Moving(n), Fits(tasks[n], n)', Beside(n), UNCHANGED <<objects, uploads>>, Spares(n), ~OfPart(n),
           \A q \in DOMAIN link' : (q \in DOMAIN link /\ link'[q] = link[q]) \/ (LinkFits(q)' /\ q[3] \notin PartNames),
           \A q \in DOMAIN link : q \in DOMAIN link' \/ q[3] \notin PartNames
    PROVE  PartsInv'
<1>1. UploadsStay /\ UploadsFit' /\ PlainObjects'
  BY UploadsSame, ObjectsSame DEF PartsInv, Moving
<1>2. ASSUME NEW u, NEW p \in PartNumbers PROVE SameFile(PartPath(u, p))
  <2>1. PartPath(u, p)[3] \in PartNames BY PartPathIs
  <2>2. /\ PartPath(u, p) \in DOMAIN link' <=> PartPath(u, p) \in DOMAIN link
        /\ PartPath(u, p) \in DOMAIN link => link'[PartPath(u, p)] = link[PartPath(u, p)]
    BY <2>1
  <2> QED BY <2>2, PartFileStays
<1>3. \A u \in DOMAIN uploads' : uploads'[u] = uploads[u] OBVIOUS
<1>4. \A q \in DOMAIN link' : (q \in DOMAIN link /\ link'[q] = link[q]) \/ LinkFits(q)'
  OBVIOUS
<1> QED BY <1>1, <1>2, <1>3, <1>4, StepStays

LEMMA CopyFillParts ==
    ASSUME PartsInv, NEW n, CopyFill(n)
    PROVE  PartsInv'
<1>1. n \in InFlight /\ n \in DOMAIN tasks /\ tasks[n].pc = "copyFill"
  BY Flying DEF CopyFill
<1>2. UNCHANGED <<objects, uploads, link, contended>> BY DEF CopyFill, meta, history
<1>3. tasks[n].op = "copy" /\ CopyFits(tasks[n]) BY <1>1, Stage
<1>4. Goto(n, "commit") BY DEF CopyFill
<1>5. Fits(tasks[n], n)' /\ Moving(n) BY <1>1, <1>2, <1>3, <1>4, GoFits
<1>6. PICK i : i = tasks[n].to /\ ~OfPart(i) BY <1>1, <1>3 DEF CopyFits
<1>7. PICK c : disk' = [disk EXCEPT ![i] = c] BY <1>6 DEF CopyFill
<1>8. Spares(n) BY <1>6, <1>7 DEF Spares
<1>9. Beside(n) /\ ~OfPart(n) BY <1>3 DEF Beside, OfPart
<1> QED BY <1>2, <1>5, <1>8, <1>9, FilesParts

LEMMA CopyLinkParts ==
    ASSUME PartsInv, NEW n, CopyLink(n)
    PROVE  PartsInv'
<1>1. n \in InFlight /\ n \in DOMAIN tasks /\ tasks[n].pc = "copyLink"
  BY Flying DEF CopyLink
<1>2. UNCHANGED <<objects, uploads, contended>> BY DEF CopyLink, meta
<1>3. PICK t : t = tasks[n] OBVIOUS
<1>4. t.op = "copy" /\ CopyFits(t) /\ Has(t, {"op", "pc", "touches"}) BY <1>1, <1>3, Stage
<1>5. Beside(n) /\ ~OfPart(n) BY <1>3, <1>4 DEF Beside, OfPart
<1>6. PICK path \in Paths : path = t.path /\ path[3] \in Vids /\ path[3] \notin PartNames
  <2>1. t.path \in Paths BY <1>4 DEF CopyFits, WillRecord
  <2> QED BY <2>1, PathName, NamesApart
<1>7. PICK src : src = t.srcPath /\ src[3] \in Vids BY <1>4 DEF CopyFits
<1>8. CASE Goto(n, "commit") /\ UNCHANGED disk /\ (link' = link \/ (Linked(src) /\ link' = With(link, path, link[src])))
  <2>1. Fits(tasks[n], n)' /\ Moving(n) BY <1>1, <1>2, <1>3, <1>4, <1>8, GoFits
  <2>2. Spares(n) BY <1>8 DEF Spares
  <2>3. CASE link' = link BY <2>1, <2>2, <2>3, <1>2, <1>5, FilesParts
  <2>4. CASE Linked(src) /\ link' = With(link, path, link[src])
    <3>1. PICK i : i = link[src] /\ i \in DOMAIN tasks /\ i \in DOMAIN disk /\ ~OfPart(i)
      BY <2>4, <1>7, Inodes DEF Linked
    <3>2. /\ DOMAIN link' = DOMAIN link \cup {path} /\ link'[path] = i
          /\ \A q \in DOMAIN link : q # path => link'[q] = link[q]
      BY <2>4, <3>1 DEF With
    <3>3. LinkFits(path)'
      <4>1. i \in DOMAIN tasks' /\ i \in DOMAIN disk' /\ tasks'[i].op = tasks[i].op
        BY <2>1, <3>1, <1>8, OpsStay DEF Moving
      <4> QED BY <4>1, <3>1, <3>2, <1>6 DEF LinkFits, OfPart
    <3> QED BY <2>1, <2>2, <3>2, <3>3, <1>2, <1>5, <1>6, FilesParts
  <2> QED BY <2>3, <2>4, <1>8
<1>9. CASE Finish(n) /\ UNCHANGED <<link, disk>>
  BY <1>1, <1>2, <1>3, <1>4, <1>9, StopsParts
<1>10. CASE /\ Linked(path) /\ link' = link /\ disk' = [disk EXCEPT ![link[path]] = <<>>]
            /\ tasks' = [tasks EXCEPT ![n].pc = "copyFill", ![n].from = link[src], ![n].to = link[path]]
  <2>1. PICK i : i = link[path] /\ i \in DOMAIN tasks /\ i \in DOMAIN disk /\ ~OfPart(i)
    BY <1>6, <1>10, Inodes DEF Linked
  <2>2. PICK from : from = link[src] OBVIOUS
  <2>3. PICK r : r = [t EXCEPT !.pc = "copyFill", !.from = from, !.to = i] OBVIOUS
  <2>4. tasks' = [tasks EXCEPT ![n] = r] BY <1>1, <1>3, <1>10, <2>1, <2>2, <2>3
  <2>5. /\ DOMAIN r = DOMAIN t /\ r.pc = "copyFill" /\ r.to = i
        /\ \A f \in DOMAIN t : f \notin {"pc", "from", "to"} => r[f] = t[f]
    BY <2>3, <1>4 DEF CopyFits, WillRecord, Has
  <2>6. r.op = "copy" /\ r.touches = t.touches /\ Has(r, {"op", "pc", "touches"})
    BY <2>5, <1>4 DEF Has
  <2>7. Moving(n) /\ tasks'[n] = r BY <2>4, <2>6, <1>1, <1>2, <1>3, <1>4, Advances
  <2>8. i \in DOMAIN tasks' /\ tasks'[i].op = tasks[i].op
    BY <2>1, <2>7, OpsStay DEF Moving
  <2>9. Fits(tasks[n], n)'
    <3>1. CopyFits(r)' BY <2>1, <2>5, <2>8, <1>4 DEF CopyFits, WillRecord, Has, OfPart
    <3> QED BY <3>1, <2>6, <2>7 DEF Fits
  <2>10. Spares(n) BY <2>1, <1>10 DEF Spares
  <2> QED BY <2>7, <2>9, <2>10, <1>2, <1>5, <1>10, FilesParts
<1> QED BY <1>3, <1>6, <1>7, <1>8, <1>9, <1>10 DEF CopyLink

LEMMA RemoveFileParts ==
    ASSUME PartsInv, NEW n, NEW path, RemoveFile(n, path)
    PROVE  PartsInv'
<1>1. n \in InFlight /\ n \in DOMAIN tasks /\ tasks[n].pc = "cleanup"
  BY Flying DEF RemoveFile
<1>2. UNCHANGED <<objects, uploads, disk, contended>> BY DEF RemoveFile, meta, history
<1>3. PICK t : t = tasks[n] OBVIOUS
<1>4. /\ t.op \in {"put", "copy", "complete", "delete"} /\ Has(t, {"op", "pc", "touches", "remove"}) /\ t.remove \subseteq Paths
      /\ t.pc = "cleanup" /\ path \in t.remove
  <2>1. t.op \in {"put", "copy", "complete", "delete"} /\ CleanupFits(t) /\ Has(t, {"op", "pc", "touches"})
    BY <1>1, <1>3, Stage
  <2> QED BY <2>1, <1>3 DEF CleanupFits, Has, RemoveFile
<1>5. Beside(n) /\ ~OfPart(n) BY <1>1, <1>3, <1>4 DEF Beside, OfPart
<1>6. path[3] \in Vids /\ path[3] \notin PartNames
  <2>1. path \in Paths BY <1>4
  <2> QED BY <2>1, PathName, NamesApart
<1>7. DOMAIN link' = DOMAIN link \ {path} /\ \A q \in DOMAIN link' : link'[q] = link[q]
  BY DEF RemoveFile, Unlink, Restrict
<1>8. Spares(n) BY <1>2 DEF Spares
<1>9. Moving(n) /\ Fits(tasks[n], n)'
  <2>1. CASE Finish(n) BY <2>1, <1>1, <1>2, Ends
  <2>2. CASE tasks' = [tasks EXCEPT ![n].remove = @ \ {path}]
    <3>1. PICK r : r = [t EXCEPT !.remove = t.remove \ {path}] OBVIOUS
    <3>2. tasks' = [tasks EXCEPT ![n] = r] BY <2>2, <3>1, <1>1, <1>3
    <3>3. DOMAIN r = DOMAIN t /\ r.remove = t.remove \ {path} /\ \A f \in DOMAIN t : f # "remove" => r[f] = t[f]
      BY <3>1, <1>4 DEF Has
    <3>4. r.op = t.op /\ r.pc = t.pc /\ r.touches = t.touches /\ Has(r, {"op", "pc", "touches", "remove"}) /\ r.remove \subseteq Paths
      BY <3>3, <1>4 DEF Has
    <3>5. Moving(n) /\ tasks'[n] = r BY <3>2, <3>4, <1>1, <1>2, <1>3, <1>4, Advances
    <3>6. CleanupFits(r) BY <3>4, <1>4 DEF CleanupFits, Has
    <3>7. Has(r, {"op", "pc", "touches"}) BY <3>4 DEF Has
    <3> QED BY <3>4, <3>5, <3>6, <3>7, <1>4 DEF Fits, CleanupFits
  <2> QED BY <2>1, <2>2 DEF RemoveFile
<1> QED BY <1>2, <1>5, <1>6, <1>7, <1>8, <1>9, FilesParts

LEMMA ForgetDirsParts ==
    ASSUME PartsInv, NEW n, ForgetDirs(n)
    PROVE  PartsInv'
<1>1. n \in InFlight /\ n \in DOMAIN tasks /\ tasks[n].pc = "forgetDirs"
  BY Flying DEF ForgetDirs
<1>2. UNCHANGED <<objects, uploads, link, disk, contended>> /\ Finish(n)
  BY DEF ForgetDirs, meta, history
<1> QED BY <1>1, <1>2, StopsParts

LEMMA DeleteBucketMetaParts ==
    ASSUME PartsInv, NEW n, DeleteBucketMeta(n)
    PROVE  PartsInv'
<1>1. n \in InFlight /\ n \in DOMAIN tasks /\ tasks[n].pc = "deleteBucket"
  BY Flying DEF DeleteBucketMeta
<1>2. UNCHANGED <<uploads, link, disk, contended>> /\ Goto(n, "removeDir")
  BY DEF DeleteBucketMeta, meta, files, history
<1>3. tasks[n].op = "deleteBucket" /\ BucketFits(tasks[n]) BY <1>1, Stage DEF BucketPcs
<1>4. Fits(tasks[n], n)' /\ Moving(n) BY <1>1, <1>2, <1>3, GoFits DEF BucketPcs
<1>5. Beside(n) BY <1>3 DEF Beside
<1>6. PICK b \in Buckets : b = tasks[n].b BY <1>3 DEF BucketFits
<1>7. objects' = objects \/ objects' = [objects EXCEPT ![b] = [k \in Keys |-> <<>>]]
  BY <1>6 DEF DeleteBucketMeta, meta
<1>8. PlainObjects'
  <2>1. CASE objects' = objects BY <2>1, ObjectsSame DEF PartsInv
  <2>2. CASE objects' = [objects EXCEPT ![b] = [k \in Keys |-> <<>>]]
    <3>1. PlainObjects BY DEF PartsInv
    <3>2. objects = [c \in Buckets |-> [k \in Keys |-> objects[c][k]]]
      BY <3>1 DEF PlainObjects
    <3>3. \A c \in Buckets, k \in Keys : objects'[c][k] = IF c = b THEN <<>> ELSE objects[c][k]
      BY <2>2, <3>2
    <3>4. objects' = [c \in Buckets |-> [k \in Keys |-> objects'[c][k]]] BY <2>2, <3>2
    <3>5. IsSeq(<<>>) BY DEF IsSeq
    <3>6. ASSUME NEW c \in Buckets, NEW k \in Keys PROVE IsSeq(objects'[c][k]) /\ \A v \in Versions(c, k)' : PlainVersion(v)
      <4>1. CASE c = b BY <4>1, <3>3, <3>5 DEF Versions
      <4>2. CASE c # b BY <4>2, <3>1, <3>3 DEF Versions, PlainObjects
      <4> QED BY <4>1, <4>2
    <3> QED BY <3>4, <3>6 DEF PlainObjects
  <2> QED BY <2>1, <2>2, <1>7
<1>9. UploadsStay /\ UploadsFit' BY <1>2, <1>4, UploadsSame DEF PartsInv, Moving
<1>10. Spares(n) /\ \A q : SameFile(q) BY <1>2 DEF Spares, SameFile
<1>11. \A q \in DOMAIN link' : q \in DOMAIN link /\ link'[q] = link[q] BY <1>2
<1>12. \A u \in DOMAIN uploads' : uploads'[u] = uploads[u] BY <1>2
<1> QED BY <1>4, <1>5, <1>8, <1>9, <1>10, <1>11, <1>12, StepStays

LEMMA RemoveBucketDirParts ==
    ASSUME PartsInv, NEW n, RemoveBucketDir(n)
    PROVE  PartsInv'
<1>1. n \in InFlight /\ n \in DOMAIN tasks /\ tasks[n].pc = "removeDir"
  BY Flying DEF RemoveBucketDir
<1>2. UNCHANGED <<objects, uploads, disk, contended>>
  BY DEF RemoveBucketDir, meta, history
<1>3. tasks[n].op = "deleteBucket" /\ BucketFits(tasks[n]) BY <1>1, Stage DEF BucketPcs
<1>4. Fits(tasks[n], n)' /\ Moving(n)
  <2>1. CASE Goto(n, "forgetDirs") BY <2>1, <1>1, <1>2, <1>3, GoFits DEF BucketPcs
  <2>2. CASE Finish(n) BY <2>2, <1>1, <1>2, Ends
  <2> QED BY <2>1, <2>2 DEF RemoveBucketDir
<1>5. Beside(n) BY <1>3 DEF Beside
<1>6. PICK b : b = tasks[n].b OBVIOUS
<1>7. DOMAIN link' = {q \in DOMAIN link : q[1] # b} /\ \A q \in DOMAIN link' : link'[q] = link[q]
  <2>1. link' = Restrict(link, {q \in DOMAIN link : q[1] # b}) BY <1>6 DEF RemoveBucketDir
  <2> QED BY ONLY <2>1 DEF Restrict
<1>8. UploadsStay /\ UploadsFit' /\ PlainObjects'
  BY <1>2, <1>4, UploadsSame, ObjectsSame DEF PartsInv, Moving
<1>9. Spares(n) BY <1>2 DEF Spares
<1>10. ASSUME NEW u \in DOMAIN uploads', NEW p \in PartNumbers, Undisturbed(u, p) PROVE SameFile(PartPath(u, p))
  <2>1. u \in DOMAIN uploads /\ UploadKey(u) \notin contended
    BY <1>2, <1>10 DEF Undisturbed
  <2>2. uploads[u].bucket # b BY <2>1, <1>1, <1>3, <1>6 DEF PartsInv, BucketsRaced
  <2>3. PartPath(u, p)[1] # b BY <2>2, PartPathIs
  <2> QED BY <2>3, <1>2, <1>7 DEF SameFile
<1>11. \A u \in DOMAIN uploads' : uploads'[u] = uploads[u] BY <1>2
<1>12. \A q \in DOMAIN link' : q \in DOMAIN link /\ link'[q] = link[q] BY <1>7
<1> QED BY <1>4, <1>5, <1>8, <1>9, <1>10, <1>11, <1>12, StepStays

-----------------------------------------------------------------------------
(* Versions are recorded *)

LEMMA PlainOne ==
    ASSUME PlainObjects, NEW b \in Buckets, NEW k \in Keys, NEW vs, objects' = [objects EXCEPT ![b][k] = vs],
           IsSeq(vs), \A i \in DOMAIN vs : PlainVersion(vs[i])
    PROVE  PlainObjects'
<1>1. objects = [c \in Buckets |-> [l \in Keys |-> objects[c][l]]] BY DEF PlainObjects
<1>2. \A c \in Buckets, l \in Keys : objects'[c][l] = IF c = b /\ l = k THEN vs ELSE objects[c][l]
  BY <1>1
<1>3. objects' = [c \in Buckets |-> [l \in Keys |-> objects'[c][l]]] BY <1>1
<1>4. ASSUME NEW c \in Buckets, NEW l \in Keys PROVE IsSeq(objects'[c][l]) /\ \A v \in Versions(c, l)' : PlainVersion(v)
  <2>1. CASE c = b /\ l = k BY <2>1, <1>2 DEF Versions
  <2>2. CASE ~(c = b /\ l = k) BY <2>2, <1>2 DEF Versions, PlainObjects
  <2> QED BY <2>1, <2>2
<1> QED BY <1>3, <1>4 DEF PlainObjects

LEMMA RecordedPlain ==
    ASSUME PlainObjects, NEW t, WillRecord(t), objects' = [objects EXCEPT ![t.b][t.k] = PutObjectVersion(@, VersionOf(t))]
    PROVE  PlainObjects'
<1>1. PICK b \in Buckets : b = t.b BY DEF WillRecord
<1>2. PICK k \in Keys : k = t.k BY DEF WillRecord
<1>3. PICK v : v = VersionOf(t) OBVIOUS
<1>4. v.vid = t.vid /\ v.data = t.data BY <1>3 DEF VersionOf, ObjectVersion
<1>5. PlainVersion(v) BY <1>4 DEF PlainVersion, WillRecord
<1>6. PICK vs : vs = objects[b][k] OBVIOUS
<1>7. IsSeq(vs) /\ \A i \in DOMAIN vs : PlainVersion(vs[i])
  BY <1>6 DEF PlainObjects, Versions
<1>8. PICK r : r = PutObjectVersion(vs, v) OBVIOUS
<1>9. objects' = [objects EXCEPT ![b][k] = r] BY <1>1, <1>2, <1>3, <1>6, <1>8
<1>10. IsSeq(r) /\ \A i \in DOMAIN r : PlainVersion(r[i])
  <2> DEFINE S == {vs[i] : i \in DOMAIN vs} \cup {v}
  <2>1. vs \in Seq(S) /\ v \in S /\ \A x \in S : PlainVersion(x) BY <1>5, <1>7 DEF IsSeq
  <2> HIDE DEF S
  <2>2. r \in Seq(S) BY <2>1, <1>8, Prepended DEF PutObjectVersion
  <2>3. \A i \in DOMAIN r : r[i] \in S BY <2>2
  <2> QED BY <2>1, <2>2, <2>3, SequenceIs
<1> QED BY <1>9, <1>10, PlainOne

\* The file that goes with a version that is replaced is a version's.
LEMMA ReplacedPlain ==
    ASSUME PlainObjects, NEW t, t.b \in Buckets, t.k \in Keys
    PROVE  Replaced(t) \subseteq Paths
<1>1. PICK vs : vs = objects[t.b][t.k] OBVIOUS
<1>2. IsSeq(vs) /\ \A i \in DOMAIN vs : PlainVersion(vs[i])
  BY <1>1 DEF PlainObjects, Versions
<1>3. PICK prev : prev = Previous(vs) OBVIOUS
<1>4. prev = None \/ prev.file \in Paths \cup {None}
  <2>1. CASE vs = <<>> BY <2>1, <1>3 DEF Previous
  <2>2. CASE vs # <<>>
    <3>1. 1 \in DOMAIN vs /\ Head(vs) = vs[1] BY <2>2, <1>2 DEF IsSeq
    <3> QED BY <3>1, <2>2, <1>2, <1>3 DEF Previous, PlainVersion, ObjectFile
  <2> QED BY <2>1, <2>2
<1>5. Replaced(t) = IF t.vid # Null \/ prev = None \/ prev.file = None \/ prev.file = t.data.file THEN {} ELSE {prev.file}
  BY <1>1, <1>3 DEF Replaced
<1> QED BY <1>4, <1>5

LEMMA Cleans ==
    ASSUME PartsInv, NEW n \in InFlight, tasks[n].op \in {"put", "copy", "complete", "delete"},
           NEW paths, paths \subseteq Paths, ThenRemove(n, paths), contended \subseteq contended'
    PROVE  Moving(n) /\ Fits(tasks[n], n)' /\ n \in DOMAIN tasks /\ tasks'[n].op = tasks[n].op /\ tasks'[n].pc \in {"done", "dropped", "cleanup"}
<1>1. CASE paths = {}
  <2>1. Finish(n) BY <1>1 DEF ThenRemove
  <2> QED BY <2>1, Ends DEF Over
<1>2. CASE paths # {}
  <2>1. PICK t : t = tasks[n] OBVIOUS
  <2>2. PICK r : r = [op |-> t.op, pc |-> "cleanup", touches |-> t.touches, remove |-> paths]
    OBVIOUS
  <2>3. tasks' = [tasks EXCEPT ![n] = r] BY <1>2, <2>1, <2>2 DEF ThenRemove
  <2>4. r.op = t.op /\ r.pc = "cleanup" /\ r.touches = t.touches /\ r.remove = paths /\ DOMAIN r = {"op", "pc", "touches", "remove"}
    BY <2>2
  <2>5. Moving(n) /\ tasks'[n] = r /\ n \in DOMAIN tasks
    <3>1. tasks[n].op # "deleteBucket" OBVIOUS
    <3> QED BY <3>1, <2>1, <2>3, <2>4, Advances
  <2>6. CleanupFits(r) /\ Has(r, {"op", "pc", "touches"}) BY <2>4 DEF CleanupFits, Has
  <2>7. Fits(r, n)' BY <2>1, <2>4, <2>6 DEF Fits, CleanupFits
  <2> QED BY <2>1, <2>4, <2>5, <2>7
<1> QED BY <1>1, <1>2

\* Metadata changes, and a request cleans up.
LEMMA MetaParts ==
    ASSUME PartsInv, NEW n \in InFlight, tasks[n].op \in {"put", "copy", "delete"}, NEW paths, paths \subseteq Paths,
           ThenRemove(n, paths), PlainObjects', UNCHANGED <<uploads, link, disk, contended>>
    PROVE  PartsInv'
<1>1. Moving(n) /\ Fits(tasks[n], n)' BY Cleans
<1>2. UploadsStay /\ UploadsFit' BY <1>1, UploadsSame DEF PartsInv, Moving
<1>3. Spares(n) /\ \A q : SameFile(q) BY DEF Spares, SameFile
<1>4. Beside(n) BY DEF Beside
<1> QED BY <1>1, <1>2, <1>3, <1>4, StepStays

LEMMA CommitPutParts ==
    ASSUME PartsInv, NEW n, CommitPut(n)
    PROVE  PartsInv'
<1>1. n \in InFlight /\ n \in DOMAIN tasks /\ tasks[n].pc = "commit" /\ tasks[n].op = "put"
  BY Flying DEF CommitPut
<1>2. UNCHANGED <<uploads, link, disk, contended>> BY DEF CommitPut, files, history
<1>3. PICK t : t = tasks[n] OBVIOUS
<1>4. WillRecord(t) /\ PlainObjects
  <2>1. PutFits(t) BY <1>1, <1>3, Stage
  <2> QED BY <2>1 DEF PutFits, PartsInv
<1>5. CASE versioning[t.b] = None
  <2>1. PICK paths : paths = IF t.data.file = None THEN {} ELSE {t.data.file} OBVIOUS
  <2>2. ThenRemove(n, paths) /\ objects' = objects BY <2>1, <1>3, <1>5 DEF CommitPut
  <2>3. paths \subseteq Paths BY <2>1, <1>4 DEF WillRecord, ObjectFile
  <2>4. PlainObjects' BY <2>2, <1>4, ObjectsSame
  <2> QED BY <2>2, <2>3, <2>4, <1>1, <1>2, MetaParts
<1>6. CASE versioning[t.b] # None
  <2>1. PICK paths : paths = Replaced(t) OBVIOUS
  <2>2. ThenRemove(n, paths) /\ objects' = [objects EXCEPT ![t.b][t.k] = PutObjectVersion(@, VersionOf(t))]
    BY <2>1, <1>3, <1>6 DEF CommitPut
  <2>3. paths \subseteq Paths BY <2>1, <1>4, ReplacedPlain DEF WillRecord
  <2>4. PlainObjects' BY <2>2, <1>4, RecordedPlain
  <2> QED BY <2>2, <2>3, <2>4, <1>1, <1>2, MetaParts
<1> QED BY <1>5, <1>6

LEMMA CommitCopyParts ==
    ASSUME PartsInv, NEW n, CommitCopy(n)
    PROVE  PartsInv'
<1>1. n \in InFlight /\ n \in DOMAIN tasks /\ tasks[n].pc = "commit" /\ tasks[n].op = "copy"
  BY Flying DEF CommitCopy
<1>2. UNCHANGED <<uploads, link, disk, contended>> BY DEF CommitCopy, files, history
<1>3. PICK t : t = tasks[n] OBVIOUS
<1>4. WillRecord(t) /\ PlainObjects
  <2>1. CopyFits(t) BY <1>1, <1>3, Stage
  <2> QED BY <2>1 DEF CopyFits, PartsInv
<1>5. PICK paths : paths = Replaced(t) OBVIOUS
<1>6. ThenRemove(n, paths) /\ objects' = [objects EXCEPT ![t.b][t.k] = PutObjectVersion(@, VersionOf(t))]
  BY <1>3, <1>5 DEF CommitCopy
<1>7. paths \subseteq Paths BY <1>4, <1>5, ReplacedPlain DEF WillRecord
<1>8. PlainObjects' BY <1>4, <1>6, RecordedPlain
<1> QED BY <1>1, <1>2, <1>6, <1>7, <1>8, MetaParts

-----------------------------------------------------------------------------
(* Uploads are completed *)

LEMMA CommitCompleteParts ==
    ASSUME PartsInv, NEW n, CommitComplete(n)
    PROVE  PartsInv'
<1>1. n \in InFlight /\ n \in DOMAIN tasks /\ tasks[n].pc = "commit" /\ tasks[n].op = "complete"
  BY Flying DEF CommitComplete
<1>2. UNCHANGED <<link, disk, contended>> BY DEF CommitComplete, files, history
<1>3. PICK t : t = tasks[n] OBVIOUS
<1>4. WillRecord(t) /\ PlainObjects
  <2>1. CompleteFits(t) BY <1>1, <1>3, Stage
  <2> QED BY <2>1 DEF CompleteFits, PartsInv
<1>5. /\ Moving(n) /\ Fits(tasks[n], n)' /\ tasks'[n].op = "complete" /\ PlainObjects'
      /\ \A u \in DOMAIN uploads' : u # t.u /\ u \in DOMAIN uploads /\ uploads'[u] = uploads[u]
  <2>1. CASE t.u \notin DOMAIN uploads
    <3>1. Finish(n) /\ UNCHANGED <<objects, uploads>> BY <2>1, <1>3 DEF CommitComplete
    <3>2. Moving(n) /\ Fits(tasks[n], n)' /\ tasks'[n].op = "complete"
      BY <3>1, <1>1, <1>2, Ends
    <3> QED BY <3>1, <3>2, <2>1, <1>4, ObjectsSame
  <2>2. CASE t.u \in DOMAIN uploads
    <3>1. PICK paths : paths = Replaced(t) OBVIOUS
    <3>2. /\ uploads' = Drop(uploads, t.u) /\ ThenRemove(n, paths)
          /\ objects' = [objects EXCEPT ![t.b][t.k] = PutObjectVersion(@, VersionOf(t))]
      BY <2>2, <3>1, <1>3 DEF CommitComplete
    <3>3. paths \subseteq Paths BY <3>1, <1>4, ReplacedPlain DEF WillRecord
    <3>4. PlainObjects' BY <3>2, <1>4, RecordedPlain
    <3>5. Moving(n) /\ Fits(tasks[n], n)' /\ tasks'[n].op = "complete"
      BY <3>2, <3>3, <1>1, <1>2, Cleans
    <3>6. \A u \in DOMAIN uploads' : u # t.u /\ u \in DOMAIN uploads /\ uploads'[u] = uploads[u]
      BY <3>2 DEF Drop, Restrict
    <3> QED BY <3>4, <3>5, <3>6
  <2> QED BY <2>1, <2>2
<1>6. UploadsStay /\ UploadsFit' BY <1>5, UploadsSame DEF PartsInv, Moving
<1>7. Spares(n) /\ \A q : SameFile(q) BY <1>2 DEF Spares, SameFile
<1>8. (PlainObjects /\ TasksFit /\ LinksFit /\ UploadsFit /\ Raced /\ BucketsRaced)'
  <2>1. \A q \in DOMAIN link' : q \in DOMAIN link /\ link'[q] = link[q] BY <1>2
  <2>2. ~OfPart(n) BY <1>1 DEF OfPart
  <2> QED BY <2>1, <2>2, <1>5, <1>6, <1>7, FitStays
<1>9. PartsKept'
  <2>1. \A u \in DOMAIN uploads' : ~Consumes(n, u) BY <1>3, <1>5 DEF Consumes
  <2>2. ASSUME NEW u, NEW p PROVE Arrives(n, u, p)' = FALSE /\ Arrives(n, u, p) = FALSE
    BY <1>1, <1>5 DEF Arrives
  <2> QED BY <2>1, <2>2, <1>5, <1>7, KeptStays
<1> QED BY <1>8, <1>9 DEF PartsInv

LEMMA RemovePartParts ==
    ASSUME PartsInv, NEW n, NEW path, RemovePart(n, path)
    PROVE  PartsInv'
<1>1. n \in InFlight /\ n \in DOMAIN tasks /\ tasks[n].pc = "removeParts"
  BY Flying DEF RemovePart
<1>2. UNCHANGED <<objects, uploads, disk, contended>> BY DEF RemovePart, meta, history
<1>3. PICK t : t = tasks[n] OBVIOUS
<1>4. t.op = "complete" /\ CompleteFits(t) /\ Has(t, {"op", "pc", "touches"})
  BY <1>1, <1>3, Stage
<1>5. path[2] = t.u /\ Has(t, {"remove", "pc", "u"})
  BY <1>3, <1>4 DEF RemovePart, CompleteFits, Has, OfUpload
<1>6. PICK pc : pc = IF tasks[n].remove = {path} THEN "commit" ELSE tasks[n].pc OBVIOUS
<1>7. PICK r : r = [t EXCEPT !.remove = t.remove \ {path}, !.pc = pc] OBVIOUS
<1>8. tasks' = [tasks EXCEPT ![n] = r]
  <2>1. tasks' = [tasks EXCEPT ![n].remove = tasks[n].remove \ {path}, ![n].pc = pc]
    BY <1>6 DEF RemovePart
  <2> QED BY <2>1, <1>1, <1>3, <1>7
<1>9. /\ DOMAIN r = DOMAIN t /\ r.remove = t.remove \ {path} /\ r.pc = pc /\ pc \in {"removeParts", "commit"}
      /\ \A f \in DOMAIN t : f \notin {"remove", "pc"} => r[f] = t[f]
  <2>1. pc \in {"removeParts", "commit"} BY <1>1, <1>6
  <2>2. "remove" \in DOMAIN t /\ "pc" \in DOMAIN t BY <1>5 DEF Has
  <2> QED BY <2>1, <2>2, <1>7
<1>10. r.op = "complete" /\ r.touches = t.touches /\ r.u = t.u /\ Has(r, {"op", "pc", "touches"})
  BY <1>4, <1>5, <1>9 DEF Has
<1>11. Moving(n) /\ tasks'[n] = r BY <1>1, <1>2, <1>3, <1>4, <1>8, <1>10, Advances
<1>12. Fits(tasks[n], n)'
  <2>1. OfUpload(r)'
    BY <1>2, <1>4, <1>9, <1>10, <1>11 DEF CompleteFits, OfUpload, Has, Moving
  <2>2. WillRecord(r) BY <1>4, <1>9 DEF CompleteFits, WillRecord, Has, ObjectFile
  <2>3. r.then = "assemble" /\ r.after \in {"commit", "removeParts"} /\ Has(r, {"left", "body", "remove", "after"})
    BY <1>4, <1>9 DEF CompleteFits, WillRecord, Has
  <2>4. \A q \in r.remove : q[2] = r.u BY <1>4, <1>9, <1>10 DEF CompleteFits
  <2>5. CompleteFits(r)' BY <2>1, <2>2, <2>3, <2>4, <1>9 DEF CompleteFits, WillRecord
  <2> QED BY <2>5, <1>10, <1>11 DEF Fits
<1>13. DOMAIN link' = DOMAIN link \ {path} /\ \A q \in DOMAIN link' : link'[q] = link[q]
  BY DEF RemovePart, Unlink, Restrict
<1>14. UploadsStay /\ UploadsFit' /\ PlainObjects'
  BY <1>2, <1>11, UploadsSame, ObjectsSame DEF PartsInv, Moving
<1>15. (PlainObjects /\ TasksFit /\ LinksFit /\ UploadsFit /\ Raced /\ BucketsRaced)'
  <2>1. \A q \in DOMAIN link' : q \in DOMAIN link /\ link'[q] = link[q] BY <1>13
  <2>2. ~OfPart(n) BY <1>3, <1>4 DEF OfPart
  <2>3. Spares(n) BY <1>2 DEF Spares
  <2> QED BY <2>1, <2>2, <2>3, <1>11, <1>12, <1>14, FitStays
<1>16. PartsKept'
  <2>1. \A u : Consumes(n, u) => Consumes(n, u)' BY <1>3, <1>9, <1>10, <1>11 DEF Consumes
  <2>2. ASSUME NEW u, NEW p PROVE Arrives(n, u, p)' = FALSE /\ Arrives(n, u, p) = FALSE
    BY <1>3, <1>4, <1>10, <1>11 DEF Arrives
  <2>3. ASSUME NEW u \in DOMAIN uploads', NEW p \in PartNumbers, Undisturbed(u, p) PROVE SameFile(PartPath(u, p))
    <3>1. u # t.u
      <4>1. Consumes(n, t.u) BY <1>1, <1>3, <1>4 DEF Consumes
      <4> QED BY <4>1, <2>3, <1>1 DEF Undisturbed, Consumed
    <3>2. PartPath(u, p) # path BY <3>1, <1>5, PartPathIs
    <3> QED BY <3>2, <1>2, <1>13 DEF SameFile
  <2>4. \A u \in DOMAIN uploads' : u \in DOMAIN uploads /\ uploads'[u] = uploads[u]
    BY <1>2
  <2> QED BY <2>1, <2>2, <2>3, <2>4, <1>11, KeptStays
<1> QED BY <1>15, <1>16 DEF PartsInv

\* A request that completes an upload goes on with other bytes in hand.
LEMMA CompletesOn ==
    ASSUME PartsInv, NEW n \in InFlight, NEW t, t = tasks[n], t.op = "complete", t.pc = "assemble",
           NEW r, DOMAIN r = DOMAIN t, \A f \in DOMAIN t : f \notin {"pc", "left", "body", "data"} => r[f] = t[f],
           r.pc \in WritePcs \cup {"assemble", "removeParts", "commit"}, ObjectFile(r.data),
           tasks' = [tasks EXCEPT ![n] = r], UNCHANGED <<objects, uploads, link, disk, contended>>
    PROVE  PartsInv'
<1>1. CompleteFits(t) /\ Has(t, {"op", "pc", "touches"}) BY Stage DEF InFlight
<1>2. r.op = "complete" /\ r.touches = t.touches /\ Has(r, {"op", "pc", "touches"})
  BY <1>1 DEF Has
<1>3. DOMAIN tasks' = DOMAIN tasks BY Advances, <1>2 DEF Moving
<1>4. OfUpload(r)' BY <1>1, <1>2, <1>3 DEF CompleteFits, OfUpload, Has
<1>5. WillRecord(r) BY <1>1 DEF CompleteFits, WillRecord, Has
<1>6. /\ r.then = "assemble" /\ r.after \in {"commit", "removeParts"} /\ Has(r, {"left", "body", "remove", "after"})
      /\ r.remove = t.remove /\ r.u = t.u
  BY <1>1 DEF CompleteFits, WillRecord, Has, OfUpload
<1>7. CompleteFits(r)' BY <1>1, <1>4, <1>5, <1>6 DEF CompleteFits, WillRecord
<1>8. Fits(r, n)' BY <1>2, <1>7 DEF Fits
<1> QED BY <1>2, <1>8, AsideTo

LEMMA AssemblePartParts ==
    ASSUME PartsInv, NEW n, AssemblePart(n)
    PROVE  PartsInv'
<1>1. n \in InFlight /\ n \in DOMAIN tasks /\ tasks[n].pc = "assemble"
  BY Flying DEF AssemblePart
<1>2. UNCHANGED <<objects, uploads, link, disk, contended>>
  BY DEF AssemblePart, meta, files, history
<1>3. PICK t : t = tasks[n] OBVIOUS
<1>4. t.op = "complete" /\ CompleteFits(t) /\ Has(t, {"op", "pc", "touches"})
  BY <1>1, <1>3, Stage
<1>5. CASE Finish(n) BY <1>1, <1>2, <1>5, StopsParts
<1>6. ASSUME NEW left, NEW body, tasks' = [tasks EXCEPT ![n].left = left, ![n].body = body] PROVE PartsInv'
  <2>1. PICK r : r = [t EXCEPT !.left = left, !.body = body] OBVIOUS
  <2>2. tasks' = [tasks EXCEPT ![n] = r] BY <2>1, <1>1, <1>3, <1>6
  <2>3. DOMAIN r = DOMAIN t /\ \A f \in DOMAIN t : f \notin {"left", "body"} => r[f] = t[f]
    BY <2>1
  <2>4. r.pc = "assemble" /\ ObjectFile(r.data)
    BY <2>3, <1>1, <1>3, <1>4 DEF CompleteFits, WillRecord, Has
  <2> QED BY <2>2, <2>3, <2>4, <1>1, <1>2, <1>3, <1>4, CompletesOn
<1>7. Finish(n) \/ \E left, body : tasks' = [tasks EXCEPT ![n].left = left, ![n].body = body]
  <2>1. PICK data : data = Head(tasks[n].left) OBVIOUS
  <2>2. PICK bytes : bytes = IF data.file = None THEN data.bytes ELSE disk[link[data.file]]
    OBVIOUS
  <2>3. \/ Finish(n)
        \/ tasks' = [tasks EXCEPT ![n].left = Tail(@), ![n].body = @ \o bytes]
    BY <2>1, <2>2 DEF AssemblePart
  <2>4. PICK left : left = Tail(tasks[n].left) OBVIOUS
  <2>5. PICK body : body = tasks[n].body \o bytes OBVIOUS
  <2>6. Finish(n) \/ tasks' = [tasks EXCEPT ![n].left = left, ![n].body = body]
    BY <2>3, <2>4, <2>5
  <2> QED BY <2>6
<1> QED BY <1>5, <1>6, <1>7

LEMMA AssembledParts ==
    ASSUME PartsInv, NEW n, Assembled(n)
    PROVE  PartsInv'
<1>1. n \in InFlight /\ n \in DOMAIN tasks /\ tasks[n].pc = "assemble"
  BY Flying DEF Assembled
<1>2. UNCHANGED <<objects, uploads, link, disk, contended>>
  BY DEF Assembled, meta, files, history
<1>3. PICK t : t = tasks[n] OBVIOUS
<1>4. t.op = "complete" /\ CompleteFits(t) /\ Has(t, {"op", "pc", "touches"})
  BY <1>1, <1>3, Stage
<1>5. t.after \in {"commit", "removeParts"} /\ ObjectFile(t.data) /\ Has(t, {"data"})
  BY <1>4 DEF CompleteFits, WillRecord, Has
<1>6. CASE tasks' = [tasks EXCEPT ![n].pc = "write"]
  <2>1. PICK r : r = [t EXCEPT !.pc = "write"] OBVIOUS
  <2>2. tasks' = [tasks EXCEPT ![n] = r] BY <2>1, <1>1, <1>3, <1>6
  <2>3. DOMAIN r = DOMAIN t /\ r.pc = "write" /\ \A f \in DOMAIN t : f # "pc" => r[f] = t[f]
    BY <2>1, <1>4 DEF Has
  <2>4. ObjectFile(r.data) /\ r.pc \in WritePcs \cup {"assemble", "removeParts", "commit"}
    BY <2>3, <1>5 DEF Has, WritePcs
  <2> QED BY <2>2, <2>3, <2>4, <1>1, <1>2, <1>3, <1>4, CompletesOn
<1>7. CASE tasks' = [tasks EXCEPT ![n].pc = t.after, ![n].data = Inline(t.body)]
  <2>1. PICK data : data = Inline(t.body) OBVIOUS
  <2>2. PICK r : r = [t EXCEPT !.pc = t.after, !.data = data] OBVIOUS
  <2>3. tasks' = [tasks EXCEPT ![n] = r] BY <2>1, <2>2, <1>1, <1>3, <1>7
  <2>4. DOMAIN r = DOMAIN t /\ r.pc = t.after /\ r.data = data /\ \A f \in DOMAIN t : f \notin {"pc", "data"} => r[f] = t[f]
    BY <2>2, <1>4, <1>5 DEF Has
  <2>5. ObjectFile(r.data) BY <2>1, <2>4 DEF ObjectFile, Inline
  <2>6. r.pc \in WritePcs \cup {"assemble", "removeParts", "commit"} BY <2>4, <1>5
  <2>7. \A f \in DOMAIN t : f \notin {"pc", "left", "body", "data"} => r[f] = t[f] BY <2>4
  <2>8. DOMAIN r = DOMAIN t /\ t.pc = "assemble" BY <2>4, <1>1, <1>3
  <2> QED BY <2>3, <2>5, <2>6, <2>7, <2>8, <1>1, <1>2, <1>3, <1>4, CompletesOn
<1> QED BY <1>3, <1>6, <1>7 DEF Assembled

LEMMA CompleteVersioningParts ==
    ASSUME PartsInv, NEW n, CompleteVersioning(n)
    PROVE  PartsInv'
<1>1. n \in InFlight /\ n \in DOMAIN tasks /\ tasks[n].pc = "completeVersioning" /\ n \in 1..MaxOps
  BY Flying, Zenon DEF CompleteVersioning
<1>2. UNCHANGED <<objects, uploads, link, disk, contended>>
  <2>1. UNCHANGED <<meta, files, history>> BY Zenon DEF CompleteVersioning
  <2> QED BY <2>1 DEF meta, files, history
<1> DEFINE t == tasks[n]
           numbers == SetToSortSeq(DOMAIN t.parts, <)
           parts == [i \in DOMAIN numbers |-> t.parts[numbers[i]]]
           vid == NewVersionId(t.b, n)
           path == <<t.b, t.k, vid>>
           size == FoldLeft(LAMBDA sum, part : sum + part.size, 0, parts)
           partFiles == {t.parts[p].data.file : p \in DOMAIN t.parts} \ {None}
           afterwards == IF partFiles = {} THEN "commit" ELSE "removeParts"
           pc == IF size > Threshold THEN "ensureDir" ELSE "assemble"
           etag == FlattenSeq([i \in DOMAIN parts |-> parts[i].etag])
           data == IF size > Threshold THEN FileRef(path) ELSE Inline(<<>>)
           left == [i \in DOMAIN parts |-> parts[i].data]
           r == [op |-> "complete", pc |-> pc, touches |-> t.touches, u |-> t.u, b |-> t.b, k |-> t.k, vid |-> vid,
                 body |-> <<>>, etag |-> etag, size |-> size, data |-> data, left |-> left, remove |-> partFiles,
                 path |-> path, then |-> "assemble", after |-> afterwards]
<1>3. tasks' = [tasks EXCEPT ![n] = r] BY Zenon DEF CompleteVersioning
<1>4. t.op = "complete" /\ GatherFits(t) BY <1>1, Stage
<1>5. t.b \in Buckets /\ t.k \in Keys BY <1>4 DEF GatherFits, OfUpload
<1>6. vid \in Vids /\ path \in Paths /\ FileRef(path).file = path /\ Inline(<<>>).file = None
  BY <1>1, <1>5, NewName DEF FileRef, Inline
<1>7. pc \in {"ensureDir", "assemble"} /\ afterwards \in {"commit", "removeParts"}
  <2> HIDE DEF size, partFiles
  <2> QED OBVIOUS
<1>8. ObjectFile(data)
  <2> HIDE DEF path, vid, size
  <2> QED BY <1>6 DEF ObjectFile
<1>9. \A q \in partFiles : q[2] = t.u
  <2> HIDE DEF t
  <2> QED BY <1>4 DEF GatherFits
<1> HIDE DEF vid, path, pc, data, etag, left, size, partFiles, afterwards
<1>10. /\ {"op", "pc", "touches", "u", "b", "k", "vid", "etag", "size", "data", "path", "then", "left", "body", "remove", "after"} \subseteq DOMAIN r
       /\ r.op = "complete" /\ r.pc = pc /\ r.touches = t.touches /\ r.u = t.u /\ r.b = t.b /\ r.k = t.k /\ r.vid = vid
       /\ r.path = path /\ r.data = data /\ r.then = "assemble" /\ r.after = afterwards /\ r.remove = partFiles
  OBVIOUS
<1> HIDE DEF r
<1>11. PICK s : s = r OBVIOUS
<1>12. tasks' = [tasks EXCEPT ![n] = s] /\ s.op = tasks[n].op /\ s.touches = tasks[n].touches
  BY <1>3, <1>4, <1>10, <1>11
<1>13. DOMAIN tasks' = DOMAIN tasks BY <1>12
<1>14. Fits(s, n)'
  <2>1. OfUpload(s)' BY <1>2, <1>4, <1>10, <1>11, <1>13 DEF GatherFits, OfUpload, Has
  <2>2. WillRecord(s) BY <1>5, <1>6, <1>8, <1>10, <1>11 DEF WillRecord, Has
  <2>3. CompleteFits(s)'
    BY <2>1, <2>2, <1>7, <1>9, <1>10, <1>11 DEF CompleteFits, WillRecord, Has, WritePcs
  <2>4. Has(s, {"op", "pc", "touches"}) /\ s.op = "complete" BY <1>10, <1>11 DEF Has
  <2> QED BY <2>3, <2>4 DEF Fits
<1> QED BY <1>1, <1>2, <1>4, <1>12, <1>14, AsideTo

LEMMA CommitPartParts ==
    ASSUME PartsInv, NEW n, CommitPart(n)
    PROVE  PartsInv'
<1>1. n \in InFlight /\ n \in DOMAIN tasks /\ tasks[n].pc = "commit" /\ tasks[n].op = "part"
  BY Flying DEF CommitPart
<1>2. UNCHANGED <<objects, link, disk, contended>> /\ Finish(n)
  BY DEF CommitPart, files, history
<1>3. PICK t : t = tasks[n] OBVIOUS
<1>4. PartFits(t, n) BY <1>1, <1>3, Stage
<1>5. Moving(n) /\ Over(tasks'[n]) /\ Fits(tasks[n], n)' BY <1>1, <1>2, Ends
<1>6. /\ DOMAIN uploads' = DOMAIN uploads
      /\ \A u \in DOMAIN uploads : u # t.u => uploads'[u] = uploads[u]
      /\ t.u \in DOMAIN uploads =>
           /\ Has(uploads'[t.u], {"bucket", "key", "parts"})
           /\ uploads'[t.u].bucket = uploads[t.u].bucket /\ uploads'[t.u].key = uploads[t.u].key
           /\ uploads'[t.u].parts = With(uploads[t.u].parts, t.p, t.part)
  <2>1. CASE t.u \notin DOMAIN uploads BY <2>1, <1>3 DEF CommitPart
  <2>2. CASE t.u \in DOMAIN uploads
    <3>1. PICK up : up = uploads[t.u] /\ Has(up, {"bucket", "key", "parts"})
      BY <2>2 DEF PartsInv, UploadsFit, UploadFits
    <3>2. PICK parts : parts = With(up.parts, t.p, t.part) OBVIOUS
    <3>3. PICK new : new = [up EXCEPT !.parts = parts] OBVIOUS
    <3>4. uploads' = [uploads EXCEPT ![t.u] = new]
      BY <2>2, <3>1, <3>2, <3>3, <1>3 DEF CommitPart
    <3>5. Has(new, {"bucket", "key", "parts"}) /\ new.bucket = up.bucket /\ new.key = up.key /\ new.parts = parts
      BY <3>1, <3>3 DEF Has
    <3> QED BY <2>2, <3>1, <3>2, <3>4, <3>5
  <2> QED BY <2>1, <2>2
<1>7. UploadsStay BY <1>6 DEF UploadsStay
<1>8. ASSUME t.u \in DOMAIN uploads
      PROVE  /\ DOMAIN uploads'[t.u].parts = DOMAIN uploads[t.u].parts \cup {t.p} /\ uploads'[t.u].parts[t.p] = t.part
             /\ \A p \in DOMAIN uploads[t.u].parts : p # t.p => uploads'[t.u].parts[p] = uploads[t.u].parts[p]
  <2>1. PICK parts : parts = uploads[t.u].parts OBVIOUS
  <2>2. uploads'[t.u].parts = With(parts, t.p, t.part) BY <2>1, <1>6, <1>8
  <2>3. PICK new : new = With(parts, t.p, t.part) OBVIOUS
  <2>4. DOMAIN new = DOMAIN parts \cup {t.p} /\ new[t.p] = t.part /\ \A p \in DOMAIN parts : p # t.p => new[p] = parts[p]
    BY <2>3 DEF With
  <2> QED BY <2>1, <2>2, <2>3, <2>4
<1>9. \A u \in DOMAIN uploads : \A p : PartPath(u, p)' = PartPath(u, p) /\ PartToken(u, p)' = PartToken(u, p)
  BY <1>6 DEF PartPath, PartToken
<1>10. UploadsFit'
  <2>1. ASSUME NEW u \in DOMAIN uploads' PROVE UploadFits(u)'
    <3>1. UploadFits(u) /\ u \in DOMAIN uploads /\ u \in DOMAIN tasks'
      BY <1>5, <1>6 DEF PartsInv, UploadsFit, UploadFits, Moving
    <3>2. CASE u # t.u BY <3>1, <3>2, <1>6, <1>9 DEF UploadFits
    <3>3. CASE u = t.u
      <4>1. Has(uploads'[u], {"bucket", "key", "parts"}) /\ uploads'[u].bucket \in Buckets /\ uploads'[u].key \in Keys
        BY <3>1, <3>3, <1>6 DEF UploadFits
      <4>2. t.p \in PartNumbers /\ t.part.data.file \in {None, PartPath(u, t.p)}
        <5>1. t.path = PartPath(u, t.p) BY <3>1, <3>3, <1>4, PartPathApart
        <5> QED BY <5>1, <1>4 DEF PartFits, FileRef, Inline
      <4>3. ASSUME NEW p \in DOMAIN uploads'[u].parts
            PROVE  p \in PartNumbers /\ uploads'[u].parts[p].data.file \in {None, PartPath(u, p)}
        <5>1. CASE p = t.p BY <5>1, <4>2, <3>1, <3>3, <1>8
        <5>2. CASE p # t.p
          <6>1. p \in DOMAIN uploads[u].parts /\ uploads'[u].parts[p] = uploads[u].parts[p]
            BY <5>2, <4>3, <3>1, <3>3, <1>8
          <6> QED BY <6>1, <3>1 DEF UploadFits
        <5> QED BY <5>1, <5>2
      <4>4. \A p \in DOMAIN uploads'[u].parts : p \in PartNumbers /\ uploads'[u].parts[p].data.file \in {None, PartPath(u, p)'}
        BY <4>3, <3>1, <1>9
      <4> QED BY <4>1, <4>4, <3>1 DEF UploadFits
    <3> QED BY <3>2, <3>3
  <2> QED BY <2>1 DEF UploadsFit
<1>11. (PlainObjects /\ TasksFit /\ LinksFit /\ UploadsFit /\ Raced /\ BucketsRaced)'
  <2>1. \A q \in DOMAIN link' : q \in DOMAIN link /\ link'[q] = link[q] BY <1>2
  <2>2. tasks'[n].pc \in {"commit", "done", "dropped"} BY <1>5 DEF Over
  <2>3. Spares(n) BY <1>2 DEF Spares
  <2>4. PlainObjects' BY <1>2, ObjectsSame DEF PartsInv
  <2> QED BY <2>1, <2>2, <2>3, <2>4, <1>5, <1>7, <1>10, FitStays
<1>12. ASSUME NEW u \in DOMAIN uploads', NEW p \in PartNumbers, Undisturbed(u, p)' PROVE PartKept(u, p)'
  <2>1. u \in DOMAIN uploads /\ uploads'[u].bucket = uploads[u].bucket /\ uploads'[u].key = uploads[u].key
    BY <1>6
  <2>2. ~Consumes(n, u) BY <1>1 DEF Consumes
  <2>3. ~Arrives(n, u, p)' BY <1>5 DEF Arrives, Over
  <2>4. SameFile(PartPath(u, p)) BY <1>2 DEF SameFile
  <2>5. CASE ~(u = t.u /\ p = t.p)
    <3>1. ~Arrives(n, u, p) BY <2>5, <1>3 DEF Arrives
    <3>2. Arrives(n, u, p)' = Arrives(n, u, p) BY <3>1, <2>3 DEF Arrives
    <3>3. p \in DOMAIN uploads'[u].parts => p \in DOMAIN uploads[u].parts /\ uploads'[u].parts[p] = uploads[u].parts[p]
      BY <2>1, <2>5, <1>6, <1>8
    <3> QED BY <3>1, <3>2, <3>3, <2>1, <2>2, <2>4, <1>5, <1>12, KeptAt
  <2>6. CASE u = t.u /\ p = t.p
    <3>1. Undisturbed(u, p)
      <4>1. UploadKey(u)' = UploadKey(u) /\ PartToken(u, p)' = PartToken(u, p)
        BY <2>1 DEF UploadKey, PartToken
      <4>2. ASSUME NEW m \in DOMAIN tasks, Consumes(m, u) PROVE Consumes(m, u)' /\ m \in DOMAIN tasks'
        BY <4>2, <2>2, <1>5 DEF Consumes, Moving
      <4> QED BY <4>1, <4>2, <1>2, <1>12 DEF Undisturbed, Consumed
    <3>2. Arrives(n, u, p) BY <2>6, <1>1, <1>3 DEF Arrives
    <3>3. Backed(t.part) BY <3>1, <3>2, <2>1, <1>1, <1>3 DEF PartsInv, PartsKept, PartKept
    <3>4. Backed(t.part)' BY <3>3, <1>2 DEF Backed, Linked
    <3>5. ASSUME NEW m \in DOMAIN tasks', Arrives(m, u, p)' PROVE FALSE
      <4>1. m # n BY <3>5, <2>3
      <4>2. m \in InFlight /\ m \in DOMAIN tasks /\ tasks[m].op = "part" /\ tasks[m].pc = "commit" /\ tasks[m].u = u /\ tasks[m].p = p
        BY <4>1, <3>5, <1>5 DEF Moving, Arrives, InFlight
      <4>3. PartFits(tasks[m], m) BY <4>2, Stage
      <4>4. PartToken(u, p) \notin contended BY <3>1 DEF Undisturbed
      <4> QED BY <4>1, <4>2, <4>3, <4>4, <2>1, <2>6, <1>1, <1>3, <1>4, PartAlone
    <3>6. uploads'[u].parts[p] = t.part BY <2>1, <2>6, <1>8
    <3> QED BY <3>4, <3>5, <3>6 DEF PartKept
  <2> QED BY <2>5, <2>6
<1> QED BY <1>11, <1>12 DEF PartsInv, PartsKept

\* Nothing happens but that an upload goes, or that more is known to race.
LEMMA IdleParts ==
    ASSUME PartsInv, UNCHANGED <<objects, link, disk, tasks>>, contended \subseteq contended',
           \A u \in DOMAIN uploads' : u \in DOMAIN uploads /\ uploads'[u] = uploads[u]
    PROVE  PartsInv'
<1>1. UploadsStay /\ UploadsFit' /\ PlainObjects' BY UploadsSame, ObjectsSame DEF PartsInv
<1>2. TasksFit'
  <2>1. ASSUME NEW m \in DOMAIN tasks' PROVE Fits(tasks[m], m)'
    <3>1. m \in DOMAIN tasks /\ Fits(tasks[m], m) BY DEF PartsInv, TasksFit
    <3>2. UploadsFound BY <1>1 DEF UploadsStay, UploadsFound
    <3> QED BY <3>1, <3>2, <1>1, OthersFit
  <2> QED BY <2>1 DEF PartsInv, TasksFit
<1>3. LinksFit' BY DEF PartsInv, LinksFit, LinkFits, OfPart
<1>4. Raced' /\ InFlight' = InFlight BY DEF PartsInv, Raced, InFlight
<1>5. \A u \in DOMAIN uploads' : UploadKey(u)' = UploadKey(u) BY DEF UploadKey
<1>6. BucketsRaced' BY <1>4, <1>5 DEF PartsInv, BucketsRaced
<1>7. ASSUME NEW u \in DOMAIN uploads', NEW p \in PartNumbers, Undisturbed(u, p)' PROVE PartKept(u, p)'
  <2>1. u \in DOMAIN uploads /\ uploads'[u] = uploads[u] /\ PartToken(u, p)' = PartToken(u, p)
    BY DEF PartToken
  <2>2. Undisturbed(u, p) BY <2>1, <1>5, <1>7 DEF Undisturbed, Consumed, Consumes
  <2>3. PartKept(u, p) BY <2>1, <2>2 DEF PartsInv, PartsKept
  <2>4. Arriving(u, p)' = Arriving(u, p) /\ \A m : Arrives(m, u, p)' = Arrives(m, u, p)
    BY DEF Arriving, Arrives
  <2>5. \A v : Backed(v)' = Backed(v) BY DEF Backed, Linked
  <2> QED BY <2>1, <2>3, <2>4, <2>5 DEF PartKept
<1> QED BY <1>1, <1>2, <1>3, <1>4, <1>6, <1>7 DEF PartsInv, PartsKept

LEMMA AbortParts ==
    ASSUME PartsInv, NEW u, AbortMultipartUpload(u)
    PROVE  PartsInv'
<1>1. UNCHANGED <<objects, link, disk, tasks>> /\ contended \subseteq contended'
  BY DEF AbortMultipartUpload, files
<1>2. \A x \in DOMAIN uploads' : x \in DOMAIN uploads /\ uploads'[x] = uploads[x]
  BY DEF AbortMultipartUpload, Drop, Restrict
<1> QED BY <1>1, <1>2, IdleParts

-----------------------------------------------------------------------------
(* Versions are deleted *)

LEMMA PlainEntry ==
    ASSUME NEW S, \A v \in S : PlainVersion(v), NEW n, \A i \in Nat : DeleteMarker(<<n, i>>) \in S,
           NEW b, NEW i \in Nat, NEW e, NEW vs \in Seq(S)
    PROVE  EntryLeft(b, n, i, e, vs) \in Seq(S) /\ EntryFile(EntryHit(b, e, vs)) \in SUBSET Paths
<1> DEFINE hits == {j \in DOMAIN vs : vs[j].vid = e.vid}
           first == CHOOSE j \in hits : \A l \in hits : j <= l
<1>1. hits # {} => first \in hits
  <2>1. hits \in SUBSET Nat OBVIOUS
  <2> HIDE DEF hits
  <2> QED BY <2>1, FirstHit
<1>2. EntryLeft(b, n, i, e, vs) \in Seq(S)
  <2>1. CASE e.vid = None BY <2>1, Prepended DEF EntryLeft, DeleteObject
  <2>2. CASE e.vid # None /\ hits = {} BY <2>2 DEF EntryLeft, DeleteObjectVersion
  <2>3. CASE e.vid # None /\ hits # {}
    <3>1. EntryLeft(b, n, i, e, vs) = RemoveAt(vs, first)
      BY <2>3 DEF EntryLeft, DeleteObjectVersion
    <3>2. PICK f \in DOMAIN vs : f = first BY <2>3, <1>1
    <3>3. RemoveAt(vs, f) \in Seq(S) BY RemoveAtIs
    <3> QED BY <3>1, <3>2, <3>3
  <2> QED BY <2>1, <2>2, <2>3
<1>3. PICK hit : hit = EntryHit(b, e, vs) OBVIOUS
<1>4. hit = None \/ ObjectFile(hit)
  <2>1. CASE e.vid = None
    <3>1. CASE vs = <<>> BY <2>1, <3>1, <1>3 DEF EntryHit, Previous
    <3>2. CASE vs # <<>>
      <4>1. Head(vs) \in S BY <3>2
      <4> QED BY <4>1, <2>1, <3>2, <1>3 DEF EntryHit, Previous, PlainVersion
    <3> QED BY <3>1, <3>2
  <2>2. CASE e.vid # None
    <3>1. PICK v : v = GetVersion(vs, e.vid) OBVIOUS
    <3>2. v = None \/ v \in S
      <4>1. CASE hits = {} BY <4>1, <3>1 DEF GetVersion
      <4>2. CASE hits # {}
        <5>1. v = vs[first] BY <4>2, <3>1 DEF GetVersion
        <5>2. PICK f \in DOMAIN vs : f = first BY <4>2, <1>1
        <5> QED BY <5>1, <5>2
      <4> QED BY <4>1, <4>2
    <3> QED BY <2>2, <3>1, <3>2, <1>3 DEF EntryHit, PlainVersion
  <2> QED BY <2>1, <2>2
<1>5. EntryFile(hit) \in SUBSET Paths BY <1>4 DEF EntryFile, ObjectFile
<1> QED BY <1>2, <1>3, <1>5

LEMMA PlainEntryIs ==
    ASSUME NEW S, \A v \in S : PlainVersion(v), NEW n, \A i \in Nat : DeleteMarker(<<n, i>>) \in S,
           NEW acc \in PlainBatch(S), NEW i \in Nat, tasks[n].entries[i].k \in Keys, NEW b
    PROVE  DeleteEntry(b, n, acc, i) \in PlainBatch(S)
<1>1. PICK e : e = tasks[n].entries[i] OBVIOUS
<1>2. PICK key \in Keys : key = e.k BY <1>1
<1>3. acc.objs \in [Keys -> Seq(S)] /\ acc.gone \in SUBSET Paths BY DEF PlainBatch
<1>4. PICK vs \in Seq(S) : vs = acc.objs[e.k] BY <1>2, <1>3
<1>5. PICK r : r = EntryLeft(b, n, i, e, vs) OBVIOUS
<1>6. PICK more : more = EntryFile(EntryHit(b, e, vs)) OBVIOUS
<1>7. r \in Seq(S) /\ more \in SUBSET Paths BY <1>5, <1>6, PlainEntry
<1>8. DeleteEntry(b, n, acc, i) = [objs |-> [acc.objs EXCEPT ![e.k] = r], gone |-> acc.gone \cup more]
  BY <1>1, <1>4, <1>5, <1>6, Zenon DEF DeleteEntry, Uuid, EntryLeft, EntryFile, EntryHit
<1>9. PICK out : out = [objs |-> [acc.objs EXCEPT ![key] = r], gone |-> acc.gone \cup more]
  OBVIOUS
<1>10. out \in PlainBatch(S) BY ONLY <1>3, <1>7, <1>9 DEF PlainBatch
<1> QED BY <1>2, <1>8, <1>9, <1>10, Zenon

LEMMA PlainDeleted ==
    ASSUME NEW S, \A v \in S : PlainVersion(v), NEW n, \A i \in Nat : DeleteMarker(<<n, i>>) \in S,
           DeleteFits(tasks[n]), objects[tasks[n].b] \in [Keys -> Seq(S)]
    PROVE  DeletedEntries(n) \in PlainBatch(S)
<1> DEFINE b == tasks[n].b
           len == Len(tasks[n].entries)
           base == [objs |-> objects[b], gone |-> {}]
           Step(after, i) == IF i = 0 THEN base ELSE DeleteEntry(b, n, after[i - 1], i)
           Is(after) == after = [i \in 0..len |-> Step(after, i)]
           G == [i \in 1..len |-> [acc \in PlainBatch(S) |-> DeleteEntry(b, n, acc, i)]]
<1>1. len \in Nat /\ DOMAIN tasks[n].entries = 1..len BY DEF DeleteFits
<1>2. base \in PlainBatch(S) BY DEF PlainBatch
<1>3. ASSUME NEW i \in 1..len, NEW acc \in PlainBatch(S) PROVE DeleteEntry(b, n, acc, i) \in PlainBatch(S)
  <2>1. i \in Nat /\ tasks[n].entries[i].k \in Keys
    <3>1. i \in Nat /\ i \in DOMAIN tasks[n].entries BY <1>1
    <3>2. \A j \in DOMAIN tasks[n].entries : tasks[n].entries[j].k \in Keys
      BY DEF DeleteFits
    <3> HIDE DEF len
    <3> QED BY <3>1, <3>2
  <2> HIDE DEF b
  <2> QED BY <2>1, PlainEntryIs
<1>4. PICK f \in [0..len -> PlainBatch(S)] : Iterates(f, base, G, len)
  <2>1. G \in [1..len -> [PlainBatch(S) -> PlainBatch(S)]]
    <3> HIDE DEF b, len
    <3> QED BY <1>3
  <2> HIDE DEF G, len, base
  <2> QED BY <2>1, <1>1, <1>2, Iteration
<1> HIDE DEF base
<1>5. Is(f)
  <2>1. ASSUME NEW i \in 0..len PROVE f[i] = Step(f, i)
    <3>1. CASE i = 0 BY <3>1, <1>4 DEF Iterates
    <3>2. CASE i # 0
      <4> HIDE DEF len
      <4>1. i \in 1..len /\ i - 1 \in 0..len BY <3>2, <1>1
      <4>2. f[i] = G[i][f[i - 1]] /\ f[i - 1] \in PlainBatch(S)
        <5> HIDE DEF G
        <5> QED BY <4>1, <1>4 DEF Iterates
      <4>3. G[i][f[i - 1]] = DeleteEntry(b, n, f[i - 1], i) BY <4>1, <4>2
      <4> QED BY <3>2, <4>2, <4>3
    <3> QED BY <3>1, <3>2
  <2>2. f = [i \in 0..len |-> f[i]] BY <1>4
  <2> HIDE DEF Step
  <2> QED BY <2>1, <2>2
<1> DEFINE after == CHOOSE a : Is(a)
<1>6. Is(after) BY <1>5
<1>7. DeletedEntries(n) = after[len] BY DEF DeletedEntries, base
<1>8. \A i \in 0..len : after[i] = Step(after, i)
  <2> HIDE DEF Step, after, len
  <2> QED BY <1>6
<1> HIDE DEF after, Is, len
<1> DEFINE Wrong == {i \in 0..len : after[i] \notin PlainBatch(S)}
<1>9. Wrong = {}
  <2> SUFFICES ASSUME Wrong # {} PROVE FALSE
    OBVIOUS
  <2>1. PICK i \in Wrong : \A y \in Wrong : i <= y
    <3>1. Wrong \in SUBSET Nat BY <1>1
    <3> HIDE DEF Wrong
    <3> QED BY <3>1, LeastNat
  <2>2. i \in 0..len /\ after[i] \notin PlainBatch(S) OBVIOUS
  <2>3. CASE i = 0 BY <2>2, <2>3, <1>2, <1>8
  <2>4. CASE i # 0
    <3>1. i - 1 \in 0..len /\ ~(i <= i - 1) /\ i \in 1..len BY <2>2, <2>4, <1>1
    <3>2. after[i - 1] \in PlainBatch(S) BY <3>1, <2>1
    <3>3. after[i] = DeleteEntry(b, n, after[i - 1], i) BY <2>2, <2>4, <1>8
    <3> QED BY <3>1, <3>2, <3>3, <2>2, <1>3
  <2> QED BY <2>3, <2>4
<1> QED BY <1>1, <1>7, <1>9

LEMMA DeleteMetaParts ==
    ASSUME PartsInv, NEW n, DeleteMeta(n)
    PROVE  PartsInv'
<1>1. n \in InFlight /\ n \in DOMAIN tasks /\ tasks[n].pc = "delete" /\ n \in Nat
  <2>1. n \in InFlight /\ n \in DOMAIN tasks /\ tasks[n].pc = "delete"
    BY Flying, Zenon DEF DeleteMeta
  <2> QED BY <2>1, Numbers
<1>2. UNCHANGED <<uploads, link, disk, contended>> BY DEF DeleteMeta, files, history
<1>3. tasks[n].op = "delete" /\ DeleteFits(tasks[n]) /\ PlainObjects
  BY <1>1, Stage DEF PartsInv
<1>4. PICK b \in Buckets : b = tasks[n].b BY <1>3 DEF DeleteFits
<1> DEFINE S == {v \in UNION {Versions(b, k) : k \in Keys} : PlainVersion(v)} \cup {DeleteMarker(<<n, i>>) : i \in Nat}
<1>5. \A v \in S : PlainVersion(v)
  <2>1. ASSUME NEW i \in Nat PROVE PlainVersion(DeleteMarker(<<n, i>>))
    BY <1>1 DEF DeleteMarker, PlainVersion, ObjectFile, Inline, Vids
  <2> QED BY <2>1
<1>6. \A i \in Nat : DeleteMarker(<<n, i>>) \in S OBVIOUS
<1>7. objects[b] \in [Keys -> Seq(S)]
  <2>1. ASSUME NEW k \in Keys PROVE objects[b][k] \in Seq(S)
    <3>1. IsSeq(objects[b][k]) /\ \A v \in Versions(b, k) : PlainVersion(v)
      BY <1>3 DEF PlainObjects
    <3>2. Versions(b, k) \subseteq S BY <3>1
    <3> HIDE DEF S
    <3> QED BY <3>1, <3>2 DEF IsSeq, Versions
  <2>2. objects[b] = [k \in Keys |-> objects[b][k]] BY <1>3 DEF PlainObjects
  <2> HIDE DEF S
  <2> QED BY <2>1, <2>2
<1> HIDE DEF S
<1>8. PICK done : done = DeletedEntries(n) OBVIOUS
<1>9. done.objs \in [Keys -> Seq(S)] /\ done.gone \subseteq Paths
  <2>1. done \in PlainBatch(S) BY <1>3, <1>4, <1>5, <1>6, <1>7, <1>8, PlainDeleted
  <2> QED BY <2>1 DEF PlainBatch
<1>10. objects' = [objects EXCEPT ![b] = done.objs] /\ ThenRemove(n, done.gone)
  BY <1>4, <1>8, Zenon DEF DeleteMeta
<1>11. PICK objs \in [Keys -> Seq(S)] : objs = done.objs BY <1>9
<1>12. PlainObjects'
  <2>1. objects = [c \in Buckets |-> [l \in Keys |-> objects[c][l]]]
    BY <1>3 DEF PlainObjects
  <2>2. \A c \in Buckets, l \in Keys : objects'[c][l] = IF c = b THEN objs[l] ELSE objects[c][l]
    BY <2>1, <1>10, <1>11
  <2>3. objects' = [c \in Buckets |-> [l \in Keys |-> objects'[c][l]]]
    BY <2>1, <1>10, <1>11
  <2>4. ASSUME NEW c \in Buckets, NEW l \in Keys PROVE IsSeq(objects'[c][l]) /\ \A v \in Versions(c, l)' : PlainVersion(v)
    <3>1. CASE c = b
      <4>1. objects'[c][l] = objs[l] /\ objs[l] \in Seq(S) BY <3>1, <2>2
      <4>2. IsSeq(objs[l]) /\ \A i \in DOMAIN objs[l] : objs[l][i] \in S
        BY <4>1, SequenceIs
      <4> QED BY <4>1, <4>2, <1>5 DEF Versions
    <3>2. CASE c # b BY <3>2, <2>2, <1>3 DEF Versions, PlainObjects
    <3> QED BY <3>1, <3>2
  <2> QED BY <2>3, <2>4 DEF PlainObjects
<1> QED BY <1>1, <1>2, <1>3, <1>9, <1>10, <1>12, MetaParts

-----------------------------------------------------------------------------
(* Requests that start beside the parts of uploads *)

LEMMA PartsBegun ==
    ASSUME PartsInv, NEW t, Begin(t), NEW n, n = Len(tasks) + 1
    PROVE  /\ IsSeq(tasks)' /\ Len(tasks') <= MaxOps /\ n \in 1..MaxOps
           /\ n \notin DOMAIN tasks /\ DOMAIN tasks' = DOMAIN tasks \cup {n} /\ tasks'[n] = t
           /\ \A m \in DOMAIN tasks : tasks'[m] = tasks[m]
<1>1. IsSeq(tasks) /\ Len(tasks) < MaxOps /\ MaxOps \in Nat /\ tasks' = Append(tasks, t)
  BY S3Assumption, Zenon DEF PartsInv, TasksFit, Begin
<1>2. Lengthens /\ Len(tasks') = Len(tasks) + 1 /\ Len(tasks) \in Nat BY <1>1, Appended
<1> DEFINE S == {tasks[i] : i \in DOMAIN tasks} \cup {t}
<1>3. tasks \in Seq(S) /\ t \in S BY <1>1 DEF IsSeq
<1> HIDE DEF S
<1>4. /\ n \notin DOMAIN tasks /\ DOMAIN tasks' = DOMAIN tasks \cup {n} /\ tasks'[n] = t
      /\ \A m \in DOMAIN tasks : tasks'[m] = tasks[m]
  BY <1>1, <1>3
<1>5. n \in 1..MaxOps /\ Len(tasks') <= MaxOps BY <1>1, <1>2
<1> QED BY <1>2, <1>4, <1>5 DEF Lengthens

LEMMA RacedBegun ==
    ASSUME PartsInv, NEW t, Begin(t), NEW n, n = Len(tasks) + 1
    PROVE  /\ Raced' /\ contended \subseteq contended'
           /\ \A m \in InFlight' : m = n \/ (m \in InFlight /\ tasks'[m] = tasks[m])
           /\ \A m \in InFlight : tasks[m].touches \cap t.touches # {} => t.touches \subseteq contended'
<1> DEFINE others == {m \in InFlight : tasks[m].touches \cap t.touches # {}}
           both == UNION {tasks[m].touches \cup t.touches : m \in others}
           tainted == IF t.touches \cap contended = {} THEN {} ELSE t.touches
<1>1. contended' = contended \cup both \cup tainted BY DEF Begin
<1>2. /\ n \notin DOMAIN tasks /\ DOMAIN tasks' = DOMAIN tasks \cup {n} /\ tasks'[n] = t
      /\ \A m \in DOMAIN tasks : tasks'[m] = tasks[m]
  BY PartsBegun
<1>3. \A m \in InFlight' : m = n \/ (m \in InFlight /\ tasks'[m] = tasks[m])
  BY <1>2 DEF InFlight
<1>4. \A m \in InFlight : tasks[m].touches \cap t.touches # {} => tasks[m].touches \subseteq contended' /\ t.touches \subseteq contended'
  BY <1>1
<1>5. contended \subseteq contended' BY <1>1
<1>6. ASSUME NEW l \in InFlight', NEW m \in InFlight', l # m, tasks'[l].touches \cap tasks'[m].touches # {}
      PROVE  tasks'[l].touches \subseteq contended'
  <2>1. CASE l = n \/ m = n BY <2>1, <1>2, <1>3, <1>4, <1>6
  <2>2. CASE m # n /\ l # n BY <2>2, <1>3, <1>5, <1>6 DEF PartsInv, Raced
  <2> QED BY <2>1, <2>2
<1> QED BY <1>3, <1>4, <1>5, <1>6 DEF Raced

LEMMA BeginParts ==
    ASSUME PartsInv, NEW t, Begin(t), NEW n, n = Len(tasks) + 1, UNCHANGED <<objects, link, disk>>, Fits(t, n)',
           \A u \in DOMAIN uploads' : NewUpload(u, n, t),
           t.op = "deleteBucket" => \A u \in DOMAIN uploads' : uploads'[u].bucket # t.b,
           t.op = "part" /\ t.pc = "commit" => Backed(t.part)'
    PROVE  PartsInv'
<1>1. /\ IsSeq(tasks)' /\ Len(tasks') <= MaxOps
      /\ n \notin DOMAIN tasks /\ DOMAIN tasks' = DOMAIN tasks \cup {n} /\ tasks'[n] = t
      /\ \A m \in DOMAIN tasks : tasks'[m] = tasks[m]
  BY PartsBegun
<1>2. /\ Raced' /\ contended \subseteq contended'
      /\ \A m \in InFlight' : m = n \/ (m \in InFlight /\ tasks'[m] = tasks[m])
      /\ \A m \in InFlight : tasks[m].touches \cap t.touches # {} => t.touches \subseteq contended'
  BY RacedBegun
<1>3. PlainObjects' BY ObjectsSame DEF PartsInv
<1>4. UploadsFound
  <2>1. ASSUME NEW u \in DOMAIN uploads', u \in DOMAIN tasks PROVE u \in DOMAIN uploads /\ uploads'[u] = uploads[u]
    BY <2>1, <1>1 DEF NewUpload
  <2> QED BY <2>1 DEF UploadsFound
<1>5. TasksFit'
  <2>1. ASSUME NEW m \in DOMAIN tasks' PROVE Fits(tasks[m], m)'
    <3>1. CASE m = n BY <3>1, <1>1
    <3>2. CASE m \in DOMAIN tasks
      <4>1. Fits(tasks[m], m) /\ tasks'[m] = tasks[m] BY <3>2, <1>1 DEF PartsInv, TasksFit
      <4> QED BY <4>1, <3>2, <1>1, <1>4, OthersFit
    <3> QED BY <3>1, <3>2, <1>1
  <2> QED BY <2>1, <1>1 DEF TasksFit
<1>6. LinksFit'
  <2>1. ASSUME NEW q \in DOMAIN link' PROVE LinkFits(q)'
    <3>1. LinkFits(q) BY DEF PartsInv, LinksFit
    <3>2. PICK i \in DOMAIN tasks : i = link[q] BY <3>1 DEF LinkFits
    <3>3. tasks'[i] = tasks[i] /\ i \in DOMAIN tasks' BY <1>1
    <3> QED BY <3>1, <3>2, <3>3 DEF LinkFits, OfPart
  <2> QED BY <2>1 DEF LinksFit
<1>7. UploadsFit'
  <2>1. ASSUME NEW u \in DOMAIN uploads' PROVE UploadFits(u)'
    <3>1. CASE u \in DOMAIN uploads /\ uploads'[u] = uploads[u]
      BY <3>1, <1>1 DEF PartsInv, UploadsFit, UploadFits, PartPath
    <3> QED BY <3>1 DEF NewUpload
  <2> QED BY <2>1 DEF UploadsFit
<1>8. BucketsRaced'
  <2>1. ASSUME NEW u \in DOMAIN uploads', NEW m \in InFlight', tasks'[m].op = "deleteBucket", tasks'[m].b = uploads'[u].bucket
        PROVE  UploadKey(u)' \in contended'
    <3>1. m \in InFlight /\ tasks'[m] = tasks[m] /\ m \in DOMAIN tasks
      BY <2>1, <1>1, <1>2 DEF InFlight
    <3>2. CASE u \in DOMAIN uploads /\ uploads'[u] = uploads[u]
      BY <3>1, <3>2, <2>1, <1>2 DEF PartsInv, BucketsRaced, UploadKey
    <3>3. CASE u = n /\ UploadFits(u)' /\ UploadKey(u)' \in t.touches
      <4>1. tasks[m].touches = {tasks[m].b} \X Keys
        <5>1. Fits(tasks[m], m) BY <3>1 DEF PartsInv, TasksFit
        <5> QED BY <5>1, <3>1, <2>1 DEF Fits, BucketFits, InFlight, Over
      <4>2. UploadKey(u)' \in tasks[m].touches
        BY <4>1, <3>1, <3>3, <2>1 DEF UploadKey, UploadFits
      <4> QED BY <4>2, <3>1, <3>3, <1>2
    <3> QED BY <3>2, <3>3 DEF NewUpload
  <2> QED BY <2>1 DEF BucketsRaced
<1>9. \A v : Backed(v)' = Backed(v) BY DEF Backed, Linked
<1>10. ASSUME NEW u \in DOMAIN uploads', NEW p \in PartNumbers, Undisturbed(u, p)' PROVE PartKept(u, p)'
  <2>1. CASE u \in DOMAIN uploads /\ uploads'[u] = uploads[u]
    <3>1. Undisturbed(u, p)
      <4>1. UploadKey(u)' = UploadKey(u) /\ PartToken(u, p)' = PartToken(u, p)
        BY <2>1 DEF UploadKey, PartToken
      <4>2. ASSUME NEW m \in DOMAIN tasks, Consumes(m, u) PROVE Consumes(m, u)' /\ m \in DOMAIN tasks'
        BY <4>2, <1>1 DEF Consumes
      <4> QED BY <4>1, <4>2, <1>2, <1>10 DEF Undisturbed, Consumed
    <3>2. PartKept(u, p) BY <3>1, <2>1 DEF PartsInv, PartsKept
    <3>3. ASSUME NEW m \in DOMAIN tasks PROVE Arrives(m, u, p)' = Arrives(m, u, p) /\ m \in DOMAIN tasks'
      BY <1>1 DEF Arrives
    <3>4. ASSUME NEW m \in DOMAIN tasks', Arrives(m, u, p)' PROVE Backed(tasks[m].part)'
      <4>1. CASE m = n BY <4>1, <3>4, <1>1 DEF Arrives
      <4>2. CASE m \in DOMAIN tasks
        <5>1. Backed(tasks[m].part) /\ tasks'[m] = tasks[m]
          BY <4>2, <3>2, <3>3, <3>4, <1>1 DEF PartKept
        <5> QED BY <5>1, <1>9
      <4> QED BY <4>1, <4>2, <1>1
    <3>5. Arriving(u, p) => Arriving(u, p)' BY <3>3 DEF Arriving
    <3>6. p \in DOMAIN uploads'[u].parts /\ ~Arriving(u, p)' => Backed(uploads[u].parts[p])'
      BY <3>2, <3>5, <2>1, <1>9 DEF PartKept
    <3> QED BY <3>4, <3>6 DEF PartKept
  <2>2. CASE u = n /\ t.op = "createUpload" /\ DOMAIN uploads'[u].parts = {}
    <3>1. ASSUME NEW m \in DOMAIN tasks', Arrives(m, u, p)' PROVE FALSE
      <4>1. m \in DOMAIN tasks /\ tasks'[m] = tasks[m] /\ Arrives(m, u, p)
        BY <3>1, <2>2, <1>1 DEF Arrives
      <4>2. PartFits(tasks[m], m) /\ tasks[m].u = u BY <4>1, Stage DEF Arrives
      <4> QED BY <4>2, <2>2, <1>1 DEF PartFits
    <3> QED BY <3>1, <2>2 DEF PartKept
  <2> QED BY <2>1, <2>2 DEF NewUpload
<1> QED BY <1>2, <1>3, <1>5, <1>6, <1>7, <1>8, <1>10 DEF PartsInv, PartsKept

\* A request that leaves the uploads alone.
LEMMA BeginsAside ==
    ASSUME PartsInv, NEW t, Begin(t), NEW n, n = Len(tasks) + 1, UNCHANGED <<meta, files>>, Fits(t, n)',
           t.op = "deleteBucket" => \A u \in DOMAIN uploads : uploads[u].bucket # t.b,
           t.op = "part" /\ t.pc = "commit" => Backed(t.part)'
    PROVE  PartsInv'
<1>1. UNCHANGED <<objects, link, disk, uploads>> BY DEF meta, files
<1>2. \A u \in DOMAIN uploads' : NewUpload(u, n, t) BY <1>1 DEF NewUpload
<1> QED BY <1>1, <1>2, BeginParts

LEMMA DeleteBucketCheckParts ==
    ASSUME PartsInv, NEW b \in Buckets, DeleteBucketCheck(b)
    PROVE  PartsInv'
<1>1. PICK n : n = Len(tasks) + 1 OBVIOUS
<1>2. PICK t : t = [op |-> "deleteBucket", pc |-> "deleteBucket", touches |-> {b} \X Keys, b |-> b]
  OBVIOUS
<1>3. Begin(t) /\ UNCHANGED <<meta, files>> /\ \A u \in DOMAIN uploads : uploads[u].bucket # b
  BY <1>2 DEF DeleteBucketCheck
<1>4. t.op = "deleteBucket" /\ t.pc = "deleteBucket" /\ t.touches = {b} \X Keys /\ t.b = b /\ DOMAIN t = {"op", "pc", "touches", "b"}
  BY <1>2
<1>5. BucketFits(t) /\ Has(t, {"op", "pc", "touches"})
  BY <1>4 DEF BucketFits, BucketPcs, Has
<1>6. Fits(t, n)' BY <1>4, <1>5 DEF Fits, BucketFits
<1> QED BY <1>1, <1>3, <1>4, <1>6, BeginsAside

LEMMA PutPreflightParts ==
    ASSUME PartsInv, NEW b \in Buckets, NEW k \in Keys, NEW kind, PutPreflight(b, k, kind)
    PROVE  PartsInv'
<1>1. PICK n : n = Len(tasks) + 1 OBVIOUS
<1>2. PICK vid : vid = NewVersionId(b, n) OBVIOUS
<1>3. PICK path : path = <<b, k, vid>> OBVIOUS
<1>4. PICK pc : pc = IF kind = "inline" THEN "commit" ELSE "ensureDir" OBVIOUS
<1>5. PICK data : data = IF kind = "inline" THEN Inline(<<n>>) ELSE FileRef(path) OBVIOUS
<1>6. PICK t : t = [op |-> "put", pc |-> pc, touches |-> {<<b, k>>}, b |-> b, k |-> k, vid |-> vid,
                    body |-> <<n>>, etag |-> <<n>>, size |-> BodySize(kind), data |-> data,
                    path |-> path, then |-> "write", after |-> "commit"]
  OBVIOUS
<1>7. Begin(t) /\ UNCHANGED <<meta, files>>
  BY <1>1, <1>2, <1>3, <1>4, <1>5, <1>6, Zenon DEF PutPreflight
<1>8. /\ t.op = "put" /\ t.pc = pc /\ t.touches = {<<b, k>>} /\ t.b = b /\ t.k = k /\ t.vid = vid /\ t.data = data
      /\ t.path = path /\ t.then = "write" /\ t.after = "commit"
      /\ DOMAIN t = {"op", "pc", "touches", "b", "k", "vid", "body", "etag", "size", "data", "path", "then", "after"}
  BY <1>6
<1>9. n \in 1..MaxOps BY <1>1, <1>7, PartsBegun
<1>10. vid \in Vids /\ path \in Paths BY <1>2, <1>3, <1>9, NewName
<1>11. ObjectFile(data) /\ pc \in {"commit", "ensureDir"}
  BY <1>4, <1>5, <1>10 DEF ObjectFile, Inline, FileRef
<1>12. PutFits(t) /\ Has(t, {"op", "pc", "touches"})
  BY <1>8, <1>10, <1>11 DEF PutFits, WillRecord, Has, WritePcs
<1>13. Fits(t, n)' BY <1>8, <1>12 DEF Fits, PutFits, WillRecord
<1> QED BY <1>1, <1>7, <1>8, <1>13, BeginsAside

LEMMA GetObjectParts ==
    ASSUME PartsInv, NEW b \in Buckets, NEW k \in Keys, NEW vid, GetObject(b, k, vid)
    PROVE  PartsInv'
<1>1. PICK n : n = Len(tasks) + 1 OBVIOUS
<1>2. PICK v : v = IF vid = None THEN Current(objects[b][k]) ELSE GetVersion(objects[b][k], vid)
  OBVIOUS
<1>3. PICK pc : pc = IF v.data.file = None THEN "done" ELSE "read" OBVIOUS
<1>4. PICK t : t = [op |-> "get", pc |-> pc, touches |-> {}, vid |-> v.vid, etag |-> v.etag,
                    got |-> v.data.bytes, path |-> v.data.file]
  OBVIOUS
<1>5. Begin(t) /\ UNCHANGED <<meta, files>> BY <1>2, <1>3, <1>4, Zenon DEF GetObject
<1>6. t.op = "get" /\ t.pc = pc /\ pc \in {"done", "read"} /\ DOMAIN t = {"op", "pc", "touches", "vid", "etag", "got", "path"}
  BY <1>3, <1>4
<1>7. Has(t, {"op", "pc", "touches"}) /\ (Over(t) \/ GetFits(t))
  BY <1>6 DEF Has, Over, GetFits
<1>8. Fits(t, n)' BY <1>6, <1>7 DEF Fits, Over, GetFits
<1> QED BY <1>1, <1>5, <1>6, <1>8, BeginsAside

LEMMA DeleteCheckParts ==
    ASSUME PartsInv, NEW b \in Buckets, NEW entries \in Batches(b), DeleteCheck(b, entries)
    PROVE  PartsInv'
<1>1. PICK n : n = Len(tasks) + 1 OBVIOUS
<1>2. PICK touches : touches = {<<b, entries[i].k>> : i \in DOMAIN entries} OBVIOUS
<1>3. PICK t : t = [op |-> "delete", pc |-> "delete", touches |-> touches, b |-> b, entries |-> entries]
  OBVIOUS
<1>4. Begin(t) /\ UNCHANGED <<meta, files>> BY <1>2, <1>3, Zenon DEF DeleteCheck
<1>5. IsSeq(entries) /\ \A i \in DOMAIN entries : entries[i].k \in Keys
  <2> DEFINE E == UNION {[k : {k}, vid : VersionIds(b, k)] : k \in Keys}
  <2>1. \A e \in E : e.k \in Keys OBVIOUS
  <2>2. PICK m \in 1..MaxBatch : entries \in [1..m -> E] BY DEF Batches
  <2> HIDE DEF E
  <2>3. m \in Nat
    <3>1. MaxBatch \in Nat BY S3Assumption, Zenon
    <3> QED BY <3>1
  <2>4. entries \in Seq(E) BY <2>2, <2>3
  <2>5. \A i \in DOMAIN entries : entries[i] \in E BY <2>2
  <2> QED BY <2>1, <2>4, <2>5, SequenceIs
<1>6. /\ t.op = "delete" /\ t.pc = "delete" /\ t.b = b /\ t.entries = entries
      /\ DOMAIN t = {"op", "pc", "touches", "b", "entries"}
  BY <1>3
<1>7. DeleteFits(t) /\ Has(t, {"op", "pc", "touches"})
  BY <1>5, <1>6 DEF DeleteFits, Has, IsSeq
<1>8. Fits(t, n)' BY <1>6, <1>7 DEF Fits, DeleteFits
<1> QED BY <1>1, <1>4, <1>6, <1>8, BeginsAside

LEMMA CopyLookupParts ==
    ASSUME PartsInv, NEW sb \in Buckets, NEW sk \in Keys, NEW b \in Buckets, NEW k \in Keys, CopyLookup(sb, sk, b, k)
    PROVE  PartsInv'
<1>1. PICK n : n = Len(tasks) + 1 OBVIOUS
<1>2. PICK v : v = Current(objects[sb][sk]) OBVIOUS
<1>3. PICK path : path = <<sb, sk, v.vid>> OBVIOUS
<1>4. PICK t : t = [op |-> "copy", pc |-> "copyVersioning", touches |-> {<<sb, sk>>, <<b, k>>},
                    b |-> b, k |-> k, src |-> v, srcPath |-> path]
  OBVIOUS
<1>5. Begin(t) /\ UNCHANGED <<meta, files>> /\ v # None
  BY <1>2, <1>3, <1>4, Zenon DEF CopyLookup
<1>6. PlainVersion(v)
  <2>1. PICK vs : vs = objects[sb][sk] OBVIOUS
  <2>2. IsSeq(vs) /\ \A i \in DOMAIN vs : PlainVersion(vs[i])
    BY <2>1 DEF PartsInv, PlainObjects, Versions
  <2>3. vs # <<>> /\ v = Head(vs) BY <2>1, <1>2, <1>5 DEF Current
  <2>4. 1 \in DOMAIN vs /\ Head(vs) = vs[1] BY <2>2, <2>3 DEF IsSeq
  <2> QED BY <2>2, <2>3, <2>4
<1>7. /\ t.op = "copy" /\ t.pc = "copyVersioning" /\ t.b = b /\ t.k = k /\ t.src = v /\ t.srcPath = path
      /\ DOMAIN t = {"op", "pc", "touches", "b", "k", "src", "srcPath"}
  BY <1>4
<1>8. path[3] = v.vid /\ v.vid \in Vids BY <1>3, <1>6 DEF PlainVersion
<1>9. LookupFits(t) /\ Has(t, {"op", "pc", "touches"})
  BY <1>6, <1>7, <1>8 DEF LookupFits, Has
<1>10. Fits(t, n)' BY <1>7, <1>9 DEF Fits, LookupFits
<1> QED BY <1>1, <1>5, <1>7, <1>10, BeginsAside

LEMMA UploadPartParts ==
    ASSUME PartsInv, NEW u \in DOMAIN uploads, NEW p \in PartNumbers, NEW kind, UploadPartLookup(u, p, kind)
    PROVE  PartsInv'
<1>1. PICK n : n = Len(tasks) + 1 OBVIOUS
<1>2. PICK path : path = PartPath(u, p) OBVIOUS
<1>3. PICK pc : pc = IF kind = "inline" THEN "commit" ELSE "ensureDir" OBVIOUS
<1>4. PICK data : data = IF kind = "inline" THEN Inline(<<n>>) ELSE FileRef(path) OBVIOUS
<1>5. PICK part : part = [etag |-> <<n>>, size |-> BodySize(kind), data |-> data] OBVIOUS
<1>6. PICK touches : touches = {PartToken(u, p)} OBVIOUS
<1>7. PICK t : t = [op |-> "part", pc |-> pc, touches |-> touches, u |-> u, p |-> p, body |-> <<n>>,
                    part |-> part, path |-> path, then |-> "write", after |-> "commit"]
  OBVIOUS
<1>8. Begin(t) /\ UNCHANGED <<meta, files>>
  BY <1>1, <1>2, <1>3, <1>4, <1>5, <1>6, <1>7, Zenon DEF UploadPartLookup
<1>9. /\ t.op = "part" /\ t.pc = pc /\ t.touches = touches /\ t.u = u /\ t.p = p /\ t.body = <<n>> /\ t.part = part
      /\ t.path = path /\ t.then = "write" /\ t.after = "commit"
      /\ DOMAIN t = {"op", "pc", "touches", "u", "p", "body", "part", "path", "then", "after"}
  BY <1>7
<1>10. part.etag = <<n>> /\ part.data = data BY <1>5
<1>11. /\ pc \in {"commit", "ensureDir"} /\ (pc = "commit" => data = Inline(<<n>>))
       /\ data = FileRef(path) \/ (pc = "commit" /\ data = Inline(<<n>>))
  BY <1>3, <1>4
<1>12. u \in DOMAIN tasks /\ DOMAIN tasks \subseteq DOMAIN tasks' /\ uploads' = uploads
  <2>1. u \in DOMAIN tasks BY DEF PartsInv, UploadsFit, UploadFits
  <2> QED BY <2>1, <1>1, <1>8, PartsBegun DEF meta
<1>13. path = <<path[1], u, <<0, 0, p>>>> /\ path[1] = uploads[u].bucket /\ touches = {<<path[1], u, p>>}
  BY <1>2, <1>6 DEF PartPath, PartToken
<1>14. PartFits(t, n)' BY <1>9, <1>10, <1>11, <1>12, <1>13 DEF PartFits, Has, WritePcs
<1>15. Has(t, {"op", "pc", "touches"}) BY <1>9 DEF Has
<1>16. Fits(t, n)' BY <1>9, <1>14, <1>15 DEF Fits
<1>17. t.pc = "commit" => Backed(t.part)' BY <1>9, <1>10, <1>11 DEF Backed, Inline
<1> QED BY <1>1, <1>8, <1>9, <1>16, <1>17, BeginsAside

LEMMA CompleteGatherParts ==
    ASSUME PartsInv, NEW u \in DOMAIN uploads, NEW listed, CompleteGather(u, listed)
    PROVE  PartsInv'
<1>1. PICK n : n = Len(tasks) + 1 OBVIOUS
<1>2. PICK up : up = uploads[u] OBVIOUS
<1>3. PICK parts : parts = [p \in listed \cap DOMAIN up.parts |-> up.parts[p]] OBVIOUS
<1>4. PICK touches : touches = {<<up.bucket, up.key>>} \cup {PartToken(u, p) : p \in listed}
  OBVIOUS
<1>5. PICK t : t = [op |-> "complete", pc |-> "completeVersioning", touches |-> touches,
                    u |-> u, b |-> up.bucket, k |-> up.key, parts |-> parts]
  OBVIOUS
<1>6. Begin(t) /\ UNCHANGED <<meta, files>>
  BY <1>2, <1>3, <1>4, <1>5, Zenon DEF CompleteGather
<1>7. /\ t.op = "complete" /\ t.pc = "completeVersioning" /\ t.touches = touches /\ t.u = u /\ t.b = up.bucket /\ t.k = up.key
      /\ t.parts = parts /\ DOMAIN t = {"op", "pc", "touches", "u", "b", "k", "parts"}
  BY <1>5
<1>8. UploadFits(u) BY DEF PartsInv, UploadsFit
<1>9. u \in DOMAIN tasks /\ DOMAIN tasks \subseteq DOMAIN tasks' /\ uploads' = uploads
  <2>1. u \in DOMAIN tasks BY <1>8 DEF UploadFits
  <2> QED BY <2>1, <1>1, <1>6, PartsBegun DEF meta
<1>10. OfUpload(t)' BY <1>2, <1>4, <1>7, <1>8, <1>9 DEF OfUpload, UploadFits, Has
<1>11. ASSUME NEW p \in DOMAIN parts, parts[p].data.file # None PROVE parts[p].data.file[2] = u
  <2>1. p \in DOMAIN up.parts /\ parts[p] = up.parts[p] BY <1>3, <1>11
  <2>2. p \in PartNumbers /\ parts[p].data.file \in {None, PartPath(u, p)}
    BY <2>1, <1>2, <1>8 DEF UploadFits
  <2>3. PartPath(u, p)[2] = u BY <2>2, PartPathIs
  <2> QED BY <2>2, <2>3, <1>11
<1>12. GatherFits(t)' BY <1>7, <1>10, <1>11 DEF GatherFits, Has
<1>13. Has(t, {"op", "pc", "touches"}) BY <1>7 DEF Has
<1>14. Fits(t, n)' BY <1>7, <1>12, <1>13 DEF Fits
<1> QED BY <1>1, <1>6, <1>7, <1>14, BeginsAside

LEMMA CreateUploadParts ==
    ASSUME PartsInv, NEW b \in Buckets, NEW k \in Keys, CreateMultipartUpload(b, k)
    PROVE  PartsInv'
<1>1. PICK n : n = Len(tasks) + 1 OBVIOUS
<1>2. PICK up : up = [bucket |-> b, key |-> k, parts |-> <<>>] OBVIOUS
<1>3. PICK t : t = [Done("createUpload") EXCEPT !.touches = {<<b, k>>}] OBVIOUS
<1>4. Begin(t) /\ uploads' = With(uploads, n, up) /\ UNCHANGED <<objects, files>>
  BY <1>1, <1>2, <1>3, Zenon DEF CreateMultipartUpload
<1>5. t.op = "createUpload" /\ t.pc = "done" /\ t.touches = {<<b, k>>} /\ DOMAIN t = {"op", "pc", "touches"}
  BY <1>3 DEF Done
<1>6. up.bucket = b /\ up.key = k /\ DOMAIN up.parts = {} /\ DOMAIN up = {"bucket", "key", "parts"}
  BY <1>2
<1>7. DOMAIN uploads' = DOMAIN uploads \cup {n} /\ uploads'[n] = up /\ \A u \in DOMAIN uploads : u # n => uploads'[u] = uploads[u]
  BY <1>4 DEF With
<1>8. Fits(t, n)' BY <1>5 DEF Fits, Over, Has
<1>9. n \in DOMAIN tasks' BY <1>1, <1>4, PartsBegun
<1>10. UploadFits(n)' /\ UploadKey(n)' \in t.touches
  BY <1>5, <1>6, <1>7, <1>9 DEF UploadFits, UploadKey, Has
<1>11. \A u \in DOMAIN uploads' : NewUpload(u, n, t)
  BY <1>5, <1>6, <1>7, <1>10 DEF NewUpload
<1>12. UNCHANGED <<objects, link, disk>> BY <1>4 DEF files
<1> QED BY <1>1, <1>4, <1>5, <1>8, <1>11, <1>12, BeginParts

-----------------------------------------------------------------------------
(* Uploads stay completable *)

LEMMA BucketNextParts ==
    ASSUME PartsInv, NEW b \in Buckets, BucketNext(b)
    PROVE  PartsInv'
<1>1. ASSUME CreateBucket(b) \/ \E status \in Versionings : PutBucketVersioning(b, status) PROVE PartsInv'
  <2>1. UNCHANGED <<objects, uploads, files, tasks, contended>>
    BY <1>1, Zenon DEF CreateBucket, PutBucketVersioning, history
  <2>2. UNCHANGED <<objects, link, disk, tasks>> /\ contended \subseteq contended'
    BY <2>1 DEF files
  <2>3. \A u \in DOMAIN uploads' : u \in DOMAIN uploads /\ uploads'[u] = uploads[u]
    BY <2>1
  <2> QED BY <2>2, <2>3, IdleParts
<1> QED BY <1>1, DeleteBucketCheckParts DEF BucketNext

LEMMA ObjectNextParts ==
    ASSUME PartsInv, NEW b \in Buckets, ObjectNext(b)
    PROVE  PartsInv'
<1>1. CopySources \subseteq Keys BY S3Assumption, Zenon
<1> QED BY <1>1, PutPreflightParts, GetObjectParts, DeleteCheckParts, CopyLookupParts DEF ObjectNext

LEMMA FileStoreParts ==
    ASSUME PartsInv, NEW n, FileStoreStep(n)
    PROVE  PartsInv'
BY EnsureDirParts, WriteParts, RenameParts, PartRenamed, RemoveFileParts DEF FileStoreStep

LEMMA TaskStepParts ==
    ASSUME PartsInv, NEW n, TaskStep(n)
    PROVE  PartsInv'
BY FileStoreParts, DeleteBucketMetaParts, RemoveBucketDirParts, ForgetDirsParts, CommitPutParts, ReadFileParts, DeleteMetaParts,
   CopyVersioningParts, CopyReadParts, CopyResolveParts, CopyLinkParts, CopyFillParts, CommitCopyParts, CancelParts DEF TaskStep

LEMMA MultipartParts ==
    ASSUME PartsInv, NEW n, MultipartStep(n)
    PROVE  PartsInv'
BY CommitPartParts, CompleteVersioningParts, AssemblePartParts, AssembledParts, RemovePartParts, CommitCompleteParts
   DEF MultipartStep

LEMMA InitParts ==
    ASSUME MInit
    PROVE  PartsInv
<1>1. /\ tasks = <<>> /\ uploads = <<>> /\ link = <<>> /\ disk = <<>> /\ contended = {}
      /\ objects = [b \in Buckets |-> [k \in Keys |-> <<>>]]
  BY Zenon DEF MInit, Init
<1>2. PlainObjects
  <2>1. IsSeq(<<>>) /\ \A b \in Buckets, k \in Keys : objects[b][k] = <<>>
    BY <1>1 DEF IsSeq
  <2>2. \A b \in Buckets, k \in Keys : Versions(b, k) = {} BY <2>1 DEF Versions
  <2> QED BY <2>1, <2>2, <1>1 DEF PlainObjects
<1>3. TasksFit
  <2>1. MaxOps \in Nat BY S3Assumption, Zenon
  <2> QED BY <2>1, <1>1 DEF TasksFit, IsSeq
<1>4. DOMAIN link = {} /\ DOMAIN uploads = {} /\ InFlight = {} BY <1>1 DEF InFlight
<1> QED BY <1>2, <1>3, <1>4 DEF PartsInv, LinksFit, UploadsFit, Raced, BucketsRaced, PartsKept

\* What requests are doing, whose bytes lie under which name and which requests race tells which
\* parts of uploads have their bytes, whatever requests do.
THEOREM PartsInvariant == MSpec => []PartsInv
<1>1. MInit => PartsInv BY InitParts
<1>2. ASSUME PartsInv, [MNext]_mvars PROVE PartsInv'
  <2>1. CASE UNCHANGED mvars
    <3>1. UNCHANGED <<objects, link, disk, tasks, uploads, contended>>
      BY <2>1 DEF mvars, vars
    <3> QED BY <3>1, <1>2, IdleParts
  <2>2. CASE Next BY <2>2, <1>2, BucketNextParts, ObjectNextParts, TaskStepParts DEF Next
  <2>3. ASSUME NEW b \in Buckets, NEW k \in Keys, CreateMultipartUpload(b, k) PROVE PartsInv'
    BY <2>3, <1>2, CreateUploadParts
  <2>4. ASSUME NEW u \in DOMAIN uploads,
               \/ \E p \in PartNumbers, kind \in BodyKinds : UploadPartLookup(u, p, kind)
               \/ \E listed \in SUBSET PartNumbers : CompleteGather(u, listed)
               \/ AbortMultipartUpload(u)
        PROVE  PartsInv'
    BY <2>4, <1>2, UploadPartParts, CompleteGatherParts, AbortParts
  <2>5. ASSUME NEW n \in DOMAIN tasks, MultipartStep(n) PROVE PartsInv'
    BY <2>5, <1>2, MultipartParts
  <2> QED BY <1>2, <2>1, <2>2, <2>3, <2>4, <2>5 DEF MNext
<1> QED BY <1>1, <1>2, PTL DEF MSpec

\* The parts of an upload that is not complete have their bytes as long as the requests that touch the
\* upload's key or the part come one after the other and none of them runs: a CompleteMultipartUpload
\* that fails takes none of them with it.
THEOREM Completable == MSpec => []UploadsStayCompletable
<1>1. PartsInv => UploadsStayCompletable
  <2> SUFFICES ASSUME PartsInv, NEW u \in DOMAIN uploads, NEW p \in DOMAIN uploads[u].parts,
                      AtRest(uploads[u].bucket, uploads[u].key), UploadKey(u) \notin contended, PartToken(u, p) \notin contended,
                      \A n \in InFlight : PartToken(u, p) \notin tasks[n].touches
               PROVE  Backed(uploads[u].parts[p])
    BY DEF UploadsStayCompletable, UploadKey
  <2>1. p \in PartNumbers BY DEF PartsInv, UploadsFit, UploadFits
  <2>2. ASSUME NEW n \in DOMAIN tasks, Consumes(n, u) PROVE FALSE
    <3>1. n \in InFlight /\ CompleteFits(tasks[n]) /\ tasks[n].u = u
      BY <2>2, Stage DEF Consumes, InFlight
    <3>2. <<uploads[u].bucket, uploads[u].key>> \in tasks[n].touches
      BY <3>1 DEF CompleteFits, OfUpload
    <3> QED BY <3>1, <3>2 DEF AtRest
  <2>3. ASSUME NEW n \in DOMAIN tasks, Arrives(n, u, p) PROVE FALSE
    <3>1. n \in InFlight /\ PartFits(tasks[n], n) /\ tasks[n].u = u /\ tasks[n].p = p
      BY <2>3, Stage DEF Arrives, InFlight
    <3>2. PartToken(u, p) \in tasks[n].touches BY <3>1 DEF PartFits, PartToken
    <3> QED BY <3>1, <3>2
  <2>4. Undisturbed(u, p) /\ ~Arriving(u, p)
    BY <2>2, <2>3 DEF Undisturbed, Consumed, Arriving
  <2> QED BY <2>1, <2>4 DEF PartsInv, PartsKept, PartKept
<1> QED BY <1>1, PartsInvariant, PTL

==============================================================================
