--------------------------- MODULE SnapshotsProofs ---------------------------
(***************************************************************************)
(* For any number of regions, keys, mounts, requests and restarts: the     *)
(* types of Snapshots, that a torn snapshot is never served over, and that *)
(* what a completed save covers is found again after every restart.        *)
(***************************************************************************)
EXTENDS Snapshots, TLAPS

\* A load visits directories and a save visits stores, a request works on a
\* store that is there, and a file is only written by a save.
WorkInv ==
    /\ phase = "load" => \A r \in todo : snap[r] # NoDir
    /\ phase = "save" => \A r \in todo : bundle[r] # None
    /\ \A n \in DOMAIN tasks : Up /\ bundle[tasks[n].slot[1]] # None
    /\ saving # None => phase = "save"

\* A torn file that a load has not come to yet will stop it; past the load only
\* the file being written is torn.
TornInv ==
    Persists(conf.load, "OnStartup") =>
        /\ phase = "load" => \A r \in Regions : snap[r] = Torn => r \in todo
        /\ Up => \A r \in Regions : snap[r] = Torn => saving # None /\ saving.region = r

IInv == TypeOK /\ WorkInv /\ TornInv

\* What a saved store holds is relative (relativize_paths).
LEMMA RelativizeType ==
    ASSUME NEW store \in StoreWith({base})
    PROVE  Relativize(store) \in StoreWith({None})
<1> SUFFICES ASSUME NEW k \in Keys
             PROVE  Relativize(store)[k] \in {None} \cup Refs({None})
  BY DEF Relativize, StoreWith
<1>1. store[k] \in {None} \cup Refs({base})
  BY DEF StoreWith
<1>2. CASE store[k] = None
  BY <1>2 DEF Relativize
<1>3. CASE store[k] # None /\ store[k].data = None
  BY <1>1, <1>3 DEF Relativize, Refs
<1>4. CASE store[k] # None /\ store[k].data # None
  <2>1. store[k] \in [etag : Nat, data : [base : {base}, slot : Slots]]
    BY <1>1, <1>4 DEF Refs
  <2>2. Relativize(store)[k] = Ref(store[k].etag, Path(None, store[k].data.slot))
    BY <2>1, <1>4 DEF Relativize
  <2> QED BY <2>1, <2>2 DEF Ref, Path, Refs
<1> QED BY <1>2, <1>3, <1>4

\* What a loaded store holds is absolute (resolve_and_verify_paths).
LEMMA ResolveType ==
    ASSUME NEW store \in StoreWith({None})
    PROVE  Resolve(store) \in StoreWith({base})
<1> SUFFICES ASSUME NEW k \in Keys
             PROVE  Resolve(store)[k] \in {None} \cup Refs({base})
  BY DEF Resolve, StoreWith
<1>1. store[k] \in {None} \cup Refs({None})
  BY DEF StoreWith
<1>2. CASE store[k] = None
  BY <1>2 DEF Resolve
<1>3. CASE store[k] # None /\ store[k].data = None
  BY <1>1, <1>3 DEF Resolve, Refs
<1>4. CASE store[k] # None /\ store[k].data # None
  <2>1. store[k] \in [etag : Nat, data : [base : {None}, slot : Slots]]
    BY <1>1, <1>4 DEF Refs
  <2>2. Resolve(store)[k] = Ref(store[k].etag, Path(base, store[k].data.slot))
    BY <2>1, <1>4 DEF Resolve
  <2> QED BY <2>1, <2>2 DEF Ref, Path, Refs
<1> QED BY <1>2, <1>3, <1>4

\* The store of a new region has its type under any mount.
LEMMA EmptyStoreType == ASSUME NEW bases PROVE EmptyStore \in StoreWith(bases)
  BY DEF EmptyStore, StoreWith

\* Nothing is wrong before the first process starts.
LEMMA InitType == Init => TypeOK
<1> SUFFICES ASSUME Init PROVE TypeOK
  OBVIOUS
<1>1. DOMAIN tasks = {}
  BY DEF Init
<1> QED BY <1>1, SnapshotsAssumption DEF Init, TypeOK

\* The end of a process, however it comes, keeps the types.
LEMMA EndType ==
    ASSUME TypeOK, NEW how \in {"clean", "loadFailed", "saveFailed", "sigterm", "crash"}, End(how)
    PROVE  TypeOK'
<1>1. DOMAIN tasks' = {}
  BY DEF End
<1> QED BY <1>1 DEF TypeOK, End

\* Touching a key keeps the types of what a save holds and of the volatile keys.
LEMMA TouchType ==
    ASSUME TypeOK, NEW s \in Slots, Touch(s)
    PROVE  volatile' \subseteq Slots /\ saving' \in {None} \cup Saving
<1>1. volatile' \subseteq Slots
  BY DEF Touch, TypeOK
<1>2. CASE saving = None
  BY <1>1, <1>2 DEF Touch
<1>3. CASE saving # None
  BY <1>1, <1>3 DEF Touch, TypeOK, Saving, Save
<1> QED BY <1>2, <1>3

\* A store that is there is not None.
LEMMA StoreIsThere == ASSUME TypeOK, NEW store \in StoreWith({base}) PROVE store # None
  BY NoneAssumption DEF TypeOK

\* The commit of a request changes what the store has for its key, and nothing else.
LEMMA CommitStore ==
    ASSUME TypeOK, WorkInv, NEW n \in DOMAIN tasks, CommitMeta(n)
    PROVE  /\ bundle' \in [Regions -> {None} \cup StoreWith({base})]
           /\ \A x \in Regions : bundle[x] # None => bundle'[x] # None
           /\ \A x \in Slots : Held(x)' = IF x = tasks[n].slot THEN Written(n) ELSE Held(x)
<1>1. PICK r \in Regions, k \in Keys : tasks[n].slot = <<r, k>>
  BY DEF TypeOK, Slots
<1>2. n \in Nat /\ tasks[n].slot \in Slots
  BY DEF TypeOK
<1>3. bundle[r] \in StoreWith({base})
  <2>1. tasks[n].slot[1] = r
    BY <1>1
  <2> QED BY <2>1 DEF TypeOK, WorkInv
<1>4. bundle' = [bundle EXCEPT ![r] = [bundle[r] EXCEPT ![k] = Written(n)]]
  <2>1. tasks[n].slot[1] = r /\ tasks[n].slot[2] = k
    BY <1>1
  <2> QED BY <2>1 DEF CommitMeta
<1>5. Written(n) \in {None} \cup Refs({base})
  BY <1>2 DEF Ref, Path, Refs, Written
<1>6. [bundle[r] EXCEPT ![k] = Written(n)] \in StoreWith({base})
  BY <1>3, <1>5 DEF StoreWith
<1>7. ASSUME NEW x \in Slots
      PROVE  Held(x)' = IF x = tasks[n].slot THEN Written(n) ELSE Held(x)
  <2>1. bundle'[r] # None /\ bundle[r] # None /\ bundle \in [Regions -> {None} \cup StoreWith({base})]
    BY <1>3, <1>4, <1>6, StoreIsThere DEF TypeOK
  <2>2. PICK q \in Regions, j \in Keys : x = <<q, j>>
    BY DEF Slots
  <2>3. Held(x) = IF bundle[q] = None THEN None ELSE bundle[q][j]
    BY <2>2 DEF Held
  <2>4. Held(x)' = IF bundle'[q] = None THEN None ELSE bundle'[q][j]
    BY <2>2 DEF Held
  <2>5. x = tasks[n].slot <=> q = r /\ j = k
    BY <1>1, <2>2
  <2>6. CASE q # r
    BY <1>4, <2>1, <2>3, <2>4, <2>5, <2>6
  <2>7. CASE q = r
    <3>1. bundle'[r][j] = IF j = k THEN Written(n) ELSE bundle[r][j]
      BY <1>3, <1>4, <2>1 DEF StoreWith
    <3> QED BY <2>1, <2>3, <2>4, <2>5, <2>7, <3>1
  <2> QED BY <2>6, <2>7
<1> QED BY <1>4, <1>6, <1>7, StoreIsThere DEF TypeOK

\* Every step keeps the types.
LEMMA StepType == IInv /\ [Next]_vars => TypeOK'
<1> SUFFICES ASSUME IInv, [Next]_vars PROVE TypeOK'
  OBVIOUS
<1> USE DEF IInv
<1> DEFINE StoreFiles == {NoDir, NoFile, Torn} \cup [is : {"whole"}, store : StoreWith({None})]
<1> DEFINE Requested == [slot : Slots, op : Ops, pc : {"file", "meta", "unlink"}]
<1>1. CASE UNCHANGED vars
  BY <1>1 DEF vars, TypeOK, StoreWith
<1>2. ASSUME NEW b \in Bases, Start(b) PROVE TypeOK'
  <2>1. starts' \in 0..MaxStarts
    BY <1>2, SnapshotsAssumption DEF Start, TypeOK
  <2>2. todo' \subseteq Regions /\ phase' \in {"load", "serve"}
    BY <1>2 DEF Start
  <2>3. bundle' \in [Regions -> {None} \cup StoreWith({base'})]
    BY <1>2 DEF Start
  <2> QED BY <1>2, <2>1, <2>2, <2>3 DEF Start, TypeOK
<1>3. ASSUME NEW r \in Regions, LoadRegion(r) PROVE TypeOK'
  <2>1. CASE snap[r] = Torn
    BY <1>3, <2>1, EndType DEF LoadRegion
  <2>2. CASE snap[r] # Torn
    <3> DEFINE new == IF snap[r] = NoFile THEN EmptyStore ELSE Resolve(snap[r].store)
    <3>1. snap[r] = NoFile \/ snap[r].store \in StoreWith({None})
      BY <1>3, <2>2 DEF LoadRegion, TypeOK, WorkInv
    <3>2. new \in StoreWith({base})
      BY <3>1, EmptyStoreType, ResolveType
    <3>3. bundle' = [bundle EXCEPT ![r] = new] /\ todo' = todo \ {r}
          /\ UNCHANGED <<conf, base, phase, exit, files, snap, saving, tasks, writes, starts,
                         acked, volatile, lost>>
      BY <1>3, <2>2 DEF LoadRegion
    <3> HIDE DEF new
    <3> QED BY <3>2, <3>3 DEF TypeOK
  <2> QED BY <2>1, <2>2
<1>4. CASE LoadDone
  BY <1>4 DEF LoadDone, TypeOK, StoreWith
<1>5. ASSUME NEW r \in Regions, CreateBucket(r) PROVE TypeOK'
  BY <1>5, EmptyStoreType DEF CreateBucket, TypeOK
<1>6. ASSUME NEW s \in Slots, NEW op \in Ops, BeginWrite(s, op) PROVE TypeOK'
  <2>1. writes' \in 0..MaxWrites /\ writes' = writes + 1 /\ writes \in Nat
    BY <1>6, SnapshotsAssumption DEF BeginWrite, TypeOK
  <2>2. DOMAIN tasks' \subseteq 1..writes'
    BY <1>6, <2>1 DEF BeginWrite, TypeOK
  <2>3. \A n \in DOMAIN tasks' : tasks'[n] \in Requested
    BY <1>6 DEF BeginWrite, TypeOK, Request
  <2> QED BY <1>6, <2>1, <2>2, <2>3, TouchType DEF BeginWrite, TypeOK, process, StoreWith
<1>7. ASSUME NEW n \in DOMAIN tasks, PutFile(n) PROVE TypeOK'
  <2>1. tasks[n].slot \in Slots /\ n \in Nat
    BY DEF TypeOK
  <2>2. DOMAIN tasks' \subseteq 1..writes
    BY <1>7 DEF PutFile, Goto, TypeOK
  <2>3. \A m \in DOMAIN tasks' : tasks'[m] \in Requested
    BY <1>7 DEF PutFile, Goto, TypeOK, Request
  <2>4. files' \in [Slots -> {None} \cup Nat]
    BY <1>7, <2>1 DEF PutFile, TypeOK
  <2> QED BY <1>7, <2>1, <2>2, <2>3, <2>4, TouchType DEF PutFile, TypeOK, process, StoreWith
<1>8. ASSUME NEW n \in DOMAIN tasks, CommitMeta(n) PROVE TypeOK'
  <2>1. n \in Nat /\ tasks[n] \in Requested /\ tasks[n].slot \in Slots
    BY DEF TypeOK
  <2>2. \/ Goto(n, "unlink") /\ UNCHANGED <<acked, lost>>
        \/ \E c \in {None, n} : Answer(n, c)
    BY <1>8 DEF CommitMeta
  <2>3. /\ DOMAIN tasks' \subseteq 1..writes
        /\ \A m \in DOMAIN tasks' : tasks'[m] \in Requested
        /\ acked' \in [Slots -> {None} \cup Nat] /\ lost' \subseteq Slots
    <3>1. CASE Goto(n, "unlink") /\ UNCHANGED <<acked, lost>>
      BY <2>1, <3>1 DEF Goto, Request, TypeOK
    <3>2. ASSUME NEW c \in {None, n}, Answer(n, c)
          PROVE  /\ DOMAIN tasks' \subseteq 1..writes
                 /\ \A m \in DOMAIN tasks' : tasks'[m] \in Requested
                 /\ acked' \in [Slots -> {None} \cup Nat] /\ lost' \subseteq Slots
      BY <2>1, <3>2 DEF Answer, Drop, TypeOK
    <3> QED BY <2>2, <3>1, <3>2
  <2>4. Touch(tasks[n].slot) /\ UNCHANGED <<process, files, snap, writes>>
    BY <1>8 DEF CommitMeta
  <2> QED BY <1>8, <2>1, <2>3, <2>4, CommitStore, TouchType DEF TypeOK, process
<1>9. ASSUME NEW n \in DOMAIN tasks, Unlink(n) PROVE TypeOK'
  <2>1. n \in Nat /\ tasks[n].slot \in Slots
    BY DEF TypeOK
  <2>2. PICK c \in {None, n} : Answer(n, c)
    BY <1>9 DEF Unlink
  <2>3. /\ DOMAIN tasks' \subseteq 1..writes
        /\ \A m \in DOMAIN tasks' : tasks'[m] \in Requested
        /\ acked' \in [Slots -> {None} \cup Nat] /\ lost' \subseteq Slots
    BY <2>1, <2>2 DEF Answer, Drop, TypeOK
  <2>4. files' \in [Slots -> {None} \cup Nat]
    BY <1>9, <2>1 DEF Unlink, TypeOK
  <2> QED BY <1>9, <2>1, <2>3, <2>4, TouchType DEF Unlink, TypeOK, process, StoreWith
<1>10. CASE BeginShutdown
  BY <1>10 DEF BeginShutdown, TypeOK, StoreWith
<1>11. ASSUME NEW r \in Regions, SaveRegion(r) PROVE TypeOK'
  <2>1. bundle[r] \in StoreWith({base})
    BY <1>11 DEF SaveRegion, TypeOK, WorkInv
  <2>2. Relativize(bundle[r]) \in StoreWith({None})
    BY <2>1, RelativizeType
  <2>3. saving' \in Saving
    BY <1>11, <2>2 DEF SaveRegion, Saving, Save, Slots
  <2>4. snap' \in [Regions -> StoreFiles]
    BY <1>11 DEF SaveRegion, TypeOK
  <2> QED BY <1>11, <2>3, <2>4 DEF SaveRegion, TypeOK, StoreWith
<1>12. CASE WriteOpen
  <2>1. saving \in Saving
    BY <1>12 DEF WriteOpen, TypeOK
  <2>2. saving' \in Saving
    BY <1>12, <2>1 DEF WriteOpen, Saving, Save
  <2>3. snap' \in [Regions -> StoreFiles]
    BY <1>12, <2>1 DEF WriteOpen, TypeOK, Saving
  <2> QED BY <1>12, <2>2, <2>3 DEF WriteOpen, TypeOK, process, StoreWith
<1>13. CASE WriteDone
  <2>1. saving \in Saving
    BY <1>13 DEF WriteDone, TypeOK
  <2>2. snap' \in [Regions -> StoreFiles]
    BY <1>13, <2>1 DEF WriteDone, TypeOK, Saving, Whole
  <2> QED BY <1>13, <2>2 DEF WriteDone, TypeOK, process, StoreWith
<1>14. CASE SaveFails
  BY <1>14, EndType DEF SaveFails
<1>15. CASE SaveDone
  BY <1>15 DEF SaveDone, TypeOK, StoreWith
<1>16. CASE StopAll
  BY <1>16, EndType DEF StopAll
<1>17. ASSUME NEW how \in {"sigterm", "crash"}, Kill(how) PROVE TypeOK'
  BY <1>17, EndType DEF Kill
<1> QED
  BY <1>1, <1>2, <1>3, <1>4, <1>5, <1>6, <1>7, <1>8, <1>9, <1>10, <1>11, <1>12, <1>13, <1>14,
     <1>15, <1>16, <1>17 DEF Next, Progress, Requests

\* The end of a process leaves nothing at work.
LEMMA EndWork == ASSUME NEW how, End(how) PROVE WorkInv' /\ TornInv'
<1>1. DOMAIN tasks' = {} /\ phase' = "off" /\ saving' = None
  BY DEF End
<1> QED BY <1>1 DEF WorkInv, TornInv, Up

\* Touching a key neither begins nor ends a save, and takes that key from what it covers.
LEMMA TouchSaving ==
    ASSUME TypeOK, NEW s \in Slots, Touch(s)
    PROVE  /\ saving' = None <=> saving = None
           /\ saving # None => /\ saving'.region = saving.region
                               /\ saving'.image = saving.image
                               /\ saving'.covers = saving.covers \ {s}
<1>1. CASE saving = None
  BY <1>1 DEF Touch
<1>2. CASE saving # None
  <2>1. saving \in Saving /\ saving' = Save(saving.region, saving.pc, saving.image, saving.covers \ {s})
    BY <1>2 DEF Touch, TypeOK
  <2>2. saving' \in Saving
    BY <2>1 DEF Saving, Save
  <2> QED BY <1>2, <2>1, <2>2, NoneAssumption DEF Save
<1> QED BY <1>1, <1>2

\* Every step of load, save and requests works on stores and files that are there.
LEMMA StepWork == IInv /\ [Next]_vars => WorkInv'
<1> SUFFICES ASSUME IInv, [Next]_vars PROVE WorkInv'
  OBVIOUS
<1> USE DEF IInv
<1>1. CASE UNCHANGED vars
  BY <1>1 DEF vars, WorkInv, Up
<1>2. ASSUME NEW b \in Bases, Start(b) PROVE WorkInv'
  <2>1. DOMAIN tasks = {} /\ saving = None
    BY <1>2 DEF Start, WorkInv, Up
  <2> QED BY <1>2, <2>1 DEF Start, WorkInv, Up
<1>3. ASSUME NEW r \in Regions, LoadRegion(r) PROVE WorkInv'
  <2>1. DOMAIN tasks = {} /\ saving = None
    BY <1>3 DEF LoadRegion, WorkInv, Up
  <2> QED BY <1>3, <2>1, EndWork DEF LoadRegion, WorkInv, Up
<1>4. CASE LoadDone
  BY <1>4 DEF LoadDone, WorkInv, Up
<1>5. ASSUME NEW r \in Regions, CreateBucket(r) PROVE WorkInv'
  <2>1. EmptyStore # None
    BY EmptyStoreType, StoreIsThere
  <2>2. \A x \in Regions : bundle'[x] # None <=> (bundle[x] # None \/ x = r)
    BY <1>5, <2>1 DEF CreateBucket, TypeOK
  <2> QED BY <1>5, <2>2 DEF CreateBucket, WorkInv, TypeOK, Up, Slots
<1>6. ASSUME NEW s \in Slots, NEW op \in Ops, BeginWrite(s, op) PROVE WorkInv'
  BY <1>6, TouchSaving DEF BeginWrite, WorkInv, Up, process, Request
<1>7. ASSUME NEW n \in DOMAIN tasks, PutFile(n) PROVE WorkInv'
  <2>1. tasks[n].slot \in Slots
    BY DEF TypeOK
  <2> QED BY <1>7, <2>1, TouchSaving DEF PutFile, Goto, Request, WorkInv, Up, process
<1>8. ASSUME NEW n \in DOMAIN tasks, CommitMeta(n) PROVE WorkInv'
  <2>1. tasks[n].slot \in Slots
    BY DEF TypeOK
  <2>2. \A x \in Regions : bundle[x] # None => bundle'[x] # None
    BY <1>8, CommitStore
  <2>3. DOMAIN tasks' \subseteq DOMAIN tasks /\ \A m \in DOMAIN tasks' : tasks'[m].slot = tasks[m].slot
    BY <1>8 DEF CommitMeta, Goto, Request, Answer, Drop
  <2> QED BY <1>8, <2>1, <2>2, <2>3, TouchSaving DEF CommitMeta, WorkInv, TypeOK, Slots, process, Up
<1>9. ASSUME NEW n \in DOMAIN tasks, Unlink(n) PROVE WorkInv'
  <2>1. tasks[n].slot \in Slots
    BY DEF TypeOK
  <2> QED BY <1>9, <2>1, TouchSaving DEF Unlink, Answer, Drop, WorkInv, Up, process
<1>10. CASE BeginShutdown
  BY <1>10 DEF BeginShutdown, WorkInv, Up
<1>11. ASSUME NEW r \in Regions, SaveRegion(r) PROVE WorkInv'
  BY <1>11 DEF SaveRegion, WorkInv, Up
<1>12. CASE WriteOpen
  BY <1>12 DEF WriteOpen, WorkInv, Up, process
<1>13. CASE WriteDone
  BY <1>13 DEF WriteDone, WorkInv, Up, process
<1>14. CASE SaveFails
  BY <1>14, EndWork DEF SaveFails
<1>15. CASE SaveDone
  BY <1>15 DEF SaveDone, WorkInv, Up
<1>16. CASE StopAll
  BY <1>16, EndWork DEF StopAll
<1>17. ASSUME NEW how \in {"sigterm", "crash"}, Kill(how) PROVE WorkInv'
  BY <1>17, EndWork DEF Kill
<1> QED
  BY <1>1, <1>2, <1>3, <1>4, <1>5, <1>6, <1>7, <1>8, <1>9, <1>10, <1>11, <1>12, <1>13, <1>14,
     <1>15, <1>16, <1>17 DEF Next, Progress, Requests

\* Every step leaves a torn file to a load that will stop at it, or to the save that wrote it.
LEMMA StepTorn == IInv /\ [Next]_vars => TornInv'
<1> SUFFICES ASSUME IInv, [Next]_vars PROVE TornInv'
  OBVIOUS
<1> USE DEF IInv
<1>1. CASE UNCHANGED vars
  BY <1>1 DEF vars, TornInv, Persists, Up
<1>2. ASSUME NEW b \in Bases, Start(b) PROVE TornInv'
  BY <1>2 DEF Start, TornInv, Persists, Up, NoDir, Torn
<1>3. ASSUME NEW r \in Regions, LoadRegion(r) PROVE TornInv'
  BY <1>3, EndWork DEF LoadRegion, TornInv, Persists, Up
<1>4. CASE LoadDone
  BY <1>4 DEF LoadDone, TornInv, Persists, Up
<1>5. ASSUME NEW r \in Regions, CreateBucket(r) PROVE TornInv'
  BY <1>5 DEF CreateBucket, TornInv, Persists, Up
<1>6. ASSUME NEW s \in Slots, NEW op \in Ops, BeginWrite(s, op) PROVE TornInv'
  BY <1>6, TouchSaving DEF BeginWrite, TornInv, Persists, Up, process
<1>7. ASSUME NEW n \in DOMAIN tasks, PutFile(n) \/ CommitMeta(n) \/ Unlink(n) PROVE TornInv'
  <2>1. tasks[n].slot \in Slots
    BY DEF TypeOK
  <2>2. Touch(tasks[n].slot) /\ UNCHANGED <<process, snap>>
    BY <1>7 DEF PutFile, CommitMeta, Unlink
  <2> QED BY <2>1, <2>2, TouchSaving DEF TornInv, Persists, Up, process
<1>10. CASE BeginShutdown
  BY <1>10 DEF BeginShutdown, TornInv, Persists, Up
<1>11. ASSUME NEW r \in Regions, SaveRegion(r) PROVE TornInv'
  BY <1>11 DEF SaveRegion, TornInv, Persists, Up, TypeOK, NoDir, NoFile, Torn
<1>12. CASE WriteOpen
  <2>1. saving \in Saving /\ saving' \in Saving /\ saving'.region = saving.region
    BY <1>12 DEF WriteOpen, TypeOK, Saving, Save
  <2> QED BY <1>12, <2>1, NoneAssumption DEF WriteOpen, TornInv, Persists, Up, TypeOK, process, WorkInv, Saving
<1>13. CASE WriteDone
  <2>1. saving \in Saving
    BY <1>13 DEF WriteDone, TypeOK
  <2> QED BY <1>13, <2>1 DEF WriteDone, TornInv, Persists, Up, TypeOK, process, WorkInv, Whole, Torn, Saving
<1>14. CASE SaveFails
  BY <1>14, EndWork DEF SaveFails
<1>15. CASE SaveDone
  BY <1>15 DEF SaveDone, TornInv, Persists, Up
<1>16. CASE StopAll
  BY <1>16, EndWork DEF StopAll
<1>17. ASSUME NEW how \in {"sigterm", "crash"}, Kill(how) PROVE TornInv'
  BY <1>17, EndWork DEF Kill
<1> QED
  BY <1>1, <1>2, <1>3, <1>4, <1>5, <1>6, <1>7, <1>10, <1>11, <1>12, <1>13, <1>14,
     <1>15, <1>16, <1>17 DEF Next, Progress, Requests

\* The three parts together are inductive.
LEMMA Inductive == Spec => []IInv
<1>1. Init => IInv
  <2>1. ASSUME Init PROVE WorkInv /\ TornInv
    <3>1. DOMAIN tasks = {} /\ phase = "off" /\ saving = None
      BY <2>1 DEF Init
    <3> QED BY <3>1 DEF WorkInv, TornInv, Up
  <2> QED BY <2>1, InitType DEF IInv
<1>2. IInv /\ [Next]_vars => IInv'
  BY StepType, StepWork, StepTorn DEF IInv
<1> QED BY <1>1, <1>2, PTL DEF Spec

\* Stores in memory hold absolute paths below the directory of this process, stores
\* on disk relative ones, through every restart and move (relativize_paths,
\* resolve_and_verify_paths); the other variables have their types.
THEOREM PathsAreTyped == Spec => []TypeOK
<1>1. IInv => TypeOK
  BY DEF IInv
<1> QED BY <1>1, Inductive, PTL

\* However often processes are killed while they save, none that requires its
\* snapshots serves over a torn one (load_on_startup, load_store).
THEOREM NoServingOverTorn == Spec => []TornIsNeverServed
<1>1. IInv => TornIsNeverServed
  BY DEF IInv, TornInv, TornIsNeverServed
<1> QED BY <1>1, Inductive, PTL

-----------------------------------------------------------------------------
(* What was saved survives *)

\* The snapshot of a key's region stands for its last answer, or cannot be read.
Stored(s) ==
    /\ snap[s[1]] \in {NoDir, NoFile} => acked[s] = None
    /\ snap[s[1]].is = "whole" => Backs(snap[s[1]].store[s[2]], None, s, acked[s])

\* What a request has done so far, on a key that is volatile, not covered by the save
\* that runs, and its own.
TaskInv(n) ==
    LET t == tasks[n]
    IN  /\ t.slot \in volatile
        /\ saving # None => t.slot \notin saving.covers
        /\ \A m \in DOMAIN tasks : tasks[m].slot = t.slot => m = n
        /\ t.pc = "meta" /\ t.op = "file" => files[t.slot] = n
        /\ t.pc = "unlink" => Held(t.slot) = IF t.op = "delete" THEN None ELSE Ref(n, None)

\* The copy a save is writing stands for the last answers of the keys it covers, and it
\* covers every key of its region that no request has touched.
ImageInv ==
    saving # None =>
        /\ saving.covers \subseteq {saving.region} \X Keys
        /\ ({saving.region} \X Keys) \ volatile \subseteq saving.covers
        /\ \A s \in saving.covers : s \notin lost => Backs(saving.image[s[2]], None, s, acked[s])

InMemory(r) == Up \/ (phase = "load" /\ r \notin todo)

\* A key that is neither lost nor volatile is in its snapshot; one that is loaded or was
\* never unloaded, and has no request, is in its store.
AnswerInv ==
    \A s \in Slots : s \notin lost =>
        /\ s \notin volatile => Stored(s)
        /\ InMemory(s[1]) /\ ~Busy(s) => Reads(s, acked[s])

SurvivalInv ==
    /\ phase \in {"off", "load"} => volatile = {}
    /\ \A n \in DOMAIN tasks : TaskInv(n)
    /\ Persists(conf.load, "OnStartup") => ImageInv /\ AnswerInv

\* A step of a request on key s: of every other key all stays as it is.
Frame(s) ==
    /\ UNCHANGED <<conf, base, phase, todo, snap>>
    /\ Touch(s)
    /\ \A x \in Slots \ {s} :
           /\ files'[x] = files[x]
           /\ acked'[x] = acked[x]
           /\ x \in lost' <=> x \in lost
           /\ Held(x)' = Held(x)
           /\ Busy(x)' <=> Busy(x)

\* A step of a request keeps what is known of all answers, if it keeps what is known of
\* its own key.
LEMMA FrameAnswers ==
    ASSUME TypeOK, ImageInv, AnswerInv, NEW s \in Slots, Frame(s),
           Busy(s)' \/ Reads(s, acked[s])'
    PROVE  ImageInv' /\ AnswerInv'
<1>1. ImageInv'
  <2> SUFFICES ASSUME saving' # None PROVE ImageInv'
    BY DEF ImageInv
  <2>1. /\ saving # None
        /\ saving'.region = saving.region
        /\ saving'.image = saving.image
        /\ saving'.covers = saving.covers \ {s}
        /\ volatile' = volatile \cup {s}
    BY TouchSaving DEF Frame, Touch
  <2>2. /\ saving'.covers \subseteq {saving'.region} \X Keys
        /\ ({saving'.region} \X Keys) \ volatile' \subseteq saving'.covers
    BY <2>1 DEF ImageInv
  <2>3. ASSUME NEW x \in saving'.covers, x \notin lost'
        PROVE  Backs(saving.image[x[2]], None, x, acked[x])'
    <3>1. x \in saving.covers /\ x \in Slots \ {s}
      BY <2>1, <2>3 DEF TypeOK, Saving
    <3>2. Backs(saving.image[x[2]], None, x, acked[x])
      BY <2>1, <2>3, <3>1 DEF ImageInv, Frame
    <3> QED BY <2>1, <3>1, <3>2 DEF Backs, Frame
  <2> QED BY <2>2, <2>3 DEF ImageInv
<1>2. AnswerInv'
  <2> SUFFICES ASSUME NEW x \in Slots, x \notin lost'
               PROVE  /\ x \notin volatile' => Stored(x)'
                      /\ InMemory(x[1])' /\ ~Busy(x)' => Reads(x, acked[x])'
    BY DEF AnswerInv
  <2>1. CASE x = s
    BY <2>1 DEF Frame, Touch
  <2>2. CASE x # s
    <3>1. x \notin lost /\ (x \in volatile' <=> x \in volatile) /\ (InMemory(x[1])' <=> InMemory(x[1]))
      BY <2>2 DEF Frame, Touch, InMemory, Up
    <3>2. Stored(x) => Stored(x)'
      BY <2>2 DEF Frame, Stored, Backs
    <3>3. Reads(x, acked[x]) => Reads(x, acked[x])'
      BY <2>2 DEF Frame, Reads, Backs
    <3> QED BY <2>2, <3>1, <3>2, <3>3 DEF AnswerInv, Frame
  <2> QED BY <2>1, <2>2
<1> QED BY <1>1, <1>2

\* A step of a request keeps what is known of the requests on other keys.
LEMMA FrameTask ==
    ASSUME TypeOK, NEW s \in Slots, Frame(s),
           NEW m \in DOMAIN tasks, m \in DOMAIN tasks', tasks'[m] = tasks[m], tasks[m].slot # s,
           \A n \in DOMAIN tasks' : tasks'[n].slot = tasks[m].slot => n = m,
           TaskInv(m)
    PROVE  TaskInv(m)'
<1>1. tasks[m].slot \in Slots \ {s}
  BY DEF TypeOK
<1>2. saving' # None => saving # None /\ saving'.covers = saving.covers \ {s}
  BY TouchSaving DEF Frame
<1> QED BY <1>1, <1>2 DEF TaskInv, Frame, Touch

\* A reference with a path is not None.
LEMMA RefIsThere ==
    ASSUME NEW b \in Bases \cup {None}, NEW s \in Slots, NEW etag \in Nat
    PROVE  Ref(etag, Path(b, s)) # None /\ Ref(etag, None) # None
<1>1. Ref(etag, Path(b, s)) \in Refs({b}) /\ Ref(etag, None) \in Refs({b})
  BY DEF Ref, Path, Refs
<1> QED BY <1>1, NoneAssumption

\* What a store in memory backs, its saved copy backs: the path loses its base.
LEMMA RelativizeBacks ==
    ASSUME NEW store \in StoreWith({base}), NEW s \in Slots, NEW content,
           Backs(store[s[2]], base, s, content)
    PROVE  Backs(Relativize(store)[s[2]], None, s, content)
<1> DEFINE k == s[2]
<1>1. k \in Keys /\ store[k] \in {None} \cup Refs({base})
  BY DEF Slots, StoreWith
<1>2. CASE content = None \/ store[k].data = None
  BY <1>1, <1>2 DEF Backs, Relativize
<1>3. CASE content # None /\ store[k].data # None
  <2>1. store[k] # None /\ store[k].etag = content /\ store[k].data = Path(base, s) /\ files[s] = content
    BY <1>3 DEF Backs
  <2>2. Relativize(store)[k] = Ref(content, Path(None, s))
    BY <1>1, <1>3, <2>1 DEF Relativize, Path
  <2>3. Ref(content, Path(None, s)) # None
    <3>1. content \in Nat
      BY <1>1, <2>1 DEF Refs
    <3> QED BY <3>1, RefIsThere
  <2> QED BY <1>3, <2>1, <2>2, <2>3 DEF Backs, Ref
<1> QED BY <1>2, <1>3

\* What a snapshot backs, the store loaded from it backs: the path gets the base of this
\* process.
LEMMA ResolveBacks ==
    ASSUME base \in Bases, NEW store \in StoreWith({None}), NEW s \in Slots, NEW content,
           Backs(store[s[2]], None, s, content)
    PROVE  Backs(Resolve(store)[s[2]], base, s, content)
<1> DEFINE k == s[2]
<1>1. k \in Keys /\ store[k] \in {None} \cup Refs({None})
  BY DEF Slots, StoreWith
<1>2. CASE content = None \/ store[k].data = None
  BY <1>1, <1>2 DEF Backs, Resolve
<1>3. CASE content # None /\ store[k].data # None
  <2>1. store[k] # None /\ store[k].etag = content /\ store[k].data = Path(None, s) /\ files[s] = content
    BY <1>3 DEF Backs
  <2>2. Resolve(store)[k] = Ref(content, Path(base, s))
    BY <1>1, <1>3, <2>1 DEF Resolve, Path
  <2>3. Ref(content, Path(base, s)) # None
    <3>1. content \in Nat
      BY <1>1, <2>1 DEF Refs
    <3> QED BY <3>1, RefIsThere
  <2> QED BY <1>3, <2>1, <2>2, <2>3 DEF Backs, Ref
<1> QED BY <1>2, <1>3

\* A request that begins makes its key busy.
LEMMA BeginWriteFrame ==
    ASSUME TypeOK, NEW s \in Slots, NEW op \in Ops, BeginWrite(s, op)
    PROVE  Frame(s) /\ Busy(s)'
<1>1. /\ DOMAIN tasks' = DOMAIN tasks \cup {writes + 1}
      /\ tasks'[writes + 1].slot = s
      /\ \A n \in DOMAIN tasks : tasks'[n] = tasks[n]
  BY DEF BeginWrite, TypeOK, Request
<1>2. \A x \in Slots \ {s} : Busy(x)' <=> Busy(x)
  BY <1>1 DEF Busy
<1>3. \A x \in Slots : Held(x)' = Held(x)
  BY DEF BeginWrite, Held
<1> QED BY <1>1, <1>2, <1>3 DEF BeginWrite, Frame, process, Busy

\* A request that goes on keeps its key busy.
LEMMA GotoBusy ==
    ASSUME NEW n \in DOMAIN tasks, NEW pc, Goto(n, pc)
    PROVE  /\ DOMAIN tasks' = DOMAIN tasks
           /\ tasks'[n] = Request(tasks[n].slot, tasks[n].op, pc)
           /\ \A m \in DOMAIN tasks \ {n} : tasks'[m] = tasks[m]
           /\ \A x : Busy(x)' <=> Busy(x)
<1>1. /\ DOMAIN tasks' = DOMAIN tasks
      /\ tasks'[n] = Request(tasks[n].slot, tasks[n].op, pc)
      /\ \A m \in DOMAIN tasks \ {n} : tasks'[m] = tasks[m]
  BY DEF Goto
<1>2. \A m \in DOMAIN tasks : tasks'[m].slot = tasks[m].slot
  BY <1>1 DEF Request
<1> QED BY <1>1, <1>2 DEF Busy

\* A request that is over leaves its key free: nobody else has it.
LEMMA DropBusy ==
    ASSUME NEW n \in DOMAIN tasks, TaskInv(n), Drop(n)
    PROVE  /\ DOMAIN tasks' = DOMAIN tasks \ {n}
           /\ \A m \in DOMAIN tasks' : tasks'[m] = tasks[m]
           /\ \A x : Busy(x)' <=> Busy(x) /\ x # tasks[n].slot
<1>1. DOMAIN tasks' = DOMAIN tasks \ {n} /\ \A m \in DOMAIN tasks' : tasks'[m] = tasks[m]
  BY DEF Drop
<1>2. \A m \in DOMAIN tasks : tasks[m].slot = tasks[n].slot => m = n
  BY DEF TaskInv
<1> QED BY <1>1, <1>2 DEF Busy

\* Every step of a request in flight is a step on its key, and when it is over the key
\* reads as it was answered.
LEMMA RequestFrame ==
    ASSUME TypeOK, WorkInv, NEW n \in DOMAIN tasks, TaskInv(n), NEW s, s = tasks[n].slot,
           PutFile(n) \/ CommitMeta(n) \/ Unlink(n)
    PROVE  Frame(s) /\ (Busy(s)' \/ Reads(s, acked[s])')
<1>1. s \in Slots /\ n \in Nat /\ Busy(s)
  BY DEF TypeOK, Busy
<1>2. Touch(s) /\ UNCHANGED <<conf, base, phase, todo, snap>>
  BY DEF PutFile, CommitMeta, Unlink, process
<1>3. CASE PutFile(n)
  <2>1. \A x \in Slots : Held(x)' = Held(x) /\ (Busy(x)' <=> Busy(x))
    BY <1>3, GotoBusy DEF PutFile, Held
  <2>2. \A x \in Slots \ {s} : files'[x] = files[x]
    BY <1>3 DEF PutFile, TypeOK
  <2> QED BY <1>1, <1>2, <1>3, <2>1, <2>2 DEF PutFile, Frame
<1>4. CASE CommitMeta(n)
  <2>1. \A x \in Slots : Held(x)' = IF x = s THEN Written(n) ELSE Held(x)
    BY <1>4, CommitStore
  <2>2. CASE Goto(n, "unlink") /\ UNCHANGED <<acked, lost>>
    <3>1. \A x \in Slots : Busy(x)' <=> Busy(x)
      BY <2>2, GotoBusy
    <3> QED BY <1>1, <1>2, <1>4, <2>1, <2>2, <3>1 DEF CommitMeta, Frame
  <2>3. CASE Answer(n, IF Written(n) = None THEN None ELSE n)
    <3>1. \A x \in Slots \ {s} : (Busy(x)' <=> Busy(x)) /\ acked'[x] = acked[x] /\ (x \in lost' <=> x \in lost)
      BY <2>3, DropBusy DEF Answer, TypeOK
    <3>2. Frame(s)
      BY <1>1, <1>2, <1>4, <2>1, <3>1 DEF CommitMeta, Frame
    <3>3. acked'[s] = (IF Written(n) = None THEN None ELSE n) /\ files' = files /\ base' = base
      BY <1>1, <1>4, <2>3 DEF Answer, TypeOK, CommitMeta, process
    <3>4. Backs(Written(n), base, s, IF Written(n) = None THEN None ELSE n)
      <4>1. n # None /\ tasks[n].pc = "meta"
        BY <1>1, <1>4, NoneAssumption DEF CommitMeta
      <4>2. CASE tasks[n].op = "delete"
        BY <4>2 DEF Backs, Written
      <4>3. CASE tasks[n].op # "delete"
        <5> DEFINE data == IF tasks[n].op = "file" THEN Path(base, s) ELSE None
        <5>1. Written(n) = Ref(n, data) /\ Ref(n, data) # None
          BY <1>1, <4>3, RefIsThere DEF Written, TypeOK
        <5>2. data # None => data = Path(base, s) /\ files[s] = n
          BY <4>1 DEF TaskInv
        <5> HIDE DEF data
        <5> QED BY <4>1, <5>1, <5>2 DEF Backs, Ref
      <4> QED BY <4>2, <4>3
    <3>5. Reads(s, acked[s])'
      BY <1>1, <2>1, <3>3, <3>4 DEF Reads, Backs
    <3> QED BY <3>2, <3>5
  <2> QED BY <1>4, <2>2, <2>3 DEF CommitMeta
<1>5. CASE Unlink(n)
  <2>1. \A x \in Slots : Held(x)' = Held(x)
    BY <1>5 DEF Unlink, Held
  <2>2. Answer(n, IF tasks[n].op = "delete" THEN None ELSE n)
    BY <1>5 DEF Unlink
  <2>3. \A x \in Slots \ {s} : (Busy(x)' <=> Busy(x)) /\ acked'[x] = acked[x] /\ (x \in lost' <=> x \in lost)
    BY <2>2, DropBusy DEF Answer, TypeOK
  <2>4. \A x \in Slots \ {s} : files'[x] = files[x]
    BY <1>5 DEF Unlink, TypeOK
  <2>5. Frame(s)
    BY <1>2, <2>1, <2>3, <2>4 DEF Frame
  <2>6. acked'[s] = IF tasks[n].op = "delete" THEN None ELSE n
    BY <1>1, <2>2 DEF Answer, TypeOK
  <2>7. Held(s)' = IF tasks[n].op = "delete" THEN None ELSE Ref(n, None)
    BY <1>1, <1>5, <2>1 DEF TaskInv, Unlink
  <2>8. Ref(n, None) # None
    BY <1>1, RefIsThere DEF TypeOK
  <2>9. Reads(s, acked[s])'
    BY <1>1, <2>6, <2>7, <2>8, NoneAssumption DEF Reads, Backs, Ref
  <2> QED BY <2>5, <2>9
<1> QED BY <1>3, <1>4, <1>5

\* Every step of a request in flight keeps what is known of it and of the others.
LEMMA RequestTasks ==
    ASSUME TypeOK, WorkInv, NEW n \in DOMAIN tasks, \A m \in DOMAIN tasks : TaskInv(m),
           PutFile(n) \/ CommitMeta(n) \/ Unlink(n)
    PROVE  \A m \in DOMAIN tasks' : TaskInv(m)'
<1>1. PICK s \in Slots : s = tasks[n].slot
  BY DEF TypeOK
<1>2. Frame(s) /\ Touch(s)
  BY <1>1, RequestFrame DEF Frame
<1>3. /\ DOMAIN tasks' \subseteq DOMAIN tasks
      /\ \A m \in DOMAIN tasks' : m # n => tasks'[m] = tasks[m]
      /\ n \in DOMAIN tasks' => tasks'[n].slot = s
  <2>1. ASSUME NEW pc, Goto(n, pc)
        PROVE  /\ DOMAIN tasks' = DOMAIN tasks
               /\ \A m \in DOMAIN tasks' : m # n => tasks'[m] = tasks[m]
               /\ tasks'[n].slot = s
    <3>1. tasks'[n] = Request(tasks[n].slot, tasks[n].op, pc)
      BY <2>1, GotoBusy
    <3> QED BY <1>1, <2>1, <3>1, GotoBusy DEF Request
  <2>2. ASSUME Drop(n)
        PROVE  DOMAIN tasks' = DOMAIN tasks \ {n} /\ \A m \in DOMAIN tasks' : tasks'[m] = tasks[m]
    BY <2>2, DropBusy
  <2>3. Drop(n) \/ Goto(n, "meta") \/ Goto(n, "unlink")
    BY DEF PutFile, CommitMeta, Unlink, Answer
  <2> QED BY <2>1, <2>2, <2>3
<1>4. \A m \in DOMAIN tasks : tasks[m].slot = s => m = n
  BY <1>1 DEF TaskInv
<1>5. ASSUME NEW m \in DOMAIN tasks', m # n PROVE TaskInv(m)'
  <2>1. \A x \in DOMAIN tasks : tasks[x].slot = tasks[m].slot => x = m
    BY <1>3 DEF TaskInv
  <2>2. \A x \in DOMAIN tasks' : tasks'[x].slot = tasks[m].slot => x = m
    BY <1>1, <1>3, <1>4, <1>5, <2>1
  <2> QED BY <1>2, <1>3, <1>4, <1>5, <2>2, FrameTask
<1>6. ASSUME n \in DOMAIN tasks' PROVE TaskInv(n)'
  <2>1. s \in volatile' /\ (saving' # None => s \notin saving'.covers)
    BY <1>2, TouchSaving DEF Touch
  <2>2. \A x \in DOMAIN tasks' : tasks'[x].slot = s => x = n
    BY <1>3, <1>4
  <2>3. CASE PutFile(n)
    <3>1. tasks'[n] = Request(s, tasks[n].op, "meta") /\ files'[s] = n
      BY <1>1, <2>3, GotoBusy DEF PutFile, TypeOK
    <3> QED BY <1>3, <1>6, <2>1, <2>2, <3>1 DEF TaskInv, Request
  <2>4. CASE CommitMeta(n)
    <3>1. Goto(n, "unlink") /\ tasks[n].op # "file"
      BY <1>6, <2>4, DropBusy DEF CommitMeta, Answer
    <3>2. tasks'[n] = Request(s, tasks[n].op, "unlink")
      BY <1>1, <3>1, GotoBusy
    <3>3. Held(s)' = IF tasks[n].op = "delete" THEN None ELSE Ref(n, None)
      BY <1>1, <2>4, <3>1, CommitStore DEF Written
    <3> QED BY <1>3, <1>6, <2>1, <2>2, <3>2, <3>3 DEF TaskInv, Request
  <2>5. CASE Unlink(n)
    BY <1>6, <2>5, DropBusy DEF Unlink, Answer
  <2> QED BY <2>3, <2>4, <2>5
<1> QED BY <1>5, <1>6

\* A request that begins is known to be alone on its key.
LEMMA BeginWriteTasks ==
    ASSUME TypeOK, NEW s \in Slots, NEW op \in Ops, BeginWrite(s, op),
           \A m \in DOMAIN tasks : TaskInv(m)
    PROVE  \A m \in DOMAIN tasks' : TaskInv(m)'
<1>1. /\ DOMAIN tasks' = DOMAIN tasks \cup {writes + 1}
      /\ writes + 1 \notin DOMAIN tasks
      /\ tasks'[writes + 1] = Request(s, op, IF op = "file" THEN "file" ELSE "meta")
      /\ \A n \in DOMAIN tasks : tasks'[n] = tasks[n]
  BY DEF BeginWrite, TypeOK
<1>2. Frame(s) /\ Touch(s) /\ \A m \in DOMAIN tasks : tasks[m].slot # s
  BY BeginWriteFrame DEF BeginWrite
<1>3. tasks'[writes + 1].slot = s
  BY <1>1 DEF Request
<1>4. ASSUME NEW m \in DOMAIN tasks PROVE TaskInv(m)'
  <2>1. \A x \in DOMAIN tasks : tasks[x].slot = tasks[m].slot => x = m
    BY DEF TaskInv
  <2>2. \A x \in DOMAIN tasks' : tasks'[x].slot = tasks[m].slot => x = m
    BY <1>1, <1>2, <1>3, <2>1
  <2> QED BY <1>1, <1>2, <2>2, FrameTask
<1>5. ASSUME NEW n, n = writes + 1 PROVE TaskInv(n)'
  <2>1. s \in volatile' /\ (saving' # None => s \notin saving'.covers)
    BY <1>2, TouchSaving DEF Touch
  <2>2. \A x \in DOMAIN tasks' : tasks'[x].slot = s => x = n
    BY <1>1, <1>2, <1>5
  <2>3. tasks'[n] = Request(s, op, IF op = "file" THEN "file" ELSE "meta")
    BY <1>1, <1>5
  <2> QED BY <2>1, <2>2, <2>3 DEF TaskInv, Request
<1> QED BY <1>1, <1>4, <1>5

\* The end of a process, however it comes: what was volatile is lost.
LEMMA EndSurvival ==
    ASSUME SurvivalInv, NEW how, End(how)
    PROVE  SurvivalInv'
<1>1. DOMAIN tasks' = {} /\ phase' = "off" /\ volatile' = {} /\ saving' = None
  BY DEF End
<1>2. ASSUME AnswerInv PROVE AnswerInv'
  <2> SUFFICES ASSUME NEW x \in Slots, x \notin lost'
               PROVE  Stored(x)' /\ ~InMemory(x[1])'
    BY DEF AnswerInv
  <2>1. Stored(x)
    BY <1>2 DEF AnswerInv, End
  <2> QED BY <1>1, <2>1 DEF Stored, Backs, End, InMemory, Up
<1> QED BY <1>1, <1>2 DEF SurvivalInv, ImageInv, Persists, End

\* A step of the process alone, once all stores are in memory.
LEMMA QuietSurvival ==
    ASSUME SurvivalInv, Up', \A r \in Regions : InMemory(r),
           UNCHANGED <<conf, base, bundle, files, snap, saving, tasks, acked, volatile, lost>>
    PROVE  SurvivalInv'
<1>1. \A x : (Held(x)' = Held(x)) /\ (Busy(x)' <=> Busy(x)) /\ (Stored(x) => Stored(x)')
  BY DEF Held, Busy, Stored, Backs
<1>2. \A x : Reads(x, acked[x]) => Reads(x, acked[x])'
  BY DEF Reads, Backs, Held
<1>3. \A n \in DOMAIN tasks : TaskInv(n) => TaskInv(n)'
  BY DEF TaskInv, Held
<1>4. AnswerInv => AnswerInv'
  BY <1>1, <1>2 DEF AnswerInv, Slots
<1>5. ImageInv => ImageInv'
  BY DEF ImageInv, Backs
<1> QED BY <1>3, <1>4, <1>5 DEF SurvivalInv, Persists, Up

\* A process that starts has nothing in memory, and must not: its directories are empty
\* or still to be loaded.
LEMMA StartSurvival ==
    ASSUME IInv, SurvivalInv, NEW b \in Bases, Start(b)
    PROVE  SurvivalInv'
<1>1. DOMAIN tasks = {} /\ saving = None /\ volatile = {}
  BY DEF Start, IInv, WorkInv, Up, SurvivalInv
<1>2. /\ UNCHANGED <<conf, files, snap, saving, tasks, acked, volatile, lost>>
      /\ bundle' = [r \in Regions |-> None]
  BY DEF Start
<1>3. ASSUME Persists(conf.load, "OnStartup"), AnswerInv PROVE AnswerInv'
  <2> SUFFICES ASSUME NEW x \in Slots, x \notin lost'
               PROVE  /\ Stored(x)'
                      /\ InMemory(x[1])' => Reads(x, acked[x])'
    BY DEF AnswerInv
  <2>1. Stored(x)
    BY <1>1, <1>2, <1>3 DEF AnswerInv
  <2>2. x[1] \in Regions
    BY DEF Slots
  <2>3. ASSUME InMemory(x[1])' PROVE acked'[x] = None /\ Held(x)' = None
    <3>1. phase' = "load" /\ todo' = {r \in Regions : snap[r] # NoDir}
      BY <1>3 DEF Start
    <3>2. snap[x[1]] = NoDir
      BY <2>2, <2>3, <3>1 DEF InMemory, Up
    <3> QED BY <1>2, <2>1, <2>2, <3>2 DEF Stored, Held
  <2> QED BY <1>2, <2>1, <2>3 DEF Stored, Reads, Backs
<1>4. volatile' = {} /\ DOMAIN tasks' = {} /\ saving' = None /\ conf' = conf
  BY <1>1, <1>2
<1> QED BY <1>3, <1>4 DEF SurvivalInv, ImageInv, Persists

\* A region is loaded as its snapshot stands for it.
LEMMA LoadSurvival ==
    ASSUME IInv, SurvivalInv, NEW r \in Regions, LoadRegion(r)
    PROVE  SurvivalInv'
<1>1. CASE snap[r] = Torn
  BY <1>1, EndSurvival DEF LoadRegion
<1>2. CASE snap[r] # Torn
  <2> DEFINE new == IF snap[r] = NoFile THEN EmptyStore ELSE Resolve(snap[r].store)
  <2>1. /\ phase = "load" /\ todo' = todo \ {r} /\ bundle' = [bundle EXCEPT ![r] = new]
        /\ UNCHANGED <<conf, base, phase, files, snap, saving, tasks, acked, volatile, lost>>
    BY <1>2 DEF LoadRegion
  <2>2. DOMAIN tasks = {} /\ saving = None /\ volatile = {}
    BY <2>1 DEF IInv, WorkInv, Up, SurvivalInv
  <2>3. snap[r] = NoFile \/ (snap[r].is = "whole" /\ snap[r].store \in StoreWith({None}))
    BY <1>2 DEF LoadRegion, IInv, TypeOK, WorkInv
  <2>4. new \in StoreWith({base}) /\ new # None
    BY <2>3, EmptyStoreType, ResolveType, StoreIsThere DEF IInv
  <2>5. ASSUME AnswerInv PROVE AnswerInv'
    <3> SUFFICES ASSUME NEW x \in Slots, x \notin lost'
                 PROVE  /\ Stored(x)'
                        /\ InMemory(x[1])' => Reads(x, acked[x])'
      BY DEF AnswerInv
    <3>1. Stored(x) /\ ~Busy(x) /\ x[1] \in Regions /\ x[2] \in Keys
      BY <2>1, <2>2, <2>5 DEF AnswerInv, Busy, Slots
    <3>2. Stored(x)'
      BY <2>1, <3>1 DEF Stored, Backs
    <3>3. CASE x[1] = r
      <4>1. Held(x)' = new[x[2]]
        BY <2>1, <2>4, <3>1, <3>3 DEF Held, IInv, TypeOK
      <4>2. Backs(new[x[2]], base, x, acked[x])
        <5>1. CASE snap[r] = NoFile
          BY <3>1, <3>3, <5>1 DEF Stored, Backs, EmptyStore
        <5>2. CASE snap[r] # NoFile
          <6>1. Backs(snap[r].store[x[2]], None, x, acked[x])
            BY <2>3, <3>1, <3>3, <5>2 DEF Stored
          <6>2. Backs(Resolve(snap[r].store)[x[2]], base, x, acked[x])
            BY <2>3, <5>2, <6>1, ResolveBacks DEF IInv, TypeOK
          <6> QED BY <5>2, <6>2
        <5> QED BY <5>1, <5>2
      <4> HIDE DEF new
      <4> QED BY <2>1, <3>2, <4>1, <4>2 DEF Reads, Backs
    <3>4. CASE x[1] # r
      <4> HIDE DEF new
      <4>1. Held(x)' = Held(x) /\ (InMemory(x[1])' => InMemory(x[1]))
        BY <2>1, <3>1, <3>4 DEF Held, InMemory, Up, IInv, TypeOK
      <4>2. InMemory(x[1]) => Reads(x, acked[x])
        BY <2>1, <2>5, <3>1 DEF AnswerInv
      <4> QED BY <2>1, <3>2, <4>1, <4>2 DEF Reads, Backs
    <3> QED BY <3>3, <3>4
  <2> HIDE DEF new
  <2> QED BY <2>1, <2>2, <2>5 DEF SurvivalInv, ImageInv, Persists
<1> QED BY <1>1, <1>2

\* A new store holds nothing, as did the region without it.
LEMMA CreateSurvival ==
    ASSUME IInv, SurvivalInv, NEW r \in Regions, CreateBucket(r)
    PROVE  SurvivalInv'
<1>1. EmptyStore \in StoreWith({base}) /\ EmptyStore # None
  BY EmptyStoreType, StoreIsThere DEF IInv
<1>2. /\ Up /\ bundle[r] = None /\ bundle' = [bundle EXCEPT ![r] = EmptyStore]
      /\ UNCHANGED <<conf, base, phase, files, snap, saving, tasks, acked, volatile, lost>>
  BY DEF CreateBucket
<1>3. \A x \in Slots : Held(x)' = Held(x)
  BY <1>1, <1>2 DEF Held, EmptyStore, IInv, TypeOK, Slots
<1>4. \A n \in DOMAIN tasks : TaskInv(n) => TaskInv(n)'
  <2> SUFFICES ASSUME NEW n \in DOMAIN tasks, TaskInv(n) PROVE TaskInv(n)'
    OBVIOUS
  <2>1. Held(tasks[n].slot)' = Held(tasks[n].slot)
    <3>1. PICK s \in Slots : s = tasks[n].slot
      BY DEF IInv, TypeOK
    <3> QED BY <1>2, <1>3, <3>1
  <2> QED BY <1>2, <2>1 DEF TaskInv
<1>5. AnswerInv => AnswerInv'
  <2>1. \A x \in Slots : /\ Stored(x) => Stored(x)'
                         /\ Reads(x, acked[x]) => Reads(x, acked[x])'
                         /\ Busy(x)' <=> Busy(x)
                         /\ InMemory(x[1])
    BY <1>2, <1>3 DEF Stored, Reads, Backs, Busy, InMemory
  <2> QED BY <1>2, <2>1 DEF AnswerInv
<1>6. ImageInv => ImageInv'
  BY <1>2 DEF ImageInv, Backs
<1> QED BY <1>2, <1>4, <1>5, <1>6 DEF SurvivalInv, Persists

\* The copy of a store stands for what the store stands for, but for the keys on which
\* requests are half way.
LEMMA SaveSurvival ==
    ASSUME IInv, SurvivalInv, NEW r \in Regions, SaveRegion(r)
    PROVE  SurvivalInv'
<1> DEFINE covers == ({r} \X Keys) \ {tasks[n].slot : n \in DOMAIN tasks}
<1>1. /\ phase = "save" /\ saving' = Save(r, "open", Relativize(bundle[r]), covers)
      /\ snap' = [snap EXCEPT ![r] = IF snap[r] = NoDir THEN NoFile ELSE snap[r]]
      /\ UNCHANGED <<conf, base, phase, bundle, files, tasks, acked, volatile, lost>>
  BY DEF SaveRegion
<1>2. bundle[r] # None /\ bundle[r] \in StoreWith({base})
  BY <1>1 DEF SaveRegion, IInv, TypeOK, WorkInv
<1>3. /\ saving'.region = r /\ saving'.image = Relativize(bundle[r]) /\ saving'.covers = covers
  BY <1>1 DEF Save
<1>4. \A x : Busy(x) <=> x \in {tasks[n].slot : n \in DOMAIN tasks}
  BY DEF Busy
<1>5. \A n \in DOMAIN tasks : TaskInv(n) => TaskInv(n)'
  BY <1>1, <1>3 DEF TaskInv, Held
<1>6. ASSUME AnswerInv, \A n \in DOMAIN tasks : TaskInv(n) PROVE ImageInv'
  <2>1. covers \subseteq {r} \X Keys /\ ({r} \X Keys) \ volatile \subseteq covers
    BY <1>6 DEF TaskInv
  <2>2. ASSUME NEW x \in covers, x \notin lost
        PROVE  Backs(Relativize(bundle[r])[x[2]], None, x, acked[x])
    <3>1. x \in Slots /\ x[1] = r /\ ~Busy(x)
      BY <1>4 DEF Slots
    <3>2. Reads(x, acked[x])
      BY <1>1, <1>6, <2>2, <3>1 DEF AnswerInv, InMemory, Up
    <3>3. Backs(bundle[r][x[2]], base, x, acked[x])
      BY <1>2, <3>1, <3>2 DEF Reads, Held
    <3> QED BY <1>2, <3>1, <3>3, RelativizeBacks
  <2>3. ASSUME NEW x \in saving'.covers, x \notin lost'
        PROVE  Backs(saving.image[x[2]], None, x, acked[x])'
    <3>1. Backs(Relativize(bundle[r])[x[2]], None, x, acked[x])
      BY <1>1, <1>3, <2>2, <2>3
    <3> QED BY <1>1, <1>3, <3>1 DEF Backs
  <2>4. /\ saving'.covers \subseteq {saving'.region} \X Keys
        /\ ({saving'.region} \X Keys) \ volatile' \subseteq saving'.covers
    BY <1>1, <1>3, <2>1
  <2> QED BY <2>3, <2>4 DEF ImageInv
<1>7. AnswerInv => AnswerInv'
  <2>1. \A x \in Slots : Stored(x) => Stored(x)'
    BY <1>1 DEF Stored, Backs, NoDir, NoFile, IInv, TypeOK, Slots
  <2>2. \A x \in Slots : /\ Reads(x, acked[x]) => Reads(x, acked[x])'
                         /\ Busy(x)' <=> Busy(x)
                         /\ InMemory(x[1])
    BY <1>1 DEF Reads, Backs, Held, Busy, InMemory, Up
  <2> QED BY <1>1, <2>1, <2>2 DEF AnswerInv
<1> HIDE DEF covers
<1> QED BY <1>1, <1>5, <1>6, <1>7 DEF SurvivalInv, Persists

\* The file is truncated: it stands for nothing.
LEMMA OpenSurvival ==
    ASSUME IInv, SurvivalInv, WriteOpen
    PROVE  SurvivalInv'
<1>1. saving \in Saving /\ phase = "save"
  BY DEF WriteOpen, IInv, TypeOK, WorkInv
<1>2. /\ saving # None
      /\ saving' = Save(saving.region, "write", saving.image, saving.covers)
      /\ snap' = [snap EXCEPT ![saving.region] = Torn]
      /\ UNCHANGED <<conf, base, phase, bundle, files, tasks, acked, volatile, lost>>
  BY DEF WriteOpen, process
<1>3. /\ saving'.region = saving.region
      /\ saving'.image = saving.image
      /\ saving'.covers = saving.covers
  BY <1>2 DEF Save
<1>4. \A n \in DOMAIN tasks : TaskInv(n) => TaskInv(n)'
  BY <1>2, <1>3 DEF TaskInv, Held
<1>5. ImageInv => ImageInv'
  BY <1>2, <1>3 DEF ImageInv, Backs
<1>6. AnswerInv => AnswerInv'
  <2>1. \A x \in Slots : Stored(x) => Stored(x)'
    BY <1>1, <1>2 DEF Stored, Backs, NoDir, NoFile, Torn, IInv, TypeOK, Slots, Saving
  <2>2. \A x \in Slots : /\ Reads(x, acked[x]) => Reads(x, acked[x])'
                         /\ Busy(x)' <=> Busy(x)
                         /\ InMemory(x[1])
    BY <1>1, <1>2 DEF Reads, Backs, Held, Busy, InMemory, Up
  <2> QED BY <1>2, <2>1, <2>2 DEF AnswerInv
<1> QED BY <1>1, <1>2, <1>4, <1>5, <1>6 DEF SurvivalInv, Persists

\* The file is complete, and stands for the last answer of every key it covers.
LEMMA DoneSurvival ==
    ASSUME IInv, SurvivalInv, WriteDone
    PROVE  SurvivalInv'
<1>1. saving \in Saving /\ phase = "save"
  BY DEF WriteDone, IInv, TypeOK, WorkInv
<1>2. /\ saving # None
      /\ saving' = None
      /\ snap' = [snap EXCEPT ![saving.region] = Whole(saving.image)]
      /\ volatile' = volatile \ saving.covers
      /\ UNCHANGED <<conf, base, phase, bundle, files, tasks, acked, lost>>
  BY DEF WriteDone, process
<1>3. \A n \in DOMAIN tasks : TaskInv(n) => TaskInv(n)'
  BY <1>2 DEF TaskInv, Held
<1>4. ASSUME ImageInv, AnswerInv PROVE AnswerInv'
  <2> SUFFICES ASSUME NEW x \in Slots, x \notin lost'
               PROVE  /\ x \notin volatile' => Stored(x)'
                      /\ InMemory(x[1])' /\ ~Busy(x)' => Reads(x, acked[x])'
    BY DEF AnswerInv
  <2>1. InMemory(x[1])' /\ ~Busy(x)' => Reads(x, acked[x])'
    BY <1>1, <1>2, <1>4 DEF AnswerInv, Reads, Backs, Held, Busy, InMemory, Up
  <2>2. ASSUME x \notin volatile' PROVE Stored(x)'
    <3>1. PICK q \in Regions, j \in Keys : x = <<q, j>>
      BY DEF Slots
    <3>2. CASE q = saving.region
      <4>1. x \in saving.covers
        BY <1>2, <1>4, <2>2, <3>1, <3>2 DEF ImageInv
      <4>2. Backs(saving.image[x[2]], None, x, acked[x])
        BY <1>2, <1>4, <4>1 DEF ImageInv
      <4>3. snap'[x[1]] = Whole(saving.image)
        BY <1>1, <1>2, <3>1, <3>2 DEF IInv, TypeOK
      <4> QED BY <1>2, <4>2, <4>3 DEF Stored, Backs, Whole, NoDir, NoFile
    <3>3. CASE q # saving.region
      <4>1. x \notin volatile
        BY <1>2, <1>4, <2>2, <3>1, <3>3 DEF ImageInv
      <4>2. snap'[x[1]] = snap[x[1]]
        BY <1>2, <3>1, <3>3 DEF IInv, TypeOK
      <4> QED BY <1>2, <1>4, <4>1, <4>2 DEF AnswerInv, Stored, Backs
    <3> QED BY <3>2, <3>3
  <2> QED BY <2>1, <2>2
<1> QED BY <1>1, <1>2, <1>3, <1>4 DEF SurvivalInv, ImageInv, Persists

\* A request that begins, and every step of one in flight.
LEMMA WriteSurvival ==
    ASSUME IInv, SurvivalInv,
           \/ \E s \in Slots, op \in Ops : BeginWrite(s, op)
           \/ \E n \in DOMAIN tasks : PutFile(n) \/ CommitMeta(n) \/ Unlink(n)
    PROVE  SurvivalInv'
<1> USE DEF IInv
<1>1. ASSUME NEW s \in Slots, NEW op \in Ops, BeginWrite(s, op) PROVE SurvivalInv'
  <2>1. Frame(s) /\ Busy(s)' /\ Up
    BY <1>1, BeginWriteFrame DEF BeginWrite
  <2>2. \A m \in DOMAIN tasks' : TaskInv(m)'
    BY <1>1, BeginWriteTasks DEF SurvivalInv
  <2>3. ImageInv /\ AnswerInv => ImageInv' /\ AnswerInv'
    BY <2>1, FrameAnswers
  <2> QED BY <2>1, <2>2, <2>3 DEF SurvivalInv, Persists, Frame, Up
<1>2. ASSUME NEW n \in DOMAIN tasks, PutFile(n) \/ CommitMeta(n) \/ Unlink(n) PROVE SurvivalInv'
  <2>1. TaskInv(n) /\ Up
    BY DEF SurvivalInv, WorkInv
  <2>2. PICK s \in Slots : s = tasks[n].slot
    BY DEF TypeOK
  <2>3. Frame(s) /\ (Busy(s)' \/ Reads(s, acked[s])')
    BY <1>2, <2>1, <2>2, RequestFrame
  <2>4. \A m \in DOMAIN tasks' : TaskInv(m)'
    BY <1>2, RequestTasks DEF SurvivalInv
  <2>5. ImageInv /\ AnswerInv => ImageInv' /\ AnswerInv'
    BY <2>3, FrameAnswers
  <2> QED BY <2>1, <2>3, <2>4, <2>5 DEF SurvivalInv, Persists, Frame, Up
<1> QED BY <1>1, <1>2

\* Every step keeps what is known of the answers.
LEMMA StepSurvival == IInv /\ SurvivalInv /\ [Next]_vars => SurvivalInv'
<1> SUFFICES ASSUME IInv, SurvivalInv, [Next]_vars PROVE SurvivalInv'
  OBVIOUS
<1>1. CASE UNCHANGED vars
  <2>1. \A n \in DOMAIN tasks : TaskInv(n) => TaskInv(n)'
    BY <1>1 DEF vars, TaskInv, Held
  <2>2. ImageInv => ImageInv'
    BY <1>1 DEF vars, ImageInv, Backs
  <2>3. \A x : /\ Stored(x) => Stored(x)'
               /\ Reads(x, acked[x]) => Reads(x, acked[x])'
               /\ Busy(x)' <=> Busy(x)
               /\ InMemory(x[1])' <=> InMemory(x[1])
    BY <1>1 DEF vars, Stored, Reads, Backs, Held, Busy, InMemory, Up
  <2>4. AnswerInv => AnswerInv'
    BY <1>1, <2>3 DEF vars, AnswerInv, Slots
  <2> QED BY <1>1, <2>1, <2>2, <2>4 DEF vars, SurvivalInv, Persists
<1>2. ASSUME NEW b \in Bases, Start(b) PROVE SurvivalInv'
  BY <1>2, StartSurvival
<1>3. ASSUME NEW r \in Regions, LoadRegion(r) \/ SaveRegion(r) PROVE SurvivalInv'
  BY <1>3, LoadSurvival, SaveSurvival
<1>4. CASE LoadDone \/ SaveDone \/ BeginShutdown
  <2>1. Up' /\ \A r \in Regions : InMemory(r)
    BY <1>4 DEF LoadDone, SaveDone, BeginShutdown, InMemory, Up
  <2>2. UNCHANGED <<conf, base, bundle, files, snap, saving, tasks, acked, volatile, lost>>
    BY <1>4 DEF LoadDone, SaveDone, BeginShutdown
  <2> QED BY <2>1, <2>2, QuietSurvival
<1>5. CASE WriteOpen
  BY <1>5, OpenSurvival
<1>6. CASE WriteDone
  BY <1>6, DoneSurvival
<1>7. CASE SaveFails \/ StopAll \/ \E how \in {"sigterm", "crash"} : Kill(how)
  BY <1>7, EndSurvival DEF SaveFails, StopAll, Kill
<1>8. CASE Requests
  <2>1. ASSUME NEW r \in Regions, CreateBucket(r) PROVE SurvivalInv'
    BY <2>1, CreateSurvival
  <2> QED BY <1>8, <2>1, WriteSurvival DEF Requests
<1> QED BY <1>1, <1>2, <1>3, <1>4, <1>5, <1>6, <1>7, <1>8 DEF Next, Progress

\* However often processes are stopped, killed, moved or fail to save or to load, with any
\* number of requests on any number of keys: a server that has loaded its snapshots holds
\* what its clients were last answered, with the bytes behind it, except where no completed
\* save covers the last request (run_server, Gateway::run, S3PersistableStore).
THEOREM SavedAnswersSurvive == Spec => []AnswersSurvive
<1>1. Init => SurvivalInv
  <2> SUFFICES ASSUME Init PROVE SurvivalInv
    OBVIOUS
  <2>1. DOMAIN tasks = {} /\ phase = "off" /\ saving = None /\ volatile = {}
    BY DEF Init
  <2>2. \A x \in Slots : Stored(x) /\ ~InMemory(x[1])
    BY <2>1 DEF Init, Stored, Slots, InMemory, Up, NoDir
  <2> QED BY <2>1, <2>2 DEF SurvivalInv, ImageInv, AnswerInv
<1>2. SurvivalInv => AnswersSurvive
  BY DEF SurvivalInv, AnswerInv, AnswersSurvive, InMemory
<1> QED BY <1>1, <1>2, StepSurvival, Inductive, PTL DEF Spec
==============================================================================
