------------------------------ MODULE Snapshots ------------------------------
(***************************************************************************)
(* The life of the server process and its snapshots: StateManager          *)
(* (crates/state/src/manager.rs), save_store and load_store                *)
(* (crates/state/src/persistence.rs), the S3 adapter                       *)
(* (crates/services/s3/src/persistence.rs), and the calls made by          *)
(* run_server (crates/openstack/src/main.rs) and Gateway::run              *)
(* (crates/gateway/src/server.rs).  S3 is the only store registered.       *)
(*                                                                         *)
(* A key stands for one data reference of a store, an object version or an *)
(* uploaded part, with a path of its own.  Its bytes are in the snapshot   *)
(* (inline) or in a file that outlives the process; a file is replaced     *)
(* with one rename (S3Objects models how).  What is saved is the reference *)
(* only, so snapshot and files may be of different times.                  *)
(*                                                                         *)
(* Requests run on while the state is saved: nothing stops the accept loop *)
(* before the process ends.  A request has two steps where the code awaits *)
(* a file operation between the change of the file and that of the store.  *)
(* Here the file operations of requests succeed and clients stay connected *)
(* until they are answered: S3Objects has the failures and disconnects.    *)
(***************************************************************************)
EXTENDS Naturals, FiniteSets

CONSTANTS
    Regions,    \* account and region pairs
    Keys,
    Bases,      \* where the S3 objects directory may be mounted
    Configs,    \* what PERSISTENCE and the two strategies may be set to
    None,
    MaxWrites,  \* bound: requests in a behaviour
    MaxInFlight,\* bound: requests at once
    MaxStarts   \* bound: processes in a behaviour

AllConfigs ==
    [persistence : BOOLEAN,
     load : {"OnStartup", "OnRequest", "Manual"},
     save : {"OnShutdown", "OnRequest", "Scheduled", "Manual"}]

ASSUME SnapshotsAssumption ==
    /\ Configs \subseteq AllConfigs
    /\ MaxWrites \in Nat /\ MaxStarts \in Nat /\ MaxInFlight \in Nat

VARIABLES
    conf,     \* Config
    base,     \* the objects directory of this process
    phase,    \* where the process is: "off" when there is none
    exit,     \* how the last process ended, until the next one starts
    bundle,   \* AccountRegionBundle: per region a store or None
    files,    \* per region and key: the content of the file, or None
    snap,     \* per region: store.json
    todo,     \* regions the load or the save has still to visit
    saving,   \* the region whose store.json is being written, or None
    tasks,    \* requests in flight, by number
    writes,   \* number of requests so far
    starts,   \* number of processes so far
    \* History, read by the properties only:
    acked,    \* per region and key: the content the last answer stands for
    volatile, \* keys changed since the snapshot that covers them
    lost      \* keys that were volatile when a process ended, until written again

vars == <<conf, base, phase, exit, bundle, files, snap, todo, saving, tasks, writes, starts,
          acked, volatile, lost>>
process == <<conf, base, phase, exit, todo, starts>>

Slots == Regions \X Keys

\* ObjectDataRef: a path, or None for bytes that are in the store itself.  A path is
\* relative when it has no base.
Path(b, s) == [base |-> b, slot |-> s]
Ref(etag, data) == [etag |-> etag, data |-> data]
Refs(bases) == [etag : Nat, data : {None} \cup [base : bases, slot : Slots]]
StoreWith(bases) == [Keys -> {None} \cup Refs(bases)]
EmptyStore == [k \in Keys |-> None]

\* A store.json: no directory for it, a directory only, a file truncated or
\* written in part, or a whole store.
NoDir == [is |-> "noDir", store |-> None]
NoFile == [is |-> "noFile", store |-> None]
Torn == [is |-> "torn", store |-> None]
Whole(store) == [is |-> "whole", store |-> store]

\* What a save holds while it writes a file; covers is history.
Saving ==
    [region : Regions, pc : {"open", "write"}, image : StoreWith({None}), covers : SUBSET Slots]

Save(region, pc, image, covers) ==
    [region |-> region, pc |-> pc, image |-> image, covers |-> covers]

ASSUME NoneAssumption ==
    /\ None \notin Saving /\ None \notin Nat
    /\ \A b \in Bases \cup {None} : None \notin StoreWith({b}) /\ None \notin Refs({b})

Init ==
    /\ conf \in Configs
    /\ base \in Bases
    /\ phase = "off"
    /\ exit = None
    /\ bundle = [r \in Regions |-> None]
    /\ files = [s \in Slots |-> None]
    /\ snap = [r \in Regions |-> NoDir]
    /\ todo = {}
    /\ saving = None
    /\ tasks = <<>>
    /\ writes = 0
    /\ starts = 0
    /\ acked = [s \in Slots |-> None]
    /\ volatile = {}
    /\ lost = {}

Up == phase \in {"serve", "save", "stop"}

-----------------------------------------------------------------------------
(* Paths *)

\* relativize_paths: strip_prefix, where it applies.
Relativize(store) ==
    [k \in Keys |->
        IF store[k] # None /\ store[k].data # None /\ store[k].data.base = base
        THEN Ref(store[k].etag, Path(None, store[k].data.slot)) ELSE store[k]]

\* Mutant: a path is taken as it was saved.
Resolve_Kept(store) == store

\* resolve_and_verify_paths: a missing file is only warned about.
Resolve(store) ==
    [k \in Keys |->
        IF store[k] # None /\ store[k].data # None /\ store[k].data.base = None
        THEN Ref(store[k].etag, Path(base, store[k].data.slot)) ELSE store[k]]

-----------------------------------------------------------------------------
(* Starting: run_server *)

Persists(strategy, wanted) == conf.persistence /\ strategy = wanted

\* A new process, with empty stores; the data may be mounted somewhere else.
Start(b) ==
    /\ phase = "off"
    /\ starts < MaxStarts
    /\ starts' = starts + 1
    /\ base' = b
    /\ exit' = None
    /\ bundle' = [r \in Regions |-> None]
    /\ IF Persists(conf.load, "OnStartup")
       THEN phase' = "load" /\ todo' = {r \in Regions : snap[r] # NoDir}
       ELSE phase' = "serve" /\ todo' = {}
    /\ UNCHANGED <<conf, files, snap, saving, tasks, writes, acked, volatile, lost>>

\* The process ends, and with it every request in flight.
End(how) ==
    /\ phase' = "off"
    /\ exit' = how
    /\ todo' = {}
    /\ saving' = None
    /\ tasks' = <<>>
    /\ bundle' = [r \in Regions |-> None]
    /\ lost' = lost \cup volatile
    /\ volatile' = {}
    /\ UNCHANGED <<conf, base, files, snap, writes, starts, acked>>

\* Mutant: a file that cannot be parsed counts as one that is not there.
LoadRegion_Default(r) ==
    /\ phase = "load" /\ r \in todo
    /\ todo' = todo \ {r}
    /\ bundle' = [bundle EXCEPT ![r] =
           IF snap[r] \in {NoFile, Torn} THEN EmptyStore ELSE Resolve(snap[r].store)]
    /\ UNCHANGED <<conf, base, phase, exit, files, snap, saving, tasks, writes, starts,
                   acked, volatile, lost>>

\* load: one account and region directory.  A directory without a file is an
\* empty store; a file that cannot be parsed ends the process.
LoadRegion(r) ==
    /\ phase = "load" /\ r \in todo
    /\ IF snap[r] = Torn
       THEN End("loadFailed")
       ELSE /\ todo' = todo \ {r}
            /\ bundle' = [bundle EXCEPT ![r] =
                   IF snap[r] = NoFile THEN EmptyStore ELSE Resolve(snap[r].store)]
            /\ UNCHANGED <<conf, base, phase, exit, files, snap, saving, tasks, writes, starts,
                           acked, volatile, lost>>

\* Only now does the gateway listen.
LoadDone ==
    /\ phase = "load" /\ todo = {}
    /\ phase' = "serve"
    /\ UNCHANGED <<conf, base, exit, bundle, files, snap, todo, saving, tasks, writes, starts,
                   acked, volatile, lost>>

-----------------------------------------------------------------------------
(* Requests *)

\* The guard of the region being saved is held while its file is written.
Unlocked(r) == IF saving = None THEN TRUE ELSE saving.region # r

\* A step of a request on this key: no snapshot taken so far covers it.
Touch(s) ==
    /\ volatile' = volatile \cup {s}
    /\ saving' = IF saving = None THEN None
                 ELSE Save(saving.region, saving.pc, saving.image, saving.covers \ {s})

Request(s, op, pc) == [slot |-> s, op |-> op, pc |-> pc]
Goto(n, pc) == tasks' = [tasks EXCEPT ![n] = Request(tasks[n].slot, tasks[n].op, pc)]

\* What the store has for a key.
Held(s) == IF bundle[s[1]] = None THEN None ELSE bundle[s[1]][s[2]]

\* CreateBucket, the first of a region, makes its store.  The iteration of a save that
\* is running may come across it, or not.
CreateBucket(r) ==
    /\ Up
    /\ bundle[r] = None
    /\ bundle' = [bundle EXCEPT ![r] = EmptyStore]
    /\ IF phase = "save" THEN todo' \in {todo, todo \cup {r}} ELSE UNCHANGED todo
    /\ UNCHANGED <<conf, base, phase, exit, files, snap, saving, tasks, writes, starts,
                   acked, volatile, lost>>

Ops == {"file", "inline", "delete"}

\* A request arrives; requests on the same key are ordered (S3Objects has the races).
BeginWrite(s, op) ==
    /\ Up
    /\ writes < MaxWrites
    /\ Cardinality(DOMAIN tasks) < MaxInFlight
    /\ \A n \in DOMAIN tasks : tasks[n].slot # s
    /\ bundle[s[1]] # None
    /\ op = "delete" => Held(s) # None
    /\ writes' = writes + 1
    /\ tasks' = [n \in DOMAIN tasks \cup {writes + 1} |->
           IF n = writes + 1 THEN Request(s, op, IF op = "file" THEN "file" ELSE "meta")
           ELSE tasks[n]]
    /\ Touch(s)
    /\ UNCHANGED <<process, bundle, files, snap, acked, lost>>

\* The body file is in place.
PutFile(n) ==
    /\ n \in DOMAIN tasks /\ tasks[n].pc = "file"
    /\ files' = [files EXCEPT ![tasks[n].slot] = n]
    /\ Goto(n, "meta")
    /\ Touch(tasks[n].slot)
    /\ UNCHANGED <<process, bundle, snap, writes, acked, lost>>

Drop(n) == tasks' = [m \in DOMAIN tasks \ {n} |-> tasks[m]]

\* The answer of a request: from here on the client counts on it.
Answer(n, content) ==
    LET s == tasks[n].slot
    IN  /\ Drop(n)
        /\ acked' = [acked EXCEPT ![s] = content]
        /\ lost' = lost \ {s}

\* What the request leaves in the store.
Written(n) ==
    IF tasks[n].op = "delete" THEN None
    ELSE Ref(n, IF tasks[n].op = "file" THEN Path(base, tasks[n].slot) ELSE None)

HasFile(ref) == ref # None /\ ref.data # None

\* The store is changed under the guard; a file that is now without a
\* reference is removed before the answer.
CommitMeta(n) ==
    LET r == tasks[n].slot[1]
        k == tasks[n].slot[2]
    IN  /\ n \in DOMAIN tasks /\ tasks[n].pc = "meta"
        /\ Unlocked(r)
        /\ bundle' = [bundle EXCEPT ![r][k] = Written(n)]
        /\ IF HasFile(bundle[r][k]) /\ tasks[n].op # "file"
           THEN /\ Goto(n, "unlink")
                /\ UNCHANGED <<acked, lost>>
           ELSE Answer(n, IF Written(n) = None THEN None ELSE n)
        /\ Touch(tasks[n].slot)
        /\ UNCHANGED <<process, files, snap, writes>>

Unlink(n) ==
    /\ n \in DOMAIN tasks /\ tasks[n].pc = "unlink"
    /\ files' = [files EXCEPT ![tasks[n].slot] = None]
    /\ Answer(n, IF tasks[n].op = "delete" THEN None ELSE n)
    /\ Touch(tasks[n].slot)
    /\ UNCHANGED <<process, bundle, snap, writes>>

-----------------------------------------------------------------------------
(* Shutting down: Gateway::run *)

\* SIGINT, or "kill" or "restart" posted to the health endpoint.
BeginShutdown ==
    /\ phase = "serve"
    /\ IF Persists(conf.save, "OnShutdown")
       THEN phase' = "save" /\ todo' = {r \in Regions : bundle[r] # None}
       ELSE phase' = "stop" /\ UNCHANGED todo
    /\ UNCHANGED <<conf, base, exit, bundle, files, snap, saving, tasks, writes, starts,
                   acked, volatile, lost>>

\* save: the next region.  The store is copied, and the directory made.
SaveRegion(r) ==
    /\ phase = "save" /\ saving = None /\ r \in todo
    /\ todo' = todo \ {r}
    /\ saving' = Save(r, "open", Relativize(bundle[r]),
                      ({r} \X Keys) \ {tasks[n].slot : n \in DOMAIN tasks})
    /\ snap' = [snap EXCEPT ![r] = IF @ = NoDir THEN NoFile ELSE @]
    /\ UNCHANGED <<conf, base, phase, exit, bundle, files, tasks, writes, starts,
                   acked, volatile, lost>>

\* tokio::fs::write truncates the file that is there ...
WriteOpen ==
    /\ saving # None /\ saving.pc = "open"
    /\ snap' = [snap EXCEPT ![saving.region] = Torn]
    /\ saving' = Save(saving.region, "write", saving.image, saving.covers)
    /\ UNCHANGED <<process, bundle, files, tasks, writes, acked, volatile, lost>>

\* ... and fills it.
WriteDone ==
    /\ saving # None /\ saving.pc = "write"
    /\ snap' = [snap EXCEPT ![saving.region] = Whole(saving.image)]
    /\ volatile' = volatile \ saving.covers
    /\ saving' = None
    /\ UNCHANGED <<process, bundle, files, tasks, writes, acked, lost>>

\* An I/O error: save_all stops at it, and run returns without stop_all.
SaveFails ==
    /\ saving # None
    /\ End("saveFailed")

\* Mutant: the requests in flight are waited for.
SaveDone_Drains ==
    /\ phase = "save" /\ saving = None /\ todo = {} /\ DOMAIN tasks = {}
    /\ phase' = "stop"
    /\ UNCHANGED <<conf, base, exit, bundle, files, snap, todo, saving, tasks, writes, starts,
                   acked, volatile, lost>>

SaveDone ==
    /\ phase = "save" /\ saving = None /\ todo = {}
    /\ phase' = "stop"
    /\ UNCHANGED <<conf, base, exit, bundle, files, snap, todo, saving, tasks, writes, starts,
                   acked, volatile, lost>>

\* stop_all, and the process ends.
StopAll ==
    /\ phase = "stop"
    /\ End("clean")

\* Only SIGINT has a handler: SIGTERM ends the process where it is, as does a crash.
Kill(how) ==
    /\ phase # "off"
    /\ End(how)

-----------------------------------------------------------------------------

Requests ==
    \/ \E r \in Regions : CreateBucket(r)
    \/ \E s \in Slots, op \in Ops : BeginWrite(s, op)
    \/ \E n \in DOMAIN tasks : PutFile(n) \/ CommitMeta(n) \/ Unlink(n)

\* What the process does by itself once it is asked to start or to stop.
Progress ==
    \/ \E r \in Regions : LoadRegion(r) \/ SaveRegion(r)
    \/ LoadDone \/ WriteOpen \/ WriteDone \/ SaveFails \/ SaveDone \/ StopAll

Next ==
    \/ \E b \in Bases : Start(b)
    \/ Progress
    \/ Requests
    \/ BeginShutdown
    \/ \E how \in {"sigterm", "crash"} : Kill(how)

\* The main task is always scheduled again; nobody has to start, stop or use it.
Spec == Init /\ [][Next]_vars /\ WF_vars(Progress)

-----------------------------------------------------------------------------
(* Properties *)

\* Every variable has its type: in memory paths are absolute and below the objects directory
\* of this process, in snapshots they are relative (relativize_paths, resolve_and_verify_paths).
TypeOK ==
    /\ conf \in Configs /\ base \in Bases
    /\ phase \in {"off", "load", "serve", "save", "stop"}
    /\ exit \in {None, "clean", "loadFailed", "saveFailed", "sigterm", "crash"}
    /\ bundle \in [Regions -> {None} \cup StoreWith({base})]
    /\ files \in [Slots -> {None} \cup Nat]
    /\ snap \in [Regions -> {NoDir, NoFile, Torn} \cup [is : {"whole"}, store : StoreWith({None})]]
    /\ todo \subseteq Regions
    /\ saving \in {None} \cup Saving
    /\ DOMAIN tasks \subseteq 1..writes
    /\ \A n \in DOMAIN tasks :
           tasks[n] \in [slot : Slots, op : Ops, pc : {"file", "meta", "unlink"}]
    /\ writes \in 0..MaxWrites /\ starts \in 0..MaxStarts
    /\ acked \in [Slots -> {None} \cup Nat]
    /\ volatile \subseteq Slots /\ lost \subseteq Slots

\* The reference describes this content, and the file it names, below b, holds it.
Backs(ref, b, s, content) ==
    IF content = None THEN ref = None
    ELSE /\ ref # None
         /\ ref.etag = content
         /\ ref.data # None => ref.data = Path(b, s) /\ files[s] = content

\* What a read of the key returns: the bytes its metadata announces, or an error.
Reads(s, content) == Backs(Held(s), base, s, content)

Busy(s) == \E n \in DOMAIN tasks : tasks[n].slot = s

\* What a client was answered is what the server holds, with the right bytes behind it, after
\* any number of restarts, kills, failed saves and moves of the data directory
\* (run_server, Gateway::run, S3PersistableStore::save and load), except for keys whose last
\* request no completed save covers.
AnswersSurvive ==
    Up /\ Persists(conf.load, "OnStartup") =>
        \A s \in Slots : s \in lost \/ Busy(s) \/ Reads(s, acked[s])

\* A server that requires its snapshots never serves over one it could not read: a torn
\* store.json stops the start (load_on_startup), so outside the write of a save no
\* running server has one, and none is overwritten by a later save.
TornIsNeverServed ==
    Persists(conf.load, "OnStartup") /\ Up =>
        \A r \in Regions : snap[r] = Torn => saving # None /\ saving.region = r

\* A shutdown that has begun comes to an end, requests that keep arriving notwithstanding
\* (save iterates over a map that they extend).
ShutdownEnds == phase \in {"save", "stop"} ~> phase = "off"
==============================================================================
