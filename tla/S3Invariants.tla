---------------------------- MODULE S3Invariants -----------------------------
(***************************************************************************)
(* What the requests of S3 rely on: the inductive invariants of S3Objects  *)
(* and S3Multipart, and what a step may change that keeps them.            *)
(***************************************************************************)
EXTENDS S3Multipart

-----------------------------------------------------------------------------
(* Types *)

EntryRecords == [k : Keys, vid : Vids \cup {None}]

Touches == SUBSET (Buckets \X Keys)
PutPcs == {"ensureDir", "remember", "write", "rename", "commit"}
CopyPcs == {"copyRead", "copyResolve", "ensureDir", "remember", "copyLink", "copyFill", "commit"}
BucketPcs == {"deleteBucket", "removeDir", "forgetDirs"}

PutTasks ==
    [op : {"put"}, pc : PutPcs, touches : Touches, b : Buckets, k : Keys, vid : Vids, body : Contents,
     etag : Contents, size : Nat, data : DataRecords, path : Paths, then : {"write"}, after : {"commit"}]
LookupTasks ==
    [op : {"copy"}, pc : {"copyVersioning"}, touches : Touches, b : Buckets, k : Keys, src : VersionRecords,
     srcPath : Paths]
CopyTasks ==
    [op : {"copy"}, pc : CopyPcs, touches : Touches, b : Buckets, k : Keys, vid : Vids, etag : Contents,
     size : Nat, data : DataRecords, srcPath : Paths, path : Paths, then : {"copyLink"},
     from : Nat \cup {None}, to : Nat \cup {None}]
CleanupTasks ==
    [op : {"put", "copy", "delete"}, pc : {"cleanup"}, touches : Touches, remove : SUBSET Paths]
BucketTasks == [op : {"deleteBucket"}, pc : BucketPcs, touches : Touches, b : Buckets]
DeleteTasks == [op : {"delete"}, pc : {"delete"}, touches : Touches, b : Buckets, entries : Seq(EntryRecords)]
GetTasks ==
    [op : {"get"}, pc : {"read", "done"}, touches : {{}}, vid : Vids, etag : Contents, got : Contents,
     path : Paths \cup {None}]
EndedTasks == [op : {"put", "copy", "delete", "deleteBucket", "get"}, pc : {"done", "dropped"}, touches : {{}}]

TaskRecords ==
    PutTasks \cup LookupTasks \cup CopyTasks \cup CleanupTasks \cup BucketTasks \cup DeleteTasks \cup GetTasks
    \cup EndedTasks

TypeInv ==
    /\ TypeOK
    /\ tasks \in Seq(TaskRecords)

-----------------------------------------------------------------------------
(* What the handlers rely on, whatever races *)

Putting(n) == tasks[n].op = "put" /\ tasks[n].pc \in PutPcs
Copying(n) == tasks[n].op = "copy" /\ tasks[n].pc \in CopyPcs
KeyOf(path) == <<path[1], path[2]>>

\* The request has left its mark on the metadata, or never will.
Past(n) == tasks[n].pc \in {"cleanup", "done", "dropped"}

\* What a request has read stays what it was: it works on the keys it touches, under a name that
\* is its own or "null", and nothing has been written before it writes.
PutInv(n) ==
    LET t == tasks[n]
    IN  /\ t.touches = {<<t.b, t.k>>} /\ t.vid \in {Null, <<n, 1>>} /\ t.path = <<t.b, t.k, t.vid>>
        /\ t.body = <<n>> /\ t.etag = <<n>>
        /\ (t.data = Inline(<<n>>) /\ t.pc = "commit") \/ t.data = FileRef(t.path)
        /\ t.pc \in {"ensureDir", "remember", "write"} => n \notin DOMAIN disk

LookupInv(n) ==
    LET t == tasks[n]
    IN  /\ t.touches = {KeyOf(t.srcPath), <<t.b, t.k>>}
        /\ ~t.src.marker /\ t.srcPath[3] = t.src.vid /\ t.src.data.file \in {None, t.srcPath}

CopyInv(n) ==
    LET t == tasks[n]
    IN  /\ t.touches = {KeyOf(t.srcPath), <<t.b, t.k>>}
        /\ t.vid \in {Null, <<n, 1>>} /\ t.path = <<t.b, t.k, t.vid>>
        /\ CASE t.pc = "commit" -> t.data.file = None \/ (t.data.file = t.path /\ t.size > Threshold)
             [] t.pc = "copyRead" -> t.data.file = t.srcPath /\ t.size <= Threshold
             [] OTHER -> t.data.file = t.path /\ t.size > Threshold
        /\ t.pc = "copyFill" => t.from \in DOMAIN disk /\ t.to \in inPlace

DeleteInv(n) ==
    LET t == tasks[n]
    IN  t.touches = {<<t.b, t.entries[i].k>> : i \in DOMAIN t.entries}

TaskInv(n) ==
    /\ Putting(n) => PutInv(n)
    /\ tasks[n].pc = "copyVersioning" => LookupInv(n)
    /\ Copying(n) => CopyInv(n)
    /\ tasks[n].pc \in BucketPcs => tasks[n].touches = {tasks[n].b} \X Keys
    /\ tasks[n].pc = "delete" => DeleteInv(n)
    /\ tasks[n].pc = "cleanup" => \A p \in tasks[n].remove : KeyOf(p) \in tasks[n].touches

TasksInv == \A n \in DOMAIN tasks : TaskInv(n)

\* A version is that of the request its id names, which is done with it; its file has its name.
VersionInv(b, k, v) ==
    /\ v.data.file \in {None, <<b, k, v.vid>>}
    /\ v.marker => v.data.file = None
    /\ v.vid # Null =>
           LET n == v.vid[1]
           IN  /\ n \in DOMAIN tasks /\ Past(n)
               /\ ~v.marker => v.vid[2] = 1
               /\ tasks[n].op = "put" /\ ~v.marker => v.etag = <<n>> /\ (v.data.file = None => v.data.bytes = <<n>>)

VersionsInv ==
    \A b \in Buckets, k \in Keys :
        /\ \A i \in DOMAIN objects[b][k] : VersionInv(b, k, objects[b][k][i])
        /\ \A i, j \in DOMAIN objects[b][k] : objects[b][k][i].vid = objects[b][k][j].vid => i = j

\* A temporary file is the only name of what its request writes; under the name of a put there is
\* what that put wrote; what nobody has written over is whole.
IsTmp(path, n) == path[3] = <<n>>
FileInv(path) ==
    /\ path \in Paths \/ \E n \in DOMAIN tasks : path \in Buckets \X Keys \X {<<n>>}
    /\ link[path] \in DOMAIN disk
    /\ \A n \in DOMAIN tasks : IsTmp(path, n) =>
           /\ link[path] = n /\ n \notin inPlace
           /\ \A p \in DOMAIN link : link[p] = n => p = path
           /\ tasks[n].pc = "rename" => disk[n] = <<n>>
    /\ path \in Paths =>
           /\ path[3] # Null => path[3][1] \in DOMAIN tasks
           /\ \A n \in DOMAIN tasks : path[3] = <<n, 1>> /\ tasks[n].op = "put" => link[path] = n
           /\ link[path] \notin inPlace => disk[link[path]] = <<link[path]>>

FilesInv ==
    /\ \A p \in DOMAIN link : FileInv(p)
    /\ DOMAIN disk \subseteq DOMAIN tasks /\ inPlace \subseteq DOMAIN disk

\* What is to be removed is no version's file, or "null".
CleanupInv ==
    \A n \in DOMAIN tasks : tasks[n].pc = "cleanup" =>
        \A p \in tasks[n].remove : p[3] # Null =>
            /\ p[3][1] \in DOMAIN tasks /\ Past(p[3][1])
            /\ \A v \in Versions(p[1], p[2]) : v.data.file # p

\* A bucket being deleted is empty and nobody works in it, or its keys are torn.
DeletionInv ==
    \A n \in InFlight : tasks[n].pc \in BucketPcs =>
        \/ {tasks[n].b} \X Keys \subseteq torn
        \/ /\ \A k \in Keys : objects[tasks[n].b][k] = <<>>
           /\ \A m \in InFlight \ {n} : tasks[m].touches \cap ({tasks[n].b} \X Keys) = {}

\* The file of a put's version is there, and that of a put about to commit.
DurableInv ==
    /\ \A b \in Buckets, k \in Keys : <<b, k>> \notin torn =>
           \A v \in Versions(b, k) :
               (v.vid # Null /\ ~v.marker /\ tasks[v.vid[1]].op = "put" /\ v.data.file # None) => Linked(v.data.file)
    /\ \A n \in DOMAIN tasks :
           LET t == tasks[n]
           IN  (t.op = "put" /\ t.pc = "commit" /\ t.data.file # None /\ t.vid # Null /\ <<t.b, t.k>> \notin torn)
               => Linked(t.path)

\* A read that found a file knows whose it is.
ReadsInv ==
    \A n \in DOMAIN tasks :
        LET t == tasks[n]
        IN  (t.op = "get" /\ t \in GetTasks) =>
               /\ t.pc = "read" => t.path # None
               /\ t.vid # Null /\ t.path # None =>
                      /\ t.path[3] = t.vid /\ t.vid[1] \in DOMAIN tasks
                      /\ tasks[t.vid[1]].op = "put" => t.etag = <<t.vid[1]>>
               /\ (t.pc = "done" /\ t.path # None /\ inPlace = {}) =>
                      /\ Len(t.got) = 1
                      /\ t.vid # Null /\ tasks[t.vid[1]].op = "put" => t.got = t.etag

IInv ==
    TypeInv /\ TasksInv /\ VersionsInv /\ FilesInv /\ CleanupInv /\ DeletionInv /\ DurableInv /\ ReadsInv

-----------------------------------------------------------------------------
(* Iteration *)

\* f is what step after step makes of base.
Iterates(f, base, G, n) == f[0] = base /\ \A i \in 1..n : f[i] = G[i][f[i - 1]]

-----------------------------------------------------------------------------
(* Tasks *)

Ops == {"put", "copy", "delete", "deleteBucket", "get"}

\* One request moves on; the others stay where they are.
Moves(n) ==
    /\ n \in InFlight
    /\ DOMAIN tasks' = DOMAIN tasks /\ Len(tasks') = Len(tasks)
    /\ \A m \in DOMAIN tasks : m # n => tasks'[m] = tasks[m]
    /\ tasks'[n].op = tasks[n].op
    /\ tasks'[n].touches \in {tasks[n].touches, {}}
    /\ Past(n) => Past(n)'
    /\ tasks'[n].pc \in BucketPcs => (tasks[n].pc \in BucketPcs /\ tasks'[n].b = tasks[n].b)
    /\ torn' = torn

-----------------------------------------------------------------------------
(* What a request leaves alone as it moves on *)

\* A step that leaves objects and files alone.
Aside(n) ==
    /\ Moves(n) /\ tasks' \in Seq(TaskRecords)
    /\ UNCHANGED <<versioning, objects, link, disk, inPlace, everEnabled>>
    /\ contended' \subseteq Buckets \X Keys
    /\ dirs' \subseteq Buckets \X (Keys \cup Nat) /\ known' \subseteq Buckets \X (Keys \cup Nat)
    /\ tasks'[n].pc \notin {"rename", "cleanup"}
    /\ ~(tasks'[n].op = "put" /\ tasks'[n].pc = "commit")

-----------------------------------------------------------------------------
(* Recording versions *)

\* A version that a request has just made.
New(n, b, k, v) ==
    /\ <<b, k>> \in tasks[n].touches /\ ~Past(n)
    /\ v.vid # Null => v.vid[1] = n
    /\ (v.vid # Null /\ ~v.marker /\ tasks[n].op = "put" /\ v.data.file # None /\ <<b, k>> \notin torn) => Linked(v.data.file)

\* A request changes the metadata: versions stay, go, or are new, and what it has then to remove
\* belongs to none.
Records(n) ==
    /\ Moves(n) /\ tasks' \in Seq(TaskRecords) /\ tasks[n].op # "get"
    /\ UNCHANGED <<link, disk, dirs, known, contended, torn, inPlace, everEnabled>>
    /\ tasks'[n].pc \notin {"rename", "commit"}
    /\ versioning' \in [Buckets -> {None, ""} \cup Versionings]
    /\ objects' \in [Buckets -> [Keys -> Seq(VersionRecords)]]
    /\ \A b \in Buckets, k \in Keys :
         /\ \A v \in Versions(b, k)' : v \in Versions(b, k) \/ (New(n, b, k, v) /\ VersionInv(b, k, v)')
         /\ \A i, j \in DOMAIN objects'[b][k] : objects'[b][k][i].vid = objects'[b][k][j].vid => i = j
         /\ \/ objects'[b][k] \in {objects[b][k], <<>>}
            \/ <<b, k>> \in tasks[n].touches /\ tasks[n].pc \notin BucketPcs
    /\ tasks'[n].pc = "cleanup" =>
         \A p \in tasks'[n].remove : p[3] # Null =>
            /\ p[3][1] \in DOMAIN tasks /\ Past(p[3][1])'
            /\ \A v \in Versions(p[1], p[2])' : v.data.file # p

-----------------------------------------------------------------------------
(* Deleting a batch *)

Unique(vs) == \A i, j \in DOMAIN vs : vs[i].vid = vs[j].vid => i = j

Batch == [objs : [Keys -> Seq(VersionRecords)], gone : SUBSET Paths]

\* What an entry removes, the file that goes with it, and what is left of the key.
EntryHit(b, e, vs) ==
    IF e.vid = None THEN IF versioning[b] = "Enabled" THEN None ELSE Previous(vs)
    ELSE LET v == GetVersion(vs, e.vid) IN IF v = None THEN None ELSE v.data
EntryFile(hit) == IF hit = None \/ hit.file = None THEN {} ELSE {hit.file}
EntryLeft(b, n, i, e, vs) ==
    IF e.vid = None THEN DeleteObject(vs, versioning[b] = "Enabled", <<n, i>>) ELSE DeleteObjectVersion(vs, e.vid)

\* A version of the batch: one the key has had, or a marker of an earlier entry.
OfBatch(n, i, b, k, v) ==
    v \in Versions(b, k) \/ (versioning[b] = "Enabled" /\ \E j \in 1..i : v = DeleteMarker(<<n, j>>))

\* What the batch is after i entries: versions stay as they were or are markers, and what has gone
\* belongs to none of them.
BatchInv(n, i, acc) ==
    LET b == tasks[n].b
    IN  /\ acc \in Batch
        /\ \A k \in Keys :
             /\ \A x \in DOMAIN acc.objs[k] : OfBatch(n, i, b, k, acc.objs[k][x])
             /\ Unique(acc.objs[k])
             /\ acc.objs[k] = objects[b][k] \/ <<b, k>> \in tasks[n].touches
        /\ \A p \in acc.gone :
             /\ p = <<b, p[2], p[3]>> /\ p[2] \in Keys /\ KeyOf(p) \in tasks[n].touches
             /\ p[3] # Null => (p[3][1] \in DOMAIN tasks /\ Past(p[3][1]))
             /\ \A x \in DOMAIN acc.objs[p[2]] : acc.objs[p[2]][x].data.file # p
        /\ (versioning[b] # "Enabled" /\ \A k \in Keys : \A v \in Versions(b, k) : v.vid = Null) =>
             \A k \in Keys : \A v \in Versions(b, k) :
                \/ \E x \in DOMAIN acc.objs[k] : acc.objs[k][x] = v
                \/ v.data.file \in acc.gone \cup {None}

\* Before entry i, the versions of its key ...
EntryBefore(n, i, b, k, vs, gone) ==
    /\ IInv /\ n \in DOMAIN tasks /\ n \in Nat /\ ~Past(n) /\ i \in Nat /\ i >= 1
    /\ b \in Buckets /\ k \in Keys /\ vs \in Seq(VersionRecords) /\ gone \in SUBSET Paths
    /\ \A x \in DOMAIN vs : OfBatch(n, i - 1, b, k, vs[x])
    /\ Unique(vs)
    /\ \A p \in gone : p[2] = k => \A x \in DOMAIN vs : vs[x].data.file # p

\* ... and after it.
EntryAfter(n, i, b, k, vs, gone, r, more) ==
    /\ \A x \in DOMAIN r : OfBatch(n, i, b, k, r[x])
    /\ Unique(r)
    /\ \A p \in gone : p[2] = k => \A x \in DOMAIN r : r[x].data.file # p
    /\ \A p \in more :
         /\ p = <<b, k, p[3]>>
         /\ p[3] # Null => (p[3][1] \in DOMAIN tasks /\ Past(p[3][1]))
         /\ \A x \in DOMAIN r : r[x].data.file # p
    /\ (versioning[b] # "Enabled" /\ \A v \in Versions(b, k) : v.vid = Null) =>
         \A x \in DOMAIN vs : (\E y \in DOMAIN r : r[y] = vs[x]) \/ vs[x].data.file \in more \cup {None}

-----------------------------------------------------------------------------
(* Requests that start *)

\* What a request starts with.
Starts(t) ==
    /\ t \in TaskRecords /\ t.pc # "cleanup"
    /\ t.pc \in BucketPcs => /\ t.op = "deleteBucket" /\ t.b \in Buckets /\ t.touches = {t.b} \X Keys
                             /\ \A k \in Keys : objects[t.b][k] = <<>>
    /\ t.op = "put" /\ t.pc = "commit" => t.data.file = None
    /\ t.op = "get" =>
         /\ t.pc = "read" => t.path # None
         /\ t.pc = "done" => t.path = None
         /\ t.vid # Null /\ t.path # None =>
              /\ t.path[3] = t.vid /\ t.vid[1] \in DOMAIN tasks
              /\ tasks[t.vid[1]].op = "put" => t.etag = <<t.vid[1]>>

-----------------------------------------------------------------------------
(* Versioning *)

\* What GetBucketVersioning may answer.
Statuses == {None, ""} \cup Versionings

-----------------------------------------------------------------------------
(* What requests rely on besides as long as nobody races with them *)

Quiet(n) == tasks[n].touches \cap contended = {}

\* Requests that share a key are known to; all keys of a request are contended, or none.
ContentionInv ==
    /\ torn \subseteq contended
    /\ \A n \in InFlight : Quiet(n) \/ tasks[n].touches \subseteq contended
    /\ \A m, n \in InFlight :
           m # n /\ tasks[m].touches \cap tasks[n].touches # {} => tasks[m].touches \subseteq contended

\* The inode has no other name, and nothing was written over it.
Unshared(path) ==
    /\ link[path] \notin inPlace
    /\ \A p \in DOMAIN link : link[p] = link[path] => p = path

\* A file with the bytes the ETag says, or one that was written over; a short one never is.
FileAgrees(v) ==
    LET p == v.data.file
    IN  /\ Linked(p)
        /\ link[p] \in inPlace \/ v.etag = <<link[p]>>
        /\ v.size <= Threshold => Unshared(p)

\* A request has this file in place and has still to say so.
Holds(n, path) == tasks[n].pc \in {"commit", "copyFill"} /\ tasks[n].data.file = path
Held(path) == \E n \in DOMAIN tasks : Holds(n, path)

Agrees(v) ==
    /\ v.data.file = None /\ ~v.marker => v.data.bytes = v.etag
    /\ v.data.file # None => Held(v.data.file) \/ FileAgrees(v)

\* A request is about to remove this file.
Removes(n, path) == tasks[n].pc = "cleanup" /\ path \in tasks[n].remove

\* Where versions were never enabled, a file is that of the object, of a request that has still to
\* commit it, or about to be removed.
Claimed(b, k, p) ==
    \/ \E v \in Versions(b, k) : v.data.file = p
    \/ Held(p)
    \/ \E n \in DOMAIN tasks : Removes(n, p)

AgreeAt(b, k) == \A v \in Versions(b, k) : Agrees(v)
ClaimedAt(b, k) == b \notin everEnabled => \A p \in Paths : p = <<b, k, Null>> /\ Linked(p) => Claimed(b, k, p)

KeysInv == \A b \in Buckets, k \in Keys : <<b, k>> \notin contended => AgreeAt(b, k) /\ ClaimedAt(b, k)

\* The version that is copied is there.
SourceIs(n, v) ==
    LET t == tasks[n]
    IN  IF t.pc = "copyVersioning" THEN v = t.src
        ELSE v.data.file = t.srcPath /\ v.etag = t.etag /\ v.size = t.size

HasSource(n) ==
    \E b \in Buckets, k \in Keys : KeyOf(tasks[n].srcPath) = <<b, k>> /\ \E v \in Versions(b, k) : SourceIs(n, v)

QuietPut(n) ==
    LET t == tasks[n]
    IN  /\ \A b \in Buckets : b = t.b => versioning[b] # None
        /\ \A p \in Paths : t.pc = "commit" /\ t.data.file = p => Linked(p) /\ link[p] = n /\ Unshared(p)

QuietCopy(n) ==
    LET t == tasks[n]
    IN  /\ t.pc \notin {"commit", "copyFill"} => HasSource(n)
        /\ t.pc = "commit" /\ t.data.file = None => t.data.bytes = t.etag
        /\ \A p \in Paths : Holds(n, p) =>
               Linked(p) /\ (link[p] \in inPlace \/ (t.pc = "commit" /\ t.etag = <<link[p]>>))

QuietTask(n) ==
    /\ Putting(n) => QuietPut(n)
    /\ Copying(n) \/ tasks[n].pc = "copyVersioning" => QuietCopy(n)
    /\ \A p \in Paths : Removes(n, p) =>
           \A b \in Buckets, k \in Keys : KeyOf(p) = <<b, k>> => \A v \in Versions(b, k) : v.data.file # p

QuietTasksInv == \A n \in InFlight : Quiet(n) => QuietTask(n)

\* Where versions were never enabled there are none.
UnversionedInv ==
    /\ \A b \in Buckets : versioning[b] = "Enabled" => b \in everEnabled
    /\ \A b \in Buckets \ everEnabled, k \in Keys : \A v \in Versions(b, k) : v.vid = Null
    /\ \A n \in DOMAIN tasks : (Putting(n) \/ Copying(n)) /\ tasks[n].b \notin everEnabled => tasks[n].vid = Null

QInv == ContentionInv /\ UnversionedInv /\ KeysInv /\ QuietTasksInv

-----------------------------------------------------------------------------
(* What a step leaves alone *)

\* Of the files that are to stay only these change; an inode gets a name, or is written over, only
\* if it has one of theirs.
Changes(P) ==
    /\ \A p \in Paths : p \notin P => /\ p \in DOMAIN link <=> p \in DOMAIN link'
                                      /\ p \in DOMAIN link => link'[p] = link[p]
    /\ inPlace \subseteq inPlace'
    /\ \A q \in Paths : q \in DOMAIN link /\ q \notin P =>
           \/ \E r \in P : r \in DOMAIN link /\ link[r] = link[q]
           \/ /\ link[q] \in inPlace' => link[q] \in inPlace
              /\ \A p \in DOMAIN link' : link'[p] = link[q] => p \in DOMAIN link /\ link[p] = link[q]

\* The other requests do not move.
Others(n) == \A m \in DOMAIN tasks : m # n => m \in DOMAIN tasks' /\ tasks'[m] = tasks[m]

\* The request goes on to hold and to remove what it does.
KeepsHold(n, p) == n \in DOMAIN tasks /\ Holds(n, p) => n \in DOMAIN tasks' /\ Holds(n, p)'
KeepsRemoval(n, p) == n \in DOMAIN tasks /\ Removes(n, p) => n \in DOMAIN tasks' /\ Removes(n, p)'

\* Nothing happens to what a request works on.
Spared(m, P) ==
    /\ \A p \in Paths : KeyOf(p) \in tasks[m].touches => p \notin P
    /\ \A b \in Buckets, k \in Keys : <<b, k>> \in tasks[m].touches =>
           objects'[b][k] = objects[b][k] /\ (versioning[b] # None => versioning'[b] # None)

\* A request moves on or is dropped; it changes only keys it touches.
Within(n, P) ==
    /\ Moves(n) /\ Changes(P) /\ everEnabled' = everEnabled
    /\ n \in InFlight' => contended' = contended /\ tasks'[n].touches = tasks[n].touches
    /\ contended' \in {contended, contended \cup tasks[n].touches}
    /\ \A p \in P : KeyOf(p) \in tasks[n].touches
    /\ \A b \in Buckets, k \in Keys : <<b, k>> \notin tasks[n].touches =>
           objects'[b][k] = objects[b][k] /\ (versioning[b] # None => versioning'[b] # None)

\* Afterwards its own keys are in order.
InOrder(n) ==
    /\ \A b \in Buckets, k \in Keys : <<b, k>> \in tasks[n].touches => AgreeAt(b, k)' /\ ClaimedAt(b, k)'
    /\ n \in InFlight' => QuietTask(n)'

-----------------------------------------------------------------------------
(* Steps that change no object and no file it may have *)

\* The request has nothing in place and nothing to remove.
Underway(n) ==
    /\ Moves(n) /\ Changes({}) /\ UNCHANGED <<objects, versioning, contended, everEnabled>>
    /\ tasks[n].pc \notin {"commit", "copyFill", "cleanup"}
    /\ n \in InFlight' => tasks'[n].touches = tasks[n].touches

-----------------------------------------------------------------------------
(* Recording versions where nobody races *)

\* The request changes the metadata of keys it touches and has then these files to remove.
Recorded(n, R) ==
    /\ Moves(n) /\ UNCHANGED <<versioning, link, inPlace, contended, torn, everEnabled>>
    /\ tasks[n].pc # "cleanup" /\ tasks'[n].pc \in {"done", "cleanup"}
    /\ IF tasks'[n].pc = "done" THEN R = {} ELSE tasks'[n].remove = R /\ tasks'[n].touches = tasks[n].touches
    /\ \A b \in Buckets, k \in Keys : <<b, k>> \notin tasks[n].touches => objects'[b][k] = objects[b][k]
    /\ \A b \in Buckets, k \in Keys : b \notin everEnabled => \A v \in Versions(b, k)' : v.vid = Null

\* A key is settled: the versions were there before and are not the request's, or agree with their
\* files; where versions were never enabled the file of one that goes is removed; and no other is.
Settled(n, R, b, k) ==
    /\ \A v \in Versions(b, k)' : (v \in Versions(b, k) /\ ~Holds(n, v.data.file)) \/ Agrees(v)'
    /\ b \notin everEnabled => \A p \in Paths :
           p = <<b, k, Null>> /\ (Holds(n, p) \/ \E v \in Versions(b, k) : v.data.file = p) =>
               p \in R \/ \E v \in Versions(b, k)' : v.data.file = p
    /\ \A p \in R : KeyOf(p) = <<b, k>> => \A v \in Versions(b, k)' : v.data.file # p

\* The request commits its version.
Commits(n, t) ==
    /\ n \in InFlight /\ t = tasks[n] /\ t \in PutTasks \cup CopyTasks /\ t.pc = "commit"
    /\ objects' = [objects EXCEPT ![t.b][t.k] = PutObjectVersion(@, VersionOf(t))]

-----------------------------------------------------------------------------
(* Multipart uploads *)

\* Requests are only ever added, and their numbers name the uploads.
IsSeq(s) == s \in Seq({s[i] : i \in DOMAIN s})
Lengthens == IsSeq(tasks') /\ Len(tasks') >= Len(tasks)

OnceInv ==
    /\ IsSeq(tasks)
    /\ DOMAIN uploads \subseteq 1..Len(tasks)
    /\ \A x \in assembled : x[1] \in 1..Len(tasks) /\ x[1] \notin DOMAIN uploads
    /\ CompletedOnce

-----------------------------------------------------------------------------
(* Parts of uploads keep their files *)

PartNames == {<<0, 0, p>> : p \in PartNumbers}

Has(t, fields) == fields \subseteq DOMAIN t

ObjectFile(data) == data.file \in Paths \cup {None}

\* A version lies under its own name, never under that of a part.
PlainVersion(v) == v.vid \in Vids /\ ObjectFile(v.data)

PlainObjects ==
    /\ objects = [b \in Buckets |-> [k \in Keys |-> objects[b][k]]]
    /\ \A b \in Buckets, k \in Keys : IsSeq(objects[b][k]) /\ \A v \in Versions(b, k) : PlainVersion(v)

WritePcs == {"ensureDir", "remember", "write", "rename"}

\* A request that is to record a version.
WillRecord(t) ==
    /\ Has(t, {"b", "k", "vid", "etag", "size", "data", "path", "then"})
    /\ t.b \in Buckets /\ t.k \in Keys /\ t.vid \in Vids /\ t.path \in Paths /\ ObjectFile(t.data)

PutFits(t) ==
    /\ t.pc \in WritePcs \cup {"commit"}
    /\ WillRecord(t) /\ Has(t, {"body", "after"}) /\ t.then = "write" /\ t.after = "commit"

LookupFits(t) ==
    /\ t.pc = "copyVersioning" /\ Has(t, {"b", "k", "src", "srcPath"})
    /\ t.b \in Buckets /\ t.k \in Keys /\ PlainVersion(t.src) /\ t.srcPath[3] \in Vids

\* The inode of a part belongs to the request that sent the part.
OfPart(i) == tasks[i].op = "part"

CopyFits(t) ==
    /\ t.pc \in {"copyRead", "copyResolve", "ensureDir", "remember", "copyLink", "copyFill", "commit"}
    /\ WillRecord(t) /\ Has(t, {"srcPath", "from", "to"}) /\ t.then = "copyLink"
    /\ t.srcPath[3] \in Vids
    /\ t.pc = "copyFill" => t.to \in DOMAIN tasks /\ ~OfPart(t.to)

\* The upload a request works on is the one it has found, or gone.
OfUpload(t) ==
    /\ Has(t, {"u", "b", "k"}) /\ t.b \in Buckets /\ t.k \in Keys
    /\ t.u \in DOMAIN tasks /\ <<t.b, t.k>> \in t.touches
    /\ t.u \in DOMAIN uploads => uploads[t.u].bucket = t.b /\ uploads[t.u].key = t.k

GatherFits(t) ==
    /\ t.pc = "completeVersioning" /\ OfUpload(t) /\ Has(t, {"parts"})
    /\ \A p \in DOMAIN t.parts : t.parts[p].data.file # None => t.parts[p].data.file[2] = t.u

CompleteFits(t) ==
    /\ t.pc \in WritePcs \cup {"assemble", "removeParts", "commit"}
    /\ OfUpload(t) /\ WillRecord(t) /\ Has(t, {"left", "body", "remove", "after"})
    /\ t.then = "assemble" /\ t.after \in {"commit", "removeParts"}
    /\ \A q \in t.remove : q[2] = t.u

\* The request of a part has written its own bytes before it gives them their name.
PartFits(t, n) ==
    /\ t.pc \in WritePcs \cup {"commit"}
    /\ Has(t, {"u", "p", "body", "part", "path", "then", "after"})
    /\ t.then = "write" /\ t.after = "commit" /\ t.body = <<n>>
    /\ t.u \in DOMAIN tasks /\ t.p \in PartNumbers
    /\ t.path = <<t.path[1], t.u, <<0, 0, t.p>>>> /\ t.touches = {<<t.path[1], t.u, t.p>>}
    /\ t.u \in DOMAIN uploads => uploads[t.u].bucket = t.path[1]
    /\ t.part.etag = <<n>>
    /\ t.part.data = FileRef(t.path) \/ (t.pc = "commit" /\ t.part.data = Inline(<<n>>))
    /\ t.pc = "rename" => n \in DOMAIN disk /\ disk[n] = <<n>>

CleanupFits(t) == t.pc = "cleanup" /\ Has(t, {"remove"}) /\ t.remove \subseteq Paths
DeleteFits(t) ==
    /\ t.pc = "delete" /\ Has(t, {"b", "entries"}) /\ t.b \in Buckets
    /\ t.entries \in Seq({t.entries[i] : i \in DOMAIN t.entries}) /\ \A i \in DOMAIN t.entries : t.entries[i].k \in Keys
BucketFits(t) == t.pc \in BucketPcs /\ Has(t, {"b"}) /\ t.b \in Buckets /\ t.touches = {t.b} \X Keys
GetFits(t) == t.pc = "read" /\ Has(t, {"path", "got"})
Over(t) == t.pc \in {"done", "dropped"}

Fits(t, n) ==
    /\ Has(t, {"op", "pc", "touches"})
    /\ \/ Over(t)
       \/ t.op = "put" /\ (PutFits(t) \/ CleanupFits(t))
       \/ t.op = "copy" /\ (LookupFits(t) \/ CopyFits(t) \/ CleanupFits(t))
       \/ t.op = "complete" /\ (GatherFits(t) \/ CompleteFits(t) \/ CleanupFits(t))
       \/ t.op = "part" /\ PartFits(t, n)
       \/ t.op = "delete" /\ (DeleteFits(t) \/ CleanupFits(t))
       \/ t.op = "deleteBucket" /\ BucketFits(t)
       \/ t.op = "get" /\ GetFits(t)

TasksFit ==
    /\ IsSeq(tasks) /\ Len(tasks) <= MaxOps
    /\ \A n \in DOMAIN tasks : Fits(tasks[n], n)

\* A file under the name of a part is what the request of some part wrote; a version's never is.
LinkFits(q) ==
    /\ link[q] \in DOMAIN tasks \cap DOMAIN disk
    /\ \/ q[3] \in PartNames /\ OfPart(link[q]) /\ tasks[link[q]].pc \in {"commit", "done", "dropped"}
       \/ q[3] = <<link[q]>>
       \/ q[3] \in Vids /\ ~OfPart(link[q])

LinksFit == \A q \in DOMAIN link : LinkFits(q)

UploadFits(u) ==
    /\ u \in DOMAIN tasks /\ Has(uploads[u], {"bucket", "key", "parts"})
    /\ uploads[u].bucket \in Buckets /\ uploads[u].key \in Keys
    /\ \A p \in DOMAIN uploads[u].parts :
          p \in PartNumbers /\ uploads[u].parts[p].data.file \in {None, PartPath(u, p)}

UploadsFit == \A u \in DOMAIN uploads : UploadFits(u)

\* Requests that share a key or a part are known to.
Raced == \A m, n \in InFlight : m # n /\ tasks[m].touches \cap tasks[n].touches # {} => tasks[m].touches \subseteq contended

UploadKey(u) == <<uploads[u].bucket, uploads[u].key>>

\* An upload in a bucket that is being deleted has raced with that.
BucketsRaced ==
    \A u \in DOMAIN uploads, n \in InFlight :
       tasks[n].op = "deleteBucket" /\ tasks[n].b = uploads[u].bucket => UploadKey(u) \in contended

\* A completion that is past the files of the parts; it will take the upload with it.
Consumes(n, u) == tasks[n].op = "complete" /\ tasks[n].pc \in {"removeParts", "commit"} /\ tasks[n].u = u
Consumed(u) == \E n \in DOMAIN tasks : Consumes(n, u)

\* The part is written and has still to be recorded.
Arrives(n, u, p) == tasks[n].op = "part" /\ tasks[n].pc = "commit" /\ tasks[n].u = u /\ tasks[n].p = p
Arriving(u, p) == \E n \in DOMAIN tasks : Arrives(n, u, p)

Undisturbed(u, p) == UploadKey(u) \notin contended /\ PartToken(u, p) \notin contended /\ ~Consumed(u)

PartKept(u, p) ==
    /\ p \in DOMAIN uploads[u].parts /\ ~Arriving(u, p) => Backed(uploads[u].parts[p])
    /\ \A n \in DOMAIN tasks : Arrives(n, u, p) => Backed(tasks[n].part)

PartsKept == \A u \in DOMAIN uploads, p \in PartNumbers : Undisturbed(u, p) => PartKept(u, p)

PartsInv == PlainObjects /\ TasksFit /\ LinksFit /\ UploadsFit /\ Raced /\ BucketsRaced /\ PartsKept

\* Request n moves on, and nobody else.
Moving(n) ==
    /\ n \in InFlight /\ IsSeq(tasks') /\ DOMAIN tasks' = DOMAIN tasks
    /\ \A m \in DOMAIN tasks : m # n => tasks'[m] = tasks[m]
    /\ tasks'[n].op = tasks[n].op
    /\ ~Over(tasks'[n]) => tasks'[n].touches = tasks[n].touches
    /\ ~Over(tasks'[n]) /\ tasks[n].op = "deleteBucket" => tasks'[n].b = tasks[n].b
    /\ contended \subseteq contended'

\* Uploads may go, and get parts.
UploadsStay == \A u \in DOMAIN uploads' :
    u \in DOMAIN uploads /\ uploads'[u].bucket = uploads[u].bucket /\ uploads'[u].key = uploads[u].key

\* Nobody but n writes over the bytes of his part.
Spares(n) ==
    \A i \in DOMAIN disk : i \in DOMAIN disk' /\ (i \in DOMAIN tasks /\ OfPart(i) /\ i # n => disk'[i] = disk[i])

\* The uploads that others have found are as they found them, or gone.
UploadsFound == \A u \in DOMAIN uploads' \cap DOMAIN tasks :
    u \in DOMAIN uploads /\ uploads'[u].bucket = uploads[u].bucket /\ uploads'[u].key = uploads[u].key

\* The file is as it was.
SameFile(q) ==
    /\ q \in DOMAIN link' <=> q \in DOMAIN link
    /\ q \in DOMAIN link => link'[q] = link[q] /\ disk'[link[q]] = disk[link[q]]

\* Neither a part that is recorded next, nor an upload that goes next, is concerned.
Beside(n) ==
    /\ tasks[n].op = "part" => tasks[n].pc # "commit" /\ tasks'[n].pc # "commit"
    /\ tasks[n].op = "complete" => tasks[n].pc \notin {"removeParts", "commit"}

\* After the rename the temporary name is gone, and its inode is under the new name.
Relinked(n, path) ==
    /\ DOMAIN link' = (DOMAIN link \ {TmpPath(n)}) \cup {path} /\ link'[path] = n
    /\ \A q \in DOMAIN link' : q # path => q \in DOMAIN link /\ link'[q] = link[q]
    /\ n \in DOMAIN disk /\ TmpPath(n)[3] \notin PartNames

-----------------------------------------------------------------------------
(* Versions are deleted *)

PlainBatch(S) == [objs : [Keys -> Seq(S)], gone : SUBSET Paths]

-----------------------------------------------------------------------------
(* Requests that start beside the parts of uploads *)

\* The upload was there, or it comes with request n and has no parts.
NewUpload(u, n, t) ==
    \/ u \in DOMAIN uploads /\ uploads'[u] = uploads[u]
    \/ u = n /\ t.op = "createUpload" /\ UploadFits(u)' /\ DOMAIN uploads'[u].parts = {} /\ UploadKey(u)' \in t.touches

==============================================================================
