------------------------------ MODULE S3Objects ------------------------------
(***************************************************************************)
(* The S3 service of one account and region: buckets and object metadata   *)
(* in memory (S3Store), object bytes in memory or in files                 *)
(* (ObjectFileStore, crates/services/s3/src/object_store.rs), and the      *)
(* asynchronous handlers of provider.rs that keep the two together.        *)
(*                                                                         *)
(* The store guard is held for single lookups and updates only, never      *)
(* across an await, so a handler is a task of several steps: what it read  *)
(* before a file operation may be stale after it.  A task stops before     *)
(* every store guard and every file operation.  Its future is dropped when *)
(* the client disconnects (Cancel); a blocking closure that outlives its   *)
(* request is a task cancelled after the closure's last step.              *)
(*                                                                         *)
(* Files are modelled with inodes, because CopyObject makes hard links.  A *)
(* path is <<bucket, directory, name>>, the directory being the hash of    *)
(* the key and the name a version id.  The content of a temporary file is  *)
(* visible to nobody, so creating and filling it is one step; removing a   *)
(* directory tree is one step as well.                                     *)
(*                                                                         *)
(* A request whose first check fails changes nothing and is not started.   *)
(***************************************************************************)
EXTENDS S3Store, FiniteSets

CONSTANTS
    Buckets,
    Keys,
    BodyKinds,     \* kinds of request bodies, a subset of AllBodyKinds
    Versionings,   \* what PutBucketVersioning sets
    CopySources,   \* keys CopyObject reads
    MaxBatch,      \* bound: entries of one DeleteObjects
    MaxConcurrent, \* bound: requests in flight
    MaxOps         \* bound: requests in a behaviour

\* A body at most as long as the threshold stays in memory, unless its length
\* is not announced: then it is streamed to a file whatever its length.
AllBodyKinds == {"inline", "chunked", "large"}

ASSUME S3Assumption ==
    /\ BodyKinds \subseteq AllBodyKinds
    /\ MaxBatch \in Nat /\ MaxConcurrent \in Nat /\ MaxOps \in Nat /\ Threshold \in Nat
    /\ CopySources \subseteq Keys
    /\ None \notin {"", "Enabled"} \cup Versionings

\* "null" is no UUID and no temporary name.
ASSUME NullAssumption == Null \notin Nat \X Nat /\ \A n \in 1..MaxOps : Null # <<n>>

BodySize(kind) == IF kind = "large" THEN Threshold + 1 ELSE Threshold

VARIABLES
    versioning, \* per bucket: Bucket.versioning, None when it does not exist
    objects,    \* per bucket and key: the versions, newest first
    uploads,    \* multipart_uploads, by upload id
    link,       \* the file system: path -> inode
    disk,       \* inode -> content
    dirs,       \* the key directories that exist: <<bucket, directory>>
    known,      \* known_dirs, the cache of ensure_dir_exists
    tasks,      \* the requests so far
    \* History, read by the properties only:
    contended,  \* keys two requests have worked on at once, or a dropped one, and
                \* their copies
    torn,       \* keys worked on while their bucket was being deleted
    inPlace,    \* inodes whose bytes fs::copy has overwritten
    everEnabled \* buckets that have been versioned

vars == <<versioning, objects, uploads, link, disk, dirs, known, tasks,
          contended, torn, inPlace, everEnabled>>
files == <<link, disk, dirs, known>>
meta == <<versioning, objects, uploads>>
history == <<contended, torn, inPlace, everEnabled>>

Init ==
    /\ versioning = [b \in Buckets |-> None]
    /\ objects = [b \in Buckets |-> [k \in Keys |-> <<>>]]
    /\ uploads = <<>>
    /\ link = <<>>
    /\ disk = <<>>
    /\ dirs = {}
    /\ known = {}
    /\ tasks = <<>>
    /\ contended = {}
    /\ torn = {}
    /\ inPlace = {}
    /\ everEnabled = {}

-----------------------------------------------------------------------------
(* Tasks *)

\* What is left of an answered request.
Done(op) == [op |-> op, pc |-> "done", touches |-> {}]
Dropped(op) == [op |-> op, pc |-> "dropped", touches |-> {}]

InFlight == {n \in DOMAIN tasks : tasks[n].pc \notin {"done", "dropped"}}

\* Start a request that works on the keys it touches.  The number of the request
\* names its body, its inode and the ids it makes up.
Begin(t) ==
    LET others == {n \in InFlight : tasks[n].touches \cap t.touches # {}}
        both == UNION {tasks[n].touches \cup t.touches : n \in others}
        tainted == IF t.touches \cap contended = {} THEN {} ELSE t.touches
    IN  /\ Len(tasks) < MaxOps
        /\ Cardinality(InFlight) < MaxConcurrent
        /\ tasks' = Append(tasks, t)
        /\ contended' = contended \cup both \cup tainted
        /\ torn' = IF t.op = "deleteBucket" \/ \E n \in others : tasks[n].op = "deleteBucket"
                   THEN torn \cup both ELSE torn
        /\ UNCHANGED <<inPlace, everEnabled>>

Uuid(n, i) == <<n, i>>
Goto(n, pc) == tasks' = [tasks EXCEPT ![n].pc = pc]
Finish(n) == tasks' = [tasks EXCEPT ![n] = Done(@.op)]

At(n, pc) == n \in DOMAIN tasks /\ tasks[n].pc = pc

\* The client is gone: the handler's future is dropped at an await.
Cancel(n) ==
    /\ n \in InFlight
    /\ tasks' = [tasks EXCEPT ![n] = Dropped(@.op)]
    /\ contended' = contended \cup tasks[n].touches
    /\ UNCHANGED <<meta, files, torn, inPlace, everEnabled>>

-----------------------------------------------------------------------------
(* ObjectFileStore *)

Dir(path) == <<path[1], path[2]>>
TmpPath(n) == LET p == tasks[n].path IN <<p[1], p[2], <<n>>>>

\* The function with one more entry, or another value for it.
With(f, x, value) == [y \in DOMAIN f \cup {x} |-> IF y = x THEN value ELSE f[y]]

Linked(path) == path \in DOMAIN link
Unlink(path) == link' = Restrict(link, DOMAIN link \ {path})

\* ensure_dir_exists: a directory in the cache is not looked at.
EnsureDir(n) ==
    /\ At(n, "ensureDir")
    /\ IF Dir(tasks[n].path) \in known
       THEN Goto(n, tasks[n].then) /\ UNCHANGED dirs
       ELSE /\ Goto(n, "remember")
            /\ dirs' = dirs \cup {Dir(tasks[n].path)}
    /\ UNCHANGED <<meta, link, disk, known, history>>

RememberDir(n) ==
    /\ At(n, "remember")
    /\ known' = known \cup {Dir(tasks[n].path)}
    /\ Goto(n, tasks[n].then)
    /\ UNCHANGED <<meta, link, disk, dirs, history>>

\* Mutant: the temporary file is not renamed.
WriteTmp_NotRenamed(n) ==
    /\ At(n, "write")
    /\ link' = With(link, TmpPath(n), n)
    /\ disk' = With(disk, n, tasks[n].body)
    /\ Goto(n, "commit")
    /\ UNCHANGED <<meta, dirs, known, history>>

\* Write the temporary file; creating it fails when the directory is gone.
WriteTmp(n) ==
    /\ At(n, "write")
    /\ IF Dir(tasks[n].path) \in dirs
       THEN /\ link' = With(link, TmpPath(n), n)
            /\ disk' = With(disk, n, tasks[n].body)
            /\ Goto(n, "rename")
       ELSE Finish(n) /\ UNCHANGED <<link, disk>>
    /\ UNCHANGED <<meta, dirs, known, history>>

\* Mutant: the body is written at the final path.
WriteFails_InPlace(n) ==
    /\ At(n, "write")
    /\ Dir(tasks[n].path) \in dirs
    /\ link' = With(link, tasks[n].path, n)
    /\ disk' = With(disk, n, <<>>)
    /\ Finish(n)
    /\ UNCHANGED <<meta, dirs, known, history>>

\* The write fails half way; the temporary file is left for the next start.
WriteFails(n) ==
    /\ At(n, "write")
    /\ Dir(tasks[n].path) \in dirs
    /\ link' = With(link, TmpPath(n), n)
    /\ disk' = With(disk, n, <<>>)
    /\ Finish(n)
    /\ UNCHANGED <<meta, dirs, known, history>>

\* The rename fails when the temporary file is gone with its directory.
Rename(n) ==
    /\ At(n, "rename")
    /\ IF Linked(TmpPath(n))
       THEN /\ link' = With(Restrict(link, DOMAIN link \ {TmpPath(n)}), tasks[n].path, link[TmpPath(n)])
            /\ Goto(n, tasks[n].after)
       ELSE Finish(n) /\ UNCHANGED link
    /\ UNCHANGED <<meta, disk, dirs, known, history>>

\* tokio::fs::remove_file of the paths a handler collected, one at a time.
RemoveFile(n, path) ==
    /\ At(n, "cleanup")
    /\ path \in tasks[n].remove
    /\ Unlink(path)
    /\ IF tasks[n].remove = {path}
       THEN Finish(n)
       ELSE tasks' = [tasks EXCEPT ![n].remove = @ \ {path}]
    /\ UNCHANGED <<meta, disk, dirs, known, history>>

\* The rest of a handler: remove these files, then answer.
ThenRemove(n, paths) ==
    IF paths = {} THEN Finish(n)
    ELSE tasks' = [tasks EXCEPT ![n] = [op |-> @.op, pc |-> "cleanup", touches |-> @.touches,
                                         remove |-> paths]]

-----------------------------------------------------------------------------
(* Buckets *)

CreateBucket(b) ==
    /\ versioning[b] = None
    /\ versioning' = [versioning EXCEPT ![b] = ""]
    /\ UNCHANGED <<objects, uploads, files, tasks, history>>

PutBucketVersioning(b, status) ==
    /\ versioning[b] # None
    /\ versioning' = [versioning EXCEPT ![b] = status]
    /\ everEnabled' = IF status = "Enabled" THEN everEnabled \cup {b} ELSE everEnabled
    /\ UNCHANGED <<objects, uploads, files, tasks, contended, torn, inPlace>>

\* DeleteBucket looks under one guard ...
DeleteBucketCheck(b) ==
    /\ versioning[b] # None
    /\ \A k \in Keys : objects[b][k] = <<>>
    /\ \A u \in DOMAIN uploads : uploads[u].bucket # b
    /\ Begin([op |-> "deleteBucket", pc |-> "deleteBucket", touches |-> {b} \X Keys, b |-> b])
    /\ UNCHANGED <<meta, files>>

\* ... and removes under another.
DeleteBucketMeta(n) ==
    /\ At(n, "deleteBucket")
    /\ LET b == tasks[n].b
       IN  IF versioning[b] = None THEN UNCHANGED meta
           ELSE /\ versioning' = [versioning EXCEPT ![b] = None]
                /\ objects' = [objects EXCEPT ![b] = [k \in Keys |-> <<>>]]
                /\ UNCHANGED uploads
    /\ Goto(n, "removeDir")
    /\ UNCHANGED <<files, history>>

\* delete_bucket_dir: the tree goes first, then the cache entries below it.
RemoveBucketDir(n) ==
    /\ At(n, "removeDir")
    /\ LET b == tasks[n].b
       IN  /\ link' = Restrict(link, {p \in DOMAIN link : p[1] # b})
           /\ dirs' = {d \in dirs : d[1] # b}
           /\ IF \E d \in dirs : d[1] = b THEN Goto(n, "forgetDirs") ELSE Finish(n)
    /\ UNCHANGED <<meta, disk, known, history>>

ForgetDirs(n) ==
    /\ At(n, "forgetDirs")
    /\ known' = {d \in known : d[1] # tasks[n].b}
    /\ Finish(n)
    /\ UNCHANGED <<meta, link, disk, dirs, history>>

-----------------------------------------------------------------------------
(* PutObject *)

\* The version id a write takes from the versioning state it has read.
NewVersionId(b, n) == IF versioning[b] = "Enabled" THEN Uuid(n, 1) ELSE Null

PutPreflight(b, k, kind) ==
    LET n == Len(tasks) + 1
        vid == NewVersionId(b, n)
    IN  /\ versioning[b] # None
        /\ Begin([op |-> "put", pc |-> IF kind = "inline" THEN "commit" ELSE "ensureDir",
                  touches |-> {<<b, k>>}, b |-> b, k |-> k, vid |-> vid,
                  body |-> <<n>>, etag |-> <<n>>, size |-> BodySize(kind),
                  data |-> IF kind = "inline" THEN Inline(<<n>>) ELSE FileRef(<<b, k, vid>>),
                  path |-> <<b, k, vid>>, then |-> "write", after |-> "commit"])
        /\ UNCHANGED <<meta, files>>

VersionOf(t) == ObjectVersion(t.vid, t.etag, t.size, t.data)

\* Mutant: a version with an id of its own replaces one too.
Replaced_ByAnyVersion(t) ==
    LET prev == Previous(objects[t.b][t.k])
    IN  IF prev = None \/ prev.file = None \/ prev.file = t.data.file THEN {} ELSE {prev.file}

\* Mutant: the file of the version before stays.
Replaced_Kept(t) == {}

\* A null version takes the file of the version it replaces with it, unless
\* that file is its own.
Replaced(t) ==
    LET prev == Previous(objects[t.b][t.k])
    IN  IF t.vid # Null \/ prev = None \/ prev.file = None \/ prev.file = t.data.file
        THEN {} ELSE {prev.file}

\* The bucket is looked up again: without it the new file is removed.
CommitPut(n) ==
    LET t == tasks[n]
    IN  /\ At(n, "commit") /\ t.op = "put"
        /\ IF versioning[t.b] = None
           THEN /\ ThenRemove(n, IF t.data.file = None THEN {} ELSE {t.data.file})
                /\ UNCHANGED objects
           ELSE /\ objects' = [objects EXCEPT ![t.b][t.k] = PutObjectVersion(@, VersionOf(t))]
                /\ ThenRemove(n, Replaced(t))
        /\ UNCHANGED <<versioning, uploads, files, history>>

-----------------------------------------------------------------------------
(* GetObject *)

\* The metadata is read under the guard; bytes in memory are answered at once.
GetObject(b, k, vid) ==
    LET v == IF vid = None THEN Current(objects[b][k]) ELSE GetVersion(objects[b][k], vid)
    IN  /\ versioning[b] # None
        /\ v # None
        /\ Begin([op |-> "get", pc |-> IF v.data.file = None THEN "done" ELSE "read",
                  touches |-> {}, vid |-> v.vid, etag |-> v.etag,
                  got |-> v.data.bytes, path |-> v.data.file])
        /\ UNCHANGED <<meta, files>>

\* The file is opened later; without it the answer is an error.
ReadFile(n) ==
    /\ At(n, "read")
    /\ IF Linked(tasks[n].path)
       THEN tasks' = [tasks EXCEPT ![n].pc = "done", ![n].got = disk[link[tasks[n].path]]]
       ELSE Finish(n)
    /\ UNCHANGED <<meta, files, history>>

-----------------------------------------------------------------------------
(* DeleteObject and DeleteObjects *)

\* The bucket is looked for first; DeleteObject is a batch of one.
DeleteCheck(b, entries) ==
    /\ versioning[b] # None
    /\ Begin([op |-> "delete", pc |-> "delete",
              touches |-> {<<b, entries[i].k>> : i \in DOMAIN entries},
              b |-> b, entries |-> entries])
    /\ UNCHANGED <<meta, files>>

\* One entry, and the file to remove afterwards: only the newest version's
\* when the whole key goes.
DeleteEntry(b, n, acc, i) ==
    LET e == tasks[n].entries[i]
        vs == acc.objs[e.k]
        hit == IF e.vid = None
               THEN IF versioning[b] = "Enabled" THEN None ELSE Previous(vs)
               ELSE LET v == GetVersion(vs, e.vid) IN IF v = None THEN None ELSE v.data
    IN  [objs |-> [acc.objs EXCEPT ![e.k] =
             IF e.vid = None THEN DeleteObject(vs, versioning[b] = "Enabled", Uuid(n, i))
             ELSE DeleteObjectVersion(vs, e.vid)],
         gone |-> acc.gone \cup (IF hit = None \/ hit.file = None THEN {} ELSE {hit.file})]

\* ... and all entries, in order.
DeletedEntries(n) ==
    LET b == tasks[n].b
        after[i \in 0..Len(tasks[n].entries)] ==
            IF i = 0 THEN [objs |-> objects[b], gone |-> {}] ELSE DeleteEntry(b, n, after[i - 1], i)
    IN  after[Len(tasks[n].entries)]

DeleteMeta(n) ==
    /\ At(n, "delete")
    /\ LET t == tasks[n]
           done == DeletedEntries(n)
       IN  /\ objects' = [objects EXCEPT ![t.b] = done.objs]
           /\ ThenRemove(n, done.gone)
    /\ UNCHANGED <<versioning, uploads, files, history>>

-----------------------------------------------------------------------------
(* CopyObject *)

\* The source's metadata and the destination bucket are read under one guard ...
CopyLookup(sb, sk, b, k) ==
    LET v == Current(objects[sb][sk])
    IN  /\ versioning[b] # None
        /\ v # None
        /\ Begin([op |-> "copy", pc |-> "copyVersioning", touches |-> {<<sb, sk>>, <<b, k>>},
                  b |-> b, k |-> k, src |-> v, srcPath |-> <<sb, sk, v.vid>>])
        /\ UNCHANGED <<meta, files>>

\* ... the versioning of the destination under the next.
CopyVersioning(n) ==
    /\ At(n, "copyVersioning")
    /\ LET t == tasks[n]
           vid == NewVersionId(t.b, n)
           path == <<t.b, t.k, vid>>
           toFile == t.src.data.file # None /\ t.src.size > Threshold
       IN  tasks' = [tasks EXCEPT ![n] =
             [op |-> "copy", pc |-> CASE t.src.data.file = None -> "commit"
                                      [] toFile -> "copyResolve"
                                      [] OTHER -> "copyRead",
              touches |-> t.touches, b |-> t.b, k |-> t.k, vid |-> vid,
              etag |-> t.src.etag, size |-> t.src.size,
              data |-> IF toFile THEN FileRef(path) ELSE t.src.data,
              srcPath |-> t.srcPath, path |-> path, then |-> "copyLink",
              from |-> None, to |-> None]]
    /\ UNCHANGED <<meta, files, history>>

\* A short file is read into memory.
CopyRead(n) ==
    /\ At(n, "copyRead")
    /\ LET p == tasks[n].data.file
       IN  IF Linked(p)
           THEN tasks' = [tasks EXCEPT ![n].data = Inline(disk[link[p]]), ![n].pc = "commit"]
           ELSE Finish(n)
    /\ UNCHANGED <<meta, files, history>>

\* copy_object: the source must be there ...
CopyResolve(n) ==
    /\ At(n, "copyResolve")
    /\ IF Linked(tasks[n].srcPath) THEN Goto(n, "ensureDir") ELSE Finish(n)
    /\ UNCHANGED <<meta, files, history>>

\* ... a copy onto itself is done, otherwise a hard link is tried, and when the
\* destination exists the bytes are copied over the old ones, which fs::copy
\* truncates first.
CopyLink(n) ==
    LET t == tasks[n]
    IN  /\ At(n, "copyLink")
        /\ IF t.srcPath = t.path
           THEN Goto(n, "commit") /\ UNCHANGED <<link, disk, inPlace>>
           ELSE IF ~Linked(t.srcPath) \/ Dir(t.path) \notin dirs
           THEN Finish(n) /\ UNCHANGED <<link, disk, inPlace>>
           ELSE IF ~Linked(t.path)
           THEN /\ link' = With(link, t.path, link[t.srcPath])
                /\ Goto(n, "commit")
                /\ UNCHANGED <<disk, inPlace>>
           ELSE /\ disk' = [disk EXCEPT ![link[t.path]] = <<>>]
                /\ inPlace' = inPlace \cup {link[t.path]}
                /\ tasks' = [tasks EXCEPT ![n].pc = "copyFill",
                                          ![n].from = link[t.srcPath], ![n].to = link[t.path]]
                /\ UNCHANGED link
    /\ UNCHANGED <<meta, dirs, known, contended, torn, everEnabled>>

CopyFill(n) ==
    /\ At(n, "copyFill")
    /\ disk' = [disk EXCEPT ![tasks[n].to] = disk[tasks[n].from]]
    /\ Goto(n, "commit")
    /\ UNCHANGED <<meta, link, dirs, known, history>>

\* Unlike PutObject, the bucket is not looked up again.
CommitCopy(n) ==
    LET t == tasks[n]
    IN  /\ At(n, "commit") /\ t.op = "copy"
        /\ objects' = [objects EXCEPT ![t.b][t.k] = PutObjectVersion(@, VersionOf(t))]
        /\ ThenRemove(n, Replaced(t))
        /\ UNCHANGED <<versioning, uploads, files, history>>

-----------------------------------------------------------------------------

\* Version ids clients have been told of, or "null".
VersionIds(b, k) == {objects[b][k][i].vid : i \in DOMAIN objects[b][k]} \cup {None}

Batches(b) ==
    UNION {[1..m -> UNION {[k : {k}, vid : VersionIds(b, k)] : k \in Keys}] : m \in 1..MaxBatch}

BucketNext(b) ==
    \/ CreateBucket(b)
    \/ \E status \in Versionings : PutBucketVersioning(b, status)
    \/ DeleteBucketCheck(b)

ObjectNext(b) ==
    \/ \E k \in Keys, kind \in BodyKinds : PutPreflight(b, k, kind)
    \/ \E k \in Keys : \E vid \in VersionIds(b, k) : GetObject(b, k, vid)
    \/ \E entries \in Batches(b) : DeleteCheck(b, entries)
    \/ \E sb \in Buckets, sk \in CopySources, k \in Keys : CopyLookup(sb, sk, b, k)

FileStoreStep(n) ==
    \/ EnsureDir(n)
    \/ RememberDir(n)
    \/ WriteTmp(n)
    \/ WriteFails(n)
    \/ Rename(n)
    \/ (At(n, "cleanup") /\ \E path \in tasks[n].remove : RemoveFile(n, path))

TaskStep(n) ==
    \/ FileStoreStep(n)
    \/ DeleteBucketMeta(n)
    \/ RemoveBucketDir(n)
    \/ ForgetDirs(n)
    \/ CommitPut(n)
    \/ ReadFile(n)
    \/ DeleteMeta(n)
    \/ CopyVersioning(n)
    \/ CopyRead(n)
    \/ CopyResolve(n)
    \/ CopyLink(n)
    \/ CopyFill(n)
    \/ CommitCopy(n)
    \/ Cancel(n)

Next ==
    \/ \E b \in Buckets : BucketNext(b) \/ ObjectNext(b)
    \/ \E n \in DOMAIN tasks : TaskStep(n)

Spec == Init /\ [][Next]_vars

-----------------------------------------------------------------------------
(* Properties *)

Paths == Buckets \X Keys \X ({Null} \cup ((1..MaxOps) \X {1}))
Vids == {Null} \cup (Nat \X Nat)
Contents == Seq(Nat)
DataRecords == [file : Paths \cup {None}, bytes : Contents]
VersionRecords == [vid : Vids, etag : Contents, size : Nat, data : DataRecords, marker : BOOLEAN]

\* Nothing is no path, id, version or data of one.
ASSUME NoneAssumption == None \notin Paths \cup Vids \cup DataRecords \cup VersionRecords

Versions(b, k) == {objects[b][k][i] : i \in DOMAIN objects[b][k]}

TypeOK ==
    /\ versioning \in [Buckets -> {None, ""} \cup Versionings]
    /\ objects \in [Buckets -> [Keys -> Seq(VersionRecords)]]
    /\ disk \in [DOMAIN disk -> Contents]
    /\ \A p \in DOMAIN link : link[p] \in DOMAIN disk /\ p[1] \in Buckets
    /\ known \cup dirs \subseteq Buckets \X (Keys \cup Nat)
    /\ Len(tasks) <= MaxOps
    /\ contended \cup torn \subseteq Buckets \X Keys
    /\ inPlace \subseteq DOMAIN disk
    /\ everEnabled \subseteq Buckets

\* The bytes a version's ETag was computed from are the bytes it stands for.
Backed(v) ==
    IF v.data.file = None THEN v.data.bytes = v.etag
    ELSE Linked(v.data.file) /\ disk[link[v.data.file]] = v.etag

\* fs::copy has written over the file of this version.
Overwritten(v) ==
    v.data.file # None /\ Linked(v.data.file) /\ link[v.data.file] \in inPlace

AtRest(b, k) == \A n \in InFlight : <<b, k>> \notin tasks[n].touches

\* Requests on other keys do not matter: as long as the requests that touch a
\* key come one after the other, and none is dropped by its client, metadata
\* and files of the key agree whenever none of them is running.  (Versions
\* whose file CopyObject has overwritten in place are another matter.)
QuietKeysAgree ==
    \A b \in Buckets, k \in Keys :
       AtRest(b, k) /\ <<b, k>> \notin contended
       => \A v \in Versions(b, k) : Backed(v) \/ v.marker \/ Overwritten(v)

\* A version PutObject stored under an id of its own keeps its bytes until its
\* metadata is gone, whatever races on the key, fails or is dropped, unless
\* the bucket was deleted meanwhile.
VersionsAreDurable ==
    /\ TypeOK
    /\ \A b \in Buckets, k \in Keys : <<b, k>> \notin torn =>
       \A v \in Versions(b, k) :
          (v.vid # Null /\ ~v.marker /\ tasks[v.vid[1]].op = "put" /\ ~Overwritten(v))
          => Backed(v)

\* A body that is read from a file is whole: one body some client sent, never
\* a part of one or a mixture.  The answer of an id of its own fits its ETag.
ReadsAreWhole ==
    \A n \in DOMAIN tasks :
       LET t == tasks[n]
       IN  (t.op = "get" /\ t.pc = "done" /\ t # Done("get") /\ inPlace = {}) =>
             /\ t.path # None => Len(t.got) = 1
             /\ (t.vid # Null /\ t.path # None /\ tasks[t.vid[1]].op = "put") => t.got = t.etag

\* In a bucket that was never versioned no file outlives its object: a key
\* that was never contended has no file but the one its metadata refers to.
NoFileLeftBehind ==
    \A b \in Buckets \ everEnabled, k \in Keys :
       (AtRest(b, k) /\ <<b, k>> \notin contended /\ Linked(<<b, k, Null>>))
       => \E v \in Versions(b, k) : v.data.file = <<b, k, Null>>

Answered == \A n \in DOMAIN tasks : tasks[n].pc = "done"

\* "the final object reflects exactly one of the writes with no I/O errors or
\* corrupt data": once concurrent PutObject requests have all been answered,
\* ETag, length and bytes of the object come from one of them.
ConcurrentPutsAgree ==
    (Answered /\ \A n \in DOMAIN tasks : tasks[n].op = "put")
    => \A b \in Buckets, k \in Keys : \A v \in Versions(b, k) : Backed(v)
==============================================================================
