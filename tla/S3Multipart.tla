----------------------------- MODULE S3Multipart -----------------------------
(***************************************************************************)
(* Multipart uploads of the S3 service, on top of S3Objects: the upload    *)
(* and its parts in memory (MultipartUpload, UploadPart of store.rs), the  *)
(* bytes of the parts in memory or in files, and the handlers of           *)
(* provider.rs, whose guards and file operations interleave with those of  *)
(* the other requests.                                                     *)
(*                                                                         *)
(* CompleteMultipartUpload takes its ETag from the ETags the client lists; *)
(* the client is taken to list those the parts have.  The parts are read   *)
(* one after the other while the temporary file is written, which nobody   *)
(* sees before the rename: they are read first here and written then.      *)
(***************************************************************************)
EXTENDS S3Objects

CONSTANTS PartNumbers

\* The file of a part has a name that is no version's, and a path is something.
ASSUME PartAssumption ==
    /\ PartNumbers \subseteq Nat
    /\ \A p \in PartNumbers : Null # <<0, 0, p>> /\ None \notin Buckets \X Nat \X {<<0, 0, p>>}

VARIABLES
    assembled \* history: <<upload, request>> for each upload turned into an object

mvars == <<vars, assembled>>

Drop(f, x) == Restrict(f, DOMAIN f \ {x})

\* The directory of a part is the hash of "__multipart/{upload}/{key}".
PartPath(u, p) == <<uploads[u].bucket, u, <<0, 0, p>>>>
PartToken(u, p) == <<uploads[u].bucket, u, p>>

-----------------------------------------------------------------------------

CreateMultipartUpload(b, k) ==
    LET u == Len(tasks) + 1
    IN  /\ versioning[b] # None
        /\ Begin([Done("createUpload") EXCEPT !.touches = {<<b, k>>}])
        /\ uploads' = With(uploads, u, [bucket |-> b, key |-> k, parts |-> <<>>])
        /\ UNCHANGED <<versioning, objects, files, assembled>>

\* UploadPart: the upload is looked up, the part is written like an object ...
UploadPartLookup(u, p, kind) ==
    LET n == Len(tasks) + 1
    IN  /\ Begin([op |-> "part", pc |-> IF kind = "inline" THEN "commit" ELSE "ensureDir",
                  touches |-> {PartToken(u, p)}, u |-> u, p |-> p, body |-> <<n>>,
                  part |-> [etag |-> <<n>>, size |-> BodySize(kind),
                            data |-> IF kind = "inline" THEN Inline(<<n>>)
                                     ELSE FileRef(PartPath(u, p))],
                  path |-> PartPath(u, p), then |-> "write", after |-> "commit"])
        /\ UNCHANGED <<meta, files, assembled>>

\* ... and recorded if the upload is still there; the answer is a success anyway.
CommitPart(n) ==
    LET t == tasks[n]
    IN  /\ At(n, "commit") /\ t.op = "part"
        /\ uploads' = IF t.u \notin DOMAIN uploads THEN uploads
                      ELSE [uploads EXCEPT ![t.u].parts = With(@, t.p, t.part)]
        /\ Finish(n)
        /\ UNCHANGED <<versioning, objects, files, history, assembled>>

\* CompleteMultipartUpload: the listed parts that are there, kept by number (the
\* code sorts them here: the order of a function is that of its numbers) ...
CompleteGather(u, listed) ==
    LET up == uploads[u]
        parts == [p \in listed \cap DOMAIN up.parts |-> up.parts[p]]
    IN  /\ Begin([op |-> "complete", pc |-> "completeVersioning",
                  touches |-> {<<up.bucket, up.key>>} \cup {PartToken(u, p) : p \in listed},
                  u |-> u, b |-> up.bucket, k |-> up.key, parts |-> parts])
        /\ UNCHANGED <<meta, files, assembled>>

\* ... and taken in that order, and the versioning of the bucket under the next guard ...
CompleteVersioning(n) ==
    /\ At(n, "completeVersioning")
    /\ LET t == tasks[n]
           numbers == SetToSortSeq(DOMAIN t.parts, <)
           parts == [i \in DOMAIN numbers |-> t.parts[numbers[i]]]
           vid == NewVersionId(t.b, n)
           path == <<t.b, t.k, vid>>
           size == FoldLeft(LAMBDA sum, part : sum + part.size, 0, parts)
           partFiles == {t.parts[p].data.file : p \in DOMAIN t.parts} \ {None}
           afterwards == IF partFiles = {} THEN "commit" ELSE "removeParts"
       IN  tasks' = [tasks EXCEPT ![n] =
             [op |-> "complete", pc |-> IF size > Threshold THEN "ensureDir" ELSE "assemble",
              touches |-> t.touches, u |-> t.u, b |-> t.b, k |-> t.k, vid |-> vid, body |-> <<>>,
              etag |-> FlattenSeq([i \in DOMAIN parts |-> parts[i].etag]), size |-> size,
              data |-> IF size > Threshold THEN FileRef(path) ELSE Inline(<<>>),
              left |-> [i \in DOMAIN parts |-> parts[i].data], remove |-> partFiles,
              path |-> path, then |-> "assemble", after |-> afterwards]]
    /\ UNCHANGED <<meta, files, history, assembled>>

\* Mutant: the parts are read from the last to the first.
AssemblePart_FromBack(n) ==
    LET t == tasks[n]
        data == Last(t.left)
    IN  /\ At(n, "assemble") /\ t.left # <<>>
        /\ IF data.file # None /\ ~Linked(data.file) THEN Finish(n)
           ELSE tasks' = [tasks EXCEPT ![n].left = Front(@),
                    ![n].body = @ \o IF data.file = None THEN data.bytes ELSE disk[link[data.file]]]
        /\ UNCHANGED <<meta, files, history, assembled>>

\* Mutant: the file of a part is removed as soon as it has been read.
AssemblePart_Consumes(n) ==
    LET t == tasks[n]
        data == Head(t.left)
    IN  /\ At(n, "assemble") /\ t.left # <<>>
        /\ IF data.file # None /\ ~Linked(data.file) THEN Finish(n) /\ UNCHANGED link
           ELSE /\ tasks' = [tasks EXCEPT ![n].left = Tail(@),
                      ![n].body = @ \o IF data.file = None THEN data.bytes ELSE disk[link[data.file]]]
                /\ Unlink(data.file)
        /\ UNCHANGED <<meta, disk, dirs, known, history, assembled>>

\* ... the parts in turn, into memory or into the file of the object ...
AssemblePart(n) ==
    LET t == tasks[n]
        data == Head(t.left)
    IN  /\ At(n, "assemble") /\ t.left # <<>>
        /\ IF data.file # None /\ ~Linked(data.file) THEN Finish(n)
           ELSE tasks' = [tasks EXCEPT ![n].left = Tail(@),
                    ![n].body = @ \o IF data.file = None THEN data.bytes ELSE disk[link[data.file]]]
        /\ UNCHANGED <<meta, files, history, assembled>>

Assembled(n) ==
    LET t == tasks[n]
    IN  /\ At(n, "assemble") /\ t.left = <<>>
        /\ tasks' = IF t.data.file # None THEN [tasks EXCEPT ![n].pc = "write"]
                    ELSE [tasks EXCEPT ![n].pc = t.after, ![n].data = Inline(t.body)]
        /\ UNCHANGED <<meta, files, history, assembled>>

\* ... the files of the parts are removed ...
RemovePart(n, path) ==
    /\ At(n, "removeParts")
    /\ path \in tasks[n].remove
    /\ Unlink(path)
    /\ tasks' = [tasks EXCEPT ![n].remove = @ \ {path},
                              ![n].pc = IF tasks[n].remove = {path} THEN "commit" ELSE @]
    /\ UNCHANGED <<meta, disk, dirs, known, history, assembled>>

\* Mutant: the upload is not looked up again.
CommitComplete_Unchecked(n) ==
    LET t == tasks[n]
    IN  /\ At(n, "commit") /\ t.op = "complete"
        /\ uploads' = Drop(uploads, t.u)
        /\ objects' = [objects EXCEPT ![t.b][t.k] = PutObjectVersion(@, VersionOf(t))]
        /\ assembled' = assembled \cup {<<t.u, n>>}
        /\ ThenRemove(n, Replaced(t))
        /\ UNCHANGED <<versioning, files, history>>

\* ... and the upload becomes a version of its key, if it is still there.
CommitComplete(n) ==
    LET t == tasks[n]
    IN  /\ At(n, "commit") /\ t.op = "complete"
        /\ IF t.u \notin DOMAIN uploads
           THEN Finish(n) /\ UNCHANGED <<objects, uploads, assembled>>
           ELSE /\ uploads' = Drop(uploads, t.u)
                /\ objects' = [objects EXCEPT ![t.b][t.k] = PutObjectVersion(@, VersionOf(t))]
                /\ assembled' = assembled \cup {<<t.u, n>>}
                /\ ThenRemove(n, Replaced(t))
        /\ UNCHANGED <<versioning, files, history>>

\* AbortMultipartUpload forgets the upload; the files of its parts stay.
AbortMultipartUpload(u) ==
    /\ uploads' = Drop(uploads, u)
    /\ contended' = contended \cup
          UNION {tasks[n].touches : n \in {m \in InFlight : tasks[m].op = "complete"}}
    /\ UNCHANGED <<versioning, objects, files, tasks, torn, inPlace, everEnabled, assembled>>

-----------------------------------------------------------------------------

MInit == Init /\ assembled = {}

MultipartStep(n) ==
    \/ CommitPart(n)
    \/ CompleteVersioning(n)
    \/ AssemblePart(n)
    \/ Assembled(n)
    \/ (At(n, "removeParts") /\ \E path \in tasks[n].remove : RemovePart(n, path))
    \/ CommitComplete(n)

MNext ==
    \/ Next /\ UNCHANGED assembled
    \/ \E b \in Buckets, k \in Keys : CreateMultipartUpload(b, k)
    \/ \E u \in DOMAIN uploads :
         \/ \E p \in PartNumbers, kind \in BodyKinds : UploadPartLookup(u, p, kind)
         \/ \E listed \in SUBSET PartNumbers : CompleteGather(u, listed)
         \/ AbortMultipartUpload(u)
    \/ \E n \in DOMAIN tasks : MultipartStep(n)

MSpec == MInit /\ [][MNext]_mvars

-----------------------------------------------------------------------------
(* Properties *)

\* An upload becomes an object once, however many CompleteMultipartUpload
\* requests race for it.
CompletedOnce ==
    \A x, y \in assembled : x[1] = y[1] => x = y

\* The listed parts of an upload that is not complete can still be assembled:
\* after a failed CompleteMultipartUpload every part has its bytes, unless
\* requests on the part overlapped or one was dropped.
UploadsStayCompletable ==
    \A u \in DOMAIN uploads :
       LET b == uploads[u].bucket
           k == uploads[u].key
       IN  (AtRest(b, k) /\ <<b, k>> \notin contended) =>
             \A p \in DOMAIN uploads[u].parts :
                (PartToken(u, p) \notin contended
                 /\ \A n \in InFlight : PartToken(u, p) \notin tasks[n].touches)
                => Backed(uploads[u].parts[p])
==============================================================================
