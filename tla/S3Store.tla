------------------------------- MODULE S3Store -------------------------------
(***************************************************************************)
(* The object metadata of the S3 service: ObjectVersion and the operations *)
(* of S3Store on the version list of one key (crates/services/s3/src/      *)
(* store.rs).  A key without an entry in the objects map and a key with an *)
(* empty list are the same here: the code removes an entry whose list      *)
(* becomes empty.                                                          *)
(*                                                                         *)
(* A content is the sequence of the bodies it was assembled from, a body   *)
(* being named by the request that sent it, and an ETag is the content it  *)
(* was computed from.  Content types, user metadata, ACLs and dates are    *)
(* left out.                                                               *)
(***************************************************************************)
EXTENDS Naturals, Sequences, SequencesExt

CONSTANTS
    Null,      \* the version id "null" of an unversioned put
    None,      \* nothing: no bucket, no file, no version
    Threshold  \* inline_object_threshold()

\* ObjectDataRef: bytes kept in memory, or a path on disk.
Inline(content) == [file |-> None, bytes |-> content]
FileRef(path) == [file |-> path, bytes |-> <<>>]

ObjectVersion(vid, etag, size, data) ==
    [vid |-> vid, etag |-> etag, size |-> size, data |-> data, marker |-> FALSE]

DeleteMarker(vid) ==
    [vid |-> vid, etag |-> <<>>, size |-> 0, data |-> Inline(<<>>), marker |-> TRUE]

\* current_arc: the newest version, unless it is a delete marker.
Current(versions) ==
    IF versions = <<>> \/ Head(versions).marker THEN None ELSE Head(versions)

\* get_object_version: delete markers are found too.
GetVersion(versions, vid) ==
    LET hits == {i \in DOMAIN versions : versions[i].vid = vid}
    IN  IF hits = {} THEN None ELSE versions[CHOOSE i \in hits : \A j \in hits : i <= j]

\* put_object_version: a null version replaces the whole history of the key.
PutObjectVersion(versions, v) ==
    IF v.vid = Null THEN <<v>> ELSE <<v>> \o versions

\* ... and hands back the data of what was newest before.
Previous(versions) == IF versions = <<>> THEN None ELSE Head(versions).data

\* delete_object: a marker in a versioned bucket, otherwise the whole key goes.
DeleteObject(versions, enabled, vid) ==
    IF enabled THEN <<DeleteMarker(vid)>> \o versions ELSE <<>>

\* delete_object_version.
DeleteObjectVersion(versions, vid) ==
    LET hits == {i \in DOMAIN versions : versions[i].vid = vid}
    IN  IF hits = {} THEN versions
        ELSE RemoveAt(versions, CHOOSE i \in hits : \A j \in hits : i <= j)
==============================================================================
