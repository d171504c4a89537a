-------------------------------- MODULE Ecr --------------------------------
(***************************************************************************)
(* The container registry (services/ecr): repositories, images by digest,  *)
(* and two indexes, of the digests of a repository and of the digest of a  *)
(* tag.  Every handler is one step under the guard of the store.           *)
(***************************************************************************)
EXTENDS Integers, Sequences, SequencesExt

CONSTANTS
    Repositories, Tags,
    Nil,
    MaxDigests    \* bound: images put

VARIABLES
    repositories,  \* EcrStore.repositories: the names that exist
    registry,      \* EcrStore: [images, repoIndex, tagIndex]
    digests,       \* number of digests made
    tagged         \* history: per repository and tag, the image put last under it, Nil once it is deleted

vars == <<repositories, registry, digests, tagged>>

\* An imageId of a request: a digest, a tag, both or neither.
ImageIds == [digest : (1 .. MaxDigests) \cup {Nil}, tag : Tags \cup {Nil}]

NoTags == [r \in Repositories |-> [t \in Tags |-> Nil]]

-----------------------------------------------------------------------------
(* The store *)

\* Mutant: the tag stays with the image that had it.
InsertImage_KeepsOldTag(s, d, image) ==
    [images |-> [s.images EXCEPT ![d] = image],
     repoIndex |-> [s.repoIndex EXCEPT ![image.repo] = Append(@, d)],
     tagIndex |-> [s.tagIndex EXCEPT ![image.repo] =
                      [t \in Tags |-> IF t \in image.tags THEN d ELSE @[t]]]]

\* A digest is new, so that it is in no repository's index.
InsertImage(s, d, image) ==
    LET owners == {s.tagIndex[image.repo][t] : t \in image.tags}
    IN [images |-> [e \in DOMAIN s.images |->
                       CASE e = d -> image
                         [] e # d /\ e \in owners /\ s.images[e] # Nil ->
                               [s.images[e] EXCEPT !.tags =
                                   {t \in @ : t \notin image.tags \/ s.tagIndex[image.repo][t] # e}]
                         [] OTHER -> s.images[e]],
        repoIndex |-> [s.repoIndex EXCEPT ![image.repo] = Append(@, d)],
        tagIndex |-> [s.tagIndex EXCEPT ![image.repo] =
                         [t \in Tags |-> IF t \in image.tags THEN d ELSE @[t]]]]

RemoveImage(s, d) ==
    IF s.images[d] = Nil THEN s
    ELSE LET image == s.images[d]
         IN [images |-> [s.images EXCEPT ![d] = Nil],
             repoIndex |-> [s.repoIndex EXCEPT ![image.repo] = SelectSeq(@, LAMBDA e : e # d)],
             tagIndex |-> [s.tagIndex EXCEPT ![image.repo] =
                              [t \in Tags |-> IF t \in image.tags THEN Nil ELSE @[t]]]]

RemoveRepoImages(s, r) ==
    LET gone == Range(s.repoIndex[r])
        tags == UNION {s.images[d].tags : d \in {e \in gone : s.images[e] # Nil}}
    IN [images |-> [d \in DOMAIN s.images |-> IF d \in gone THEN Nil ELSE s.images[d]],
        repoIndex |-> [s.repoIndex EXCEPT ![r] = <<>>],
        tagIndex |-> [s.tagIndex EXCEPT ![r] = [t \in Tags |-> IF t \in tags THEN Nil ELSE @[t]]]]

ImagesForRepo(r) == SelectSeq(registry.repoIndex[r], LAMBDA d : registry.images[d] # Nil)

-----------------------------------------------------------------------------
(* Reads *)

\* The digest an imageId names when images are got: the tag is checked against the image's own
\* tags when there is a digest, and looked up in the index when there is none.
BatchGetImage(r, id) ==
    LET d == IF id.digest # Nil THEN id.digest
             ELSE IF id.tag # Nil THEN registry.tagIndex[r][id.tag] ELSE Nil
        found == /\ d # Nil /\ registry.images[d] # Nil
                 /\ id.digest # Nil /\ id.tag # Nil => id.tag \in registry.images[d].tags
                 /\ registry.images[d].repo = r
    IN IF found THEN d ELSE Nil

DescribeImages(r, filters) ==
    {d \in Range(ImagesForRepo(r)) :
        filters = {} \/ \E id \in filters :
            /\ id.digest # Nil \/ id.tag # Nil
            /\ id.digest # Nil => id.digest = d
            /\ id.tag # Nil => id.tag \in registry.images[d].tags}

ListImages(r) == Range(ImagesForRepo(r))

-----------------------------------------------------------------------------
(* Operations *)

CreateRepository(r) ==
    /\ r \notin repositories
    /\ repositories' = repositories \cup {r}
    /\ UNCHANGED <<registry, digests, tagged>>

DeleteRepository(r) ==
    /\ r \in repositories
    /\ repositories' = repositories \ {r}
    /\ registry' = RemoveRepoImages(registry, r)
    /\ tagged' = [tagged EXCEPT ![r] = NoTags[r]]
    /\ UNCHANGED digests

PutImage(r, t) ==
    /\ r \in repositories /\ digests < MaxDigests
    /\ digests' = digests + 1
    /\ registry' = InsertImage(registry, digests + 1, [repo |-> r, tags |-> {t} \ {Nil}])
    /\ tagged' = IF t = Nil THEN tagged ELSE [tagged EXCEPT ![r][t] = digests + 1]
    /\ UNCHANGED repositories

\* The digest an imageId names when images are deleted: a tag beside a digest is not looked at.
Target(s, r, id) ==
    CASE id.digest # Nil ->
            IF s.images[id.digest] # Nil /\ s.images[id.digest].repo = r THEN id.digest ELSE Nil
      [] id.digest = Nil /\ id.tag # Nil -> s.tagIndex[r][id.tag]
      [] OTHER -> Nil

DeleteOne(s, r, id) == IF Target(s, r, id) = Nil THEN s ELSE RemoveImage(s, Target(s, r, id))

BatchDeleteImage(r, ids) ==
    /\ r \in repositories
    /\ registry' = FoldLeft(LAMBDA s, id : DeleteOne(s, r, id), registry, ids)
    /\ tagged' = [tagged EXCEPT ![r] = [t \in Tags |->
                     IF @[t] # Nil /\ registry'.images[@[t]] = Nil THEN Nil ELSE @[t]]]
    /\ UNCHANGED <<repositories, digests>>

-----------------------------------------------------------------------------
Init ==
    /\ repositories = {} /\ digests = 0
    /\ registry = [images |-> [d \in 1 .. MaxDigests |-> Nil],
                   repoIndex |-> [r \in Repositories |-> <<>>], tagIndex |-> NoTags]
    /\ tagged = NoTags

Next ==
    \E r \in Repositories :
        \/ CreateRepository(r)
        \/ DeleteRepository(r)
        \/ \E t \in Tags \cup {Nil} : PutImage(r, t)
        \/ \E ids \in SeqOf(ImageIds, 2) : BatchDeleteImage(r, ids)

Spec == Init /\ [][Next]_vars

-----------------------------------------------------------------------------
(* Properties *)

\* A tag of a repository names the image put last under it until that image is deleted, and no
\* other: whether it is looked up in the index, by the images' own tags, or beside a digest.  An
\* earlier image that has lost the tag takes nothing with it when it is deleted, and a repository
\* that is created again has no image of the one before it (insert_image, remove_image and
\* remove_repo_images keep the three structures by hand).
TagsResolveToTheirImage ==
    \A r \in Repositories :
        /\ \A t \in Tags :
              LET last == tagged[r][t]
              IN /\ BatchGetImage(r, [digest |-> Nil, tag |-> t]) = last
                 /\ DescribeImages(r, {[digest |-> Nil, tag |-> t]}) = {last} \ {Nil}
                 /\ \A d \in 1 .. digests :
                       BatchGetImage(r, [digest |-> d, tag |-> t]) = IF d = last THEN d ELSE Nil
        /\ ListImages(r) = {d \in 1 .. digests : BatchGetImage(r, [digest |-> d, tag |-> Nil]) = d}
        /\ r \notin repositories => ListImages(r) = {}
=============================================================================
