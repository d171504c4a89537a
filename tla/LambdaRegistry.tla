--------------------------- MODULE LambdaRegistry ---------------------------
(***************************************************************************)
(* What Lambda keeps of one function name (services/lambda): the function, *)
(* its policy, its versions and aliases, and the layers and event source   *)
(* mappings of the account.  Every handler is one step under the guard of  *)
(* the store.                                                              *)
(***************************************************************************)
EXTENDS Integers, Sequences, FiniteSets, SequencesExt

CONSTANTS
    AliasNames,   \* names of aliases
    Sids,         \* statement ids of the function's policy
    Nil,
    MaxUploads,   \* bound: changes of code or configuration, numbered
    MaxVersions,  \* bound: versions of a function and of a layer
    MaxMappings   \* bound: event source mappings made

VARIABLES
    function,   \* functions at the name: Nil or [code, config, policy]
    versions,   \* versions at the name: a sequence of [version, code]
    aliases,    \* aliases at the name: a sequence of [name, version]
    layer,      \* layers at one name: a sequence of [version, code]
    mappings,   \* event_source_mappings: per UUID a batch size, or Nil
    uploads,    \* number of uploads
    published   \* history: the code published since the function was created

vars == <<function, versions, aliases, layer, mappings, uploads, published>>

Exists == function # Nil

Upload == uploads < MaxUploads /\ uploads' = uploads + 1

-----------------------------------------------------------------------------
(* Functions and their policy *)

CreateFunction ==
    /\ ~Exists /\ Upload
    /\ function' = [code |-> uploads + 1, config |-> 0, policy |-> <<>>]
    /\ UNCHANGED <<versions, aliases, layer, mappings, published>>

\* Mutant: the versions stay.
DeleteFunction_KeepsVersions ==
    /\ Exists
    /\ function' = Nil
    /\ aliases' = <<>>
    /\ published' = <<>>
    /\ UNCHANGED <<versions, layer, mappings, uploads>>

\* Aliases and versions go with the function; event source mappings stay.
DeleteFunction ==
    /\ Exists
    /\ function' = Nil
    /\ versions' = <<>> /\ aliases' = <<>>
    /\ published' = <<>>
    /\ UNCHANGED <<layer, mappings, uploads>>

UpdateFunctionCode ==
    /\ Exists /\ Upload
    /\ function' = [function EXCEPT !.code = uploads + 1]
    /\ UNCHANGED <<versions, aliases, layer, mappings, published>>

\* Runtime, handler, role, timeout, memory and environment: each is set when it is given.
UpdateFunctionConfiguration ==
    /\ Exists /\ Upload
    /\ function' = [function EXCEPT !.config = uploads + 1]
    /\ UNCHANGED <<versions, aliases, layer, mappings, published>>

Without(policy, sid) == SelectSeq(policy, LAMBDA s : s # sid)

\* A statement with the id of another replaces it.
AddPermission(sid) ==
    /\ Exists
    /\ function' = [function EXCEPT !.policy = Append(Without(@, sid), sid)]
    /\ UNCHANGED <<versions, aliases, layer, mappings, uploads, published>>

RemovePermission(sid) ==
    /\ Exists /\ sid \in ToSet(function.policy)
    /\ function' = [function EXCEPT !.policy = Without(@, sid)]
    /\ UNCHANGED <<versions, aliases, layer, mappings, uploads, published>>

-----------------------------------------------------------------------------
(* Versions, aliases and layers *)

\* The number of a version is one more than there are; it keeps the code and not the
\* configuration.
PublishVersion ==
    /\ Exists /\ Len(versions) < MaxVersions
    /\ versions' = Append(versions, [version |-> Len(versions) + 1, code |-> function.code])
    /\ published' = Append(published, function.code)
    /\ UNCHANGED <<function, aliases, layer, mappings, uploads>>

AliasAt(name) == SelectInSeq(aliases, LAMBDA a : a.name = name)

\* The version need not exist.
CreateAlias(name, version) ==
    /\ Exists /\ AliasAt(name) = 0
    /\ aliases' = Append(aliases, [name |-> name, version |-> version])
    /\ UNCHANGED <<function, versions, layer, mappings, uploads, published>>

UpdateAlias(name, version) ==
    /\ AliasAt(name) # 0
    /\ aliases' = [aliases EXCEPT ![AliasAt(name)].version = version]
    /\ UNCHANGED <<function, versions, layer, mappings, uploads, published>>

DeleteAlias(name) ==
    /\ AliasAt(name) # 0
    /\ aliases' = SelectSeq(aliases, LAMBDA a : a.name # name)
    /\ UNCHANGED <<function, versions, layer, mappings, uploads, published>>

PublishLayerVersion ==
    /\ Len(layer) < MaxVersions /\ Upload
    /\ layer' = Append(layer, [version |-> Len(layer) + 1, code |-> uploads + 1])
    /\ UNCHANGED <<function, versions, aliases, mappings, published>>

-----------------------------------------------------------------------------
(* Event source mappings: kept, and never polled *)

CreateEventSourceMapping ==
    /\ Len(mappings) < MaxMappings
    /\ mappings' = Append(mappings, 10)
    /\ UNCHANGED <<function, versions, aliases, layer, uploads, published>>

UpdateEventSourceMapping(id, size) ==
    /\ mappings[id] # Nil
    /\ mappings' = [mappings EXCEPT ![id] = size]
    /\ UNCHANGED <<function, versions, aliases, layer, uploads, published>>

DeleteEventSourceMapping(id) ==
    /\ mappings[id] # Nil
    /\ mappings' = [mappings EXCEPT ![id] = Nil]
    /\ UNCHANGED <<function, versions, aliases, layer, uploads, published>>

-----------------------------------------------------------------------------
(* Answers; Nil for one that is not found *)

GetAlias(name) == IF AliasAt(name) = 0 THEN Nil ELSE aliases[AliasAt(name)].version

GetLayerVersion(n) ==
    LET at == SelectInSeq(layer, LAMBDA l : l.version = n)
    IN  IF at = 0 THEN Nil ELSE layer[at].code

ListLayerVersions == layer

ListAliases == [i \in DOMAIN aliases |-> aliases[i].name]

ListLayers == IF layer = <<>> THEN {} ELSE {Last(layer)}

GetPolicy == IF ~Exists \/ function.policy = <<>> THEN Nil ELSE function.policy

-----------------------------------------------------------------------------
Init ==
    /\ function = Nil
    /\ versions = <<>> /\ aliases = <<>> /\ layer = <<>> /\ mappings = <<>>
    /\ uploads = 0
    /\ published = <<>>

Next ==
    \/ CreateFunction \/ DeleteFunction \/ UpdateFunctionCode \/ UpdateFunctionConfiguration
    \/ PublishVersion \/ PublishLayerVersion
    \/ \E s \in Sids : AddPermission(s) \/ RemovePermission(s)
    \/ \E a \in AliasNames : DeleteAlias(a) \/ \E v \in 1..2 : CreateAlias(a, v) \/ UpdateAlias(a, v)
    \/ CreateEventSourceMapping
    \/ \E id \in DOMAIN mappings : DeleteEventSourceMapping(id) \/ UpdateEventSourceMapping(id, 20)

-----------------------------------------------------------------------------
(* Properties *)

\* A version number names the code that was published under it for as long as the function
\* lives, and names nothing in a function created anew; a layer's versions are numbered
\* without a gap, the newest the one that is listed; aliases belong to a function that
\* exists, each name to one; a policy has one statement for an id.
VersionsAreImmutable ==
    /\ versions = [n \in DOMAIN published |-> [version |-> n, code |-> published[n]]]
    /\ \A n \in 1..MaxVersions : GetLayerVersion(n) # Nil <=> n <= Len(ListLayerVersions)
    /\ \A l \in ListLayers : \A n \in DOMAIN layer : GetLayerVersion(n) <= l.code
    /\ ~Exists => \A a \in AliasNames : GetAlias(a) = Nil
    /\ Cardinality(ToSet(ListAliases)) = Len(ListAliases)
    /\ GetPolicy # Nil => Cardinality(ToSet(GetPolicy)) = Len(GetPolicy)
=============================================================================
