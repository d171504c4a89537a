-------------------------------- MODULE Kms --------------------------------
(***************************************************************************)
(* The key management service (services/kms): keys and their states, the   *)
(* aliases that name them, and the ciphertexts and signatures that clients *)
(* keep.  Every handler reads and writes under one guard of the store and  *)
(* is one step; what a client was given is remembered in blobs.            *)
(***************************************************************************)
EXTENDS Integers, Sequences, FiniteSets

CONSTANTS
    Aliases,    \* alias names
    KeyTags,    \* tag names
    Messages,   \* plaintexts, and messages to sign
    MaxKeys,    \* bound: keys created (keys are never removed)
    MaxBlobs    \* bound: ciphertexts and signatures made

VARIABLES
    keys,        \* KmsStore.keys; a key's id is its number
    aliasToKey,  \* KmsStore.alias_to_key; 0 for none
    blobs        \* the ciphertexts and signatures handed out

vars == <<keys, aliasToKey, blobs>>

KeyIds == DOMAIN keys

\* What a client may name a key by: an id (or the ARN that ends in it), or an alias.
Identifiers == 1..MaxKeys \cup Aliases

\* resolve_key and resolve_key_mut; 0 when nothing has the identifier.
ResolveKey(id) ==
    IF id \in Aliases THEN aliasToKey[id]
    ELSE IF id \in KeyIds THEN id ELSE 0

Known(id) == ResolveKey(id) # 0

Usable(id) == Known(id) /\ keys[ResolveKey(id)].state = "Enabled"

-----------------------------------------------------------------------------
(* Keys *)

CreateKey ==
    /\ Len(keys) < MaxKeys
    /\ keys' = Append(keys, [state |-> "Enabled", aliases |-> {}, tags |-> {}])
    /\ UNCHANGED <<aliasToKey, blobs>>

SetState(id, state) ==
    /\ Known(id)
    /\ keys' = [keys EXCEPT ![ResolveKey(id)].state = state]
    /\ UNCHANGED <<aliasToKey, blobs>>

\* A key that is to be deleted is enabled as well, and so deleted no longer.
EnableKey(id) == SetState(id, "Enabled")

DisableKey(id) == SetState(id, "Disabled")

ScheduleKeyDeletion(id) == SetState(id, "PendingDeletion")

CancelKeyDeletion(id) ==
    /\ Known(id) /\ keys[ResolveKey(id)].state = "PendingDeletion"
    /\ SetState(id, "Disabled")

TagResource(id, tag) ==
    /\ Known(id)
    /\ keys' = [keys EXCEPT ![ResolveKey(id)].tags = @ \cup {tag}]
    /\ UNCHANGED <<aliasToKey, blobs>>

UntagResource(id, tag) ==
    /\ Known(id)
    /\ keys' = [keys EXCEPT ![ResolveKey(id)].tags = @ \ {tag}]
    /\ UNCHANGED <<aliasToKey, blobs>>

-----------------------------------------------------------------------------
(* Aliases *)

\* An alias that is taken moves to the new key; the old key keeps it in its own list.
CreateAlias(alias, target) ==
    /\ Known(target)
    /\ aliasToKey' = [aliasToKey EXCEPT ![alias] = ResolveKey(target)]
    /\ keys' = [keys EXCEPT ![ResolveKey(target)].aliases = @ \cup {alias}]
    /\ UNCHANGED blobs

DeleteAlias(alias) ==
    /\ aliasToKey[alias] # 0
    /\ aliasToKey' = [aliasToKey EXCEPT ![alias] = 0]
    /\ keys' = [keys EXCEPT ![aliasToKey[alias]].aliases = @ \ {alias}]
    /\ UNCHANGED blobs

\* ListAliases
ListAliases == {<<a, aliasToKey[a]>> : a \in {b \in Aliases : aliasToKey[b] # 0}}

-----------------------------------------------------------------------------
(* Cryptography.  under is history: the key the client's identifier named. *)

\* Mutant: the envelope names the key as the client did.
Envelope_AsNamed(id, text) == [kind |-> "ciphertext", key |-> id, text |-> text, under |-> ResolveKey(id)]

\* The envelope of Encrypt and of GenerateDataKey
Envelope(id, text) == [kind |-> "ciphertext", key |-> ResolveKey(id), text |-> text, under |-> ResolveKey(id)]

HandOut(blob) ==
    /\ Cardinality(blobs) < MaxBlobs
    /\ blobs' = blobs \cup {blob}
    /\ UNCHANGED <<keys, aliasToKey>>

Encrypt(id, text) == Usable(id) /\ HandOut(Envelope(id, text))

\* The data key is random; one that the client is not shown is a ciphertext all the same.
GenerateDataKey(id) == Usable(id) /\ HandOut(Envelope(id, "data key"))

\* HMAC-SHA256 of the message under the key's material, which is the key's alone.
Sign(id, message) ==
    /\ Usable(id)
    /\ HandOut([kind |-> "signature", key |-> ResolveKey(id), text |-> message, under |-> ResolveKey(id)])

\* What Decrypt answers: the texts it may return (none when it fails).
Decrypt(c) == IF Usable(c.key) THEN {c.text} ELSE {}

\* SignatureValid
Verify(id, message, s) == Usable(id) /\ s.key = ResolveKey(id) /\ s.text = message

-----------------------------------------------------------------------------
Init ==
    /\ keys = <<>>
    /\ aliasToKey = [a \in Aliases |-> 0]
    /\ blobs = {}

Next ==
    \/ CreateKey
    \/ \E id \in Identifiers :
           \/ EnableKey(id) \/ DisableKey(id) \/ ScheduleKeyDeletion(id) \/ CancelKeyDeletion(id)
           \/ \E tag \in KeyTags : TagResource(id, tag) \/ UntagResource(id, tag)
           \/ \E a \in Aliases : CreateAlias(a, id)
           \/ \E m \in Messages : Encrypt(id, m) \/ Sign(id, m)
           \/ GenerateDataKey(id)
    \/ \E a \in Aliases : DeleteAlias(a)

-----------------------------------------------------------------------------
(* Properties *)

\* A ciphertext comes back as its plaintext exactly while the key it was made under is enabled,
\* wherever the alias it was made with points by then; a signature verifies for the
\* identifiers of its key and for no other's; and an alias that resolves is in the list of the
\* key it resolves to.
CiphertextsOutliveAliases ==
    /\ \A b \in blobs : b.kind = "ciphertext" =>
           Decrypt(b) = IF keys[b.under].state = "Enabled" THEN {b.text} ELSE {}
    /\ \A b \in blobs, id \in Identifiers, m \in Messages : b.kind = "signature" /\ Verify(id, m, b) =>
           b.under = ResolveKey(id) /\ m = b.text
    /\ \A p \in ListAliases : p[1] \in keys[p[2]].aliases
=============================================================================
