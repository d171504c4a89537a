--------------------------- MODULE SecretsManager ---------------------------
(***************************************************************************)
(* Secrets Manager (services/secretsmanager): secrets with their versions, *)
(* the index from ARNs to names, and the cached answer of ListSecrets.     *)
(* Every handler runs under the guard of the store's map, except           *)
(* ListSecrets, which looks for the cached answer under one guard and      *)
(* builds it under another.                                                *)
(***************************************************************************)
EXTENDS Integers, Sequences, FiniteSets, SequencesExt

CONSTANTS
    Names,      \* names of secrets
    Listers,    \* clients that call ListSecrets
    Nil,        \* no secret, no value, no cached answer
    MaxArns,    \* bound: secrets created
    MaxWrites   \* bound: operations that change a secret

VARIABLES
    secrets,  \* SecretsManagerStore.secrets: per name a secret or Nil
    arnIndex, \* arn_index: a set of <<arn, name>>
    cache,    \* list_cache
    arns,     \* number of ARNs made so far
    writes,   \* number of changes so far; a value is the number of the change that put it
    listers,  \* per client: "idle", or "missed" between the two guards of ListSecrets
    lastPut   \* history: per name, the value put last

vars == <<secrets, arnIndex, cache, arns, writes, listers, lastPut>>

-----------------------------------------------------------------------------
Live(n) == secrets[n] # Nil /\ ~secrets[n].deleted

\* SecretSummary::from_secret over the secrets that are not deleted
Summaries == {[name |-> n, arn |-> secrets[n].arn, changed |-> secrets[n].changed] : n \in {m \in Names : Live(m)}}

\* resolve_secret_name: a name, an indexed ARN, or the ARN of some secret
ResolveSecretName(id) ==
    IF id \in Names THEN (IF secrets[id] # Nil THEN {id} ELSE {})
    ELSE IF \E p \in arnIndex : p[1] = id THEN {p[2] : p \in {q \in arnIndex : q[1] = id}}
    ELSE {n \in Names : secrets[n] # Nil /\ secrets[n].arn = id}

Version(value) == [value |-> value, stages |-> {"AWSCURRENT"}]

CurrentVersion(s) == SelectInSeq(s.versions, LAMBDA v : "AWSCURRENT" \in v.stages)

Ids == Names \cup 1..MaxArns

\* Mutant: a change leaves the cached list.
Changed_KeepsCache == writes < MaxWrites /\ writes' = writes + 1 /\ UNCHANGED cache

\* What every change does: it counts, and it drops the cached list.
Changed == writes < MaxWrites /\ writes' = writes + 1 /\ cache' = Nil

-----------------------------------------------------------------------------
CreateSecret(n, value) ==
    /\ ~Live(n) /\ arns < MaxArns
    /\ Changed
    /\ secrets' = [secrets EXCEPT ![n] =
                      [arn |-> arns + 1, deleted |-> FALSE, changed |-> writes + 1, versions |-> <<Version(value)>>]]
    /\ arnIndex' = ({p \in arnIndex : secrets[n] = Nil \/ p[1] # secrets[n].arn}) \cup {<<arns + 1, n>>}
    /\ arns' = arns + 1
    /\ lastPut' = [lastPut EXCEPT ![n] = value]
    /\ UNCHANGED listers

\* Mutant: the version that was current stays so.
PutSecretValue_TwoCurrent(id, value) ==
    \E n \in ResolveSecretName(id) :
        /\ secrets[n] # Nil
        /\ Changed
        /\ secrets' = [secrets EXCEPT ![n].changed = writes + 1, ![n].versions = Append(@, Version(value))]
        /\ lastPut' = [lastPut EXCEPT ![n] = value]
        /\ UNCHANGED <<arnIndex, arns, listers>>

\* The version that was current becomes a previous one; so it may be put to a deleted secret.
PutSecretValue(id, value) ==
    \E n \in ResolveSecretName(id) :
        /\ secrets[n] # Nil
        /\ Changed
        /\ LET demote(v) == IF "AWSCURRENT" \in v.stages
                            THEN [v EXCEPT !.stages = (@ \ {"AWSCURRENT"}) \cup {"AWSPREVIOUS"}] ELSE v
               old == secrets[n].versions
           IN  secrets' = [secrets EXCEPT ![n].changed = writes + 1,
                              ![n].versions = Append([i \in DOMAIN old |-> demote(old[i])], Version(value))]
        /\ lastPut' = [lastPut EXCEPT ![n] = value]
        /\ UNCHANGED <<arnIndex, arns, listers>>

\* A new description alone leaves the versions; a new value takes the stage from all others.
UpdateSecret(id, value) ==
    \E n \in ResolveSecretName(id) :
        /\ secrets[n] # Nil
        /\ Changed
        /\ LET old == secrets[n].versions
               bare == [i \in DOMAIN old |-> [old[i] EXCEPT !.stages = @ \ {"AWSCURRENT"}]]
           IN  secrets' = [secrets EXCEPT ![n].changed = writes + 1,
                              ![n].versions = IF value = Nil THEN old ELSE Append(bare, Version(value))]
        /\ lastPut' = IF value = Nil THEN lastPut ELSE [lastPut EXCEPT ![n] = value]
        /\ UNCHANGED <<arnIndex, arns, listers>>

DeleteSecret(id, force) ==
    \E n \in ResolveSecretName(id) :
        /\ secrets[n] # Nil
        /\ Changed
        /\ IF force
           THEN /\ secrets' = [secrets EXCEPT ![n] = Nil]
                /\ arnIndex' = {p \in arnIndex : p[1] # secrets[n].arn}
           ELSE /\ secrets' = [secrets EXCEPT ![n].deleted = TRUE]
                /\ UNCHANGED arnIndex
        /\ UNCHANGED <<arns, listers, lastPut>>

RestoreSecret(id) ==
    \E n \in ResolveSecretName(id) :
        /\ secrets[n] # Nil
        /\ Changed
        /\ secrets' = [secrets EXCEPT ![n].deleted = FALSE]
        /\ UNCHANGED <<arnIndex, arns, listers, lastPut>>

\* ListSecrets, under the read guard: a cached answer is the answer.
ListMiss(c) ==
    /\ listers[c] = "idle" /\ cache = Nil
    /\ listers' = [listers EXCEPT ![c] = "missed"]
    /\ UNCHANGED <<secrets, arnIndex, cache, arns, writes, lastPut>>

\* rebuild_list_cache
RebuildListCache == IF cache = Nil THEN Summaries ELSE cache

\* ListSecrets, under the write guard it takes next: somebody may have been faster.
ListRebuild(c) ==
    /\ listers[c] = "missed"
    /\ cache' = RebuildListCache
    /\ listers' = [listers EXCEPT ![c] = "idle"]
    /\ UNCHANGED <<secrets, arnIndex, arns, writes, lastPut>>

\* GetSecretValue and DescribeSecret: what an identifier reads as.
GetSecretValue(id) ==
    LET found == {n \in ResolveSecretName(id) : Live(n)}
    IN  {secrets[n].versions[CurrentVersion(secrets[n])].value : n \in {m \in found : CurrentVersion(secrets[m]) # 0}}

-----------------------------------------------------------------------------
Init ==
    /\ secrets = [n \in Names |-> Nil]
    /\ arnIndex = {}
    /\ cache = Nil
    /\ arns = 0
    /\ writes = 0
    /\ listers = [c \in Listers |-> "idle"]
    /\ lastPut = [n \in Names |-> Nil]

Next ==
    \/ \E n \in Names : CreateSecret(n, writes + 1)
    \/ \E id \in Ids : PutSecretValue(id, writes + 1)
    \/ \E id \in Ids, value \in {Nil, writes + 1} : UpdateSecret(id, value)
    \/ \E id \in Ids, force \in BOOLEAN : DeleteSecret(id, force)
    \/ \E id \in Ids : RestoreSecret(id)
    \/ \E c \in Listers : ListMiss(c) \/ ListRebuild(c)

-----------------------------------------------------------------------------
(* Properties *)

\* Whoever asks for a secret by its name or by its ARN reads the value that was put last, by
\* whichever operation; exactly one version is current; and an ARN reaches the secret that has
\* it and no other: not the one that later took its name.
SecretsReadBack ==
    /\ \A n \in Names : Live(n) => GetSecretValue(n) = {lastPut[n]} /\ GetSecretValue(secrets[n].arn) = {lastPut[n]}
    /\ \A n \in Names : secrets[n] # Nil =>
           Cardinality({i \in DOMAIN secrets[n].versions : "AWSCURRENT" \in secrets[n].versions[i].stages}) = 1
    /\ \A a \in 1..MaxArns : ResolveSecretName(a) = {n \in Names : secrets[n] # Nil /\ secrets[n].arn = a}

\* The cached answer of ListSecrets is the list of the secrets as they are, whatever changes
\* between a client's miss and its rebuild.
ListIsFresh == cache # Nil => cache = Summaries
=============================================================================
