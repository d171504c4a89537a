----------------------------- MODULE MCServices -----------------------------
(***************************************************************************)
(* The services that share nothing with one another, side by side.  Each   *)
(* keeps its own store and none calls another, so a behaviour of the       *)
(* process is, for each service, a behaviour of its module: the first step *)
(* of a behaviour here is the choice of the service it is about.           *)
(***************************************************************************)
EXTENDS Integers, Sequences, FiniteSets

CONSTANTS
    Nil,
    Consumers, Listers, Starters, Creators,         \* clients
    Names, Aliases, Machines, ExecNames, Groups, LogStreams,     \* names
    UserNames, RoleNames, GroupNames, PolicyArns, StackNames, Repositories, StageNames

VARIABLES
    service,
    stream, created, put, iterators,
    secrets, arnIndex, cache, arns, writes, listers, lastPut,
    keys, aliasToKey, blobs,
    parameters, puts, accepted,
    machines, executions, starting,
    logGroups, logStreams, logEvents, eventsPut, putSince,
    metrics, alarms, clock,
    function, versions, aliases, layer, mappings, uploads, published,
    users, roles, groups, policies, ids, grants,
    stacks, creating, suffixes,
    repositories, registry, digests, tagged,
    apis, resources, deployments, stages, made, adding, straddled

-----------------------------------------------------------------------------
(* Kinesis: two keys in different shards of two, and a tag set that exceeds the limit *)

Hash == [k \in {"k1", "k2"} |-> IF k = "k1" THEN 3 ELSE 4]

Kin == INSTANCE Kinesis WITH PartitionKeys <- DOMAIN Hash, TagSets <- {{"t1"}, {"t1", "t2"}},
           NoStream <- Nil, ShardCounts <- {0, 1, 2},
           MaxTags <- 1, MaxShards <- 4, MaxRecords <- 2, MaxStreams <- 1

-----------------------------------------------------------------------------
Sec == INSTANCE SecretsManager WITH MaxArns <- 3, MaxWrites <- 4

Key == INSTANCE Kms WITH KeyTags <- {"t"}, Messages <- {"m1", "m2"}, MaxKeys <- 2, MaxBlobs <- 2

-----------------------------------------------------------------------------
(* Parameters: names where one is a prefix of another, at a slash and not *)

Par == INSTANCE Ssm WITH MaxPuts <- 4,
           ParamNames <- {<<"/", "a">>, <<"/", "a", "b">>, <<"/", "a", "/", "b">>, <<"/", "a", "/", "b", "/", "c">>},
           Paths <- {<<"/">>, <<"/", "a", "/">>, <<"/", "a">>}

-----------------------------------------------------------------------------
(* State machines: loops that end and that do not, a choice with every operator, branches and *)
(* items that fail, chains at the limit of visits, and definitions that are no machines       *)

Str(s) == [str |-> s]
In(set) == [op |-> "in", set |-> set]
Pass(result, next) == [type |-> "Pass", end |-> FALSE, next |-> next, result |-> result, path |-> Nil]
Task(end, next) == [type |-> "Task", end |-> end, next |-> next]
Succeed == [type |-> "Succeed", end |-> FALSE, next |-> Nil]
Fail == [type |-> "Fail", end |-> FALSE, next |-> Nil]
Choice(choices, default) == [type |-> "Choice", end |-> FALSE, next |-> Nil, choices |-> choices, default |-> default]

Retry == [start |-> "A", states |->
             [A |-> Choice(<<[rule |-> In({"y"}), next |-> "B"]>>, "C"), B |-> Pass(Str("x"), "A"), C |-> Task(TRUE, "A")]]

Both == [op |-> "and", rules |-> <<In({"x"}), In({"x", "y"})>>]

Strict == [start |-> "A", states |->
              [A |-> Choice(<<[rule |-> In({"x"}), next |-> Nil],
                              [rule |-> [op |-> "or", rules |-> <<In({"y"}), [op |-> "not", rule |-> Both]>>], next |-> "B"],
                              [rule |-> In({"x"}), next |-> "D"]>>, Nil),
               B |-> Fail]]

MachineDefinitions == {
    Retry, Strict,
    [start |-> "A", states |-> [A |-> Task(FALSE, "B"), B |-> Task(FALSE, "C"), C |-> Task(FALSE, "D"), D |-> Succeed]],
    [start |-> "A", states |-> [A |-> Task(FALSE, "B"), B |-> Task(FALSE, "C"), C |-> Task(FALSE, "D"),
                                D |-> Task(FALSE, "E"), E |-> Succeed]],
    [start |-> "A", states |-> [A |-> Pass(Nil, "B"), B |-> Pass(Nil, "A")]],
    [start |-> "A", states |-> [A |-> [type |-> "Pass", end |-> TRUE, next |-> Nil, path |-> "k",
                                       result |-> [obj |-> [k |-> Str("x"), j |-> Str("y")]]]]],
    [start |-> "A", states |-> [A |-> [type |-> "Parallel", end |-> FALSE, next |-> "B", branches |-> <<Retry, Strict>>],
                                B |-> Succeed]],
    [start |-> "A", states |-> [A |-> [type |-> "Map", end |-> FALSE, next |-> "B", items |-> Nil, iterator |-> Retry],
                                B |-> Task(FALSE, Nil)]],
    [start |-> Nil, states |-> [A |-> Succeed]],
    [start |-> "A"]}

Sfn == INSTANCE StepFunctions WITH Definitions <- MachineDefinitions, MAX_ITER <- 4,
           Inputs <- {Str("x"), Str("y"), [arr |-> <<Str("y"), Str("x")>>]}

-----------------------------------------------------------------------------
Log == INSTANCE CloudWatchLogs WITH Batches <- {<<>>, <<1>>, <<2, 1>>}, MaxEvents <- 3

Met == INSTANCE CloudWatchMetrics WITH Metrics <- {"m1", "m2"}, Values <- {1, 3}, Alarms <- {"a1"},
           MaxData <- 3, MaxTime <- 2

Reg == INSTANCE LambdaRegistry WITH AliasNames <- {"a1", "a2"}, Sids <- {"s1", "s2"},
           MaxUploads <- 3, MaxVersions <- 2, MaxMappings <- 1

Acc == INSTANCE Iam WITH MaxIds <- 3

-----------------------------------------------------------------------------
(* Stacks: references to a resource, to a parameter, to both under one name, and every function *)

Ref(n) == [fn |-> "Ref", name |-> n]

Second(a, b) == [fn |-> "Select", index |-> 1, items |-> <<a, b>>]

\* A text, as CloudFormation!Word makes it.
Text(w) == <<<<w, 0>>>>

Templates == {
    [resources |-> [bucket |-> "Bucket", table |-> "Table"],
     outputs |-> [o |-> [fn |-> "Join", sep |-> Text("-"),
                         items |-> <<Ref("bucket"), Second(Ref("env"), Ref("table")), Ref("env")>>]]],
    [resources |-> [bucket |-> "Queue"],
     outputs |-> [o |-> [fn |-> "If", then |-> [fn |-> "GetAtt", name |-> "bucket", attr |-> "Arn"]],
                  p |-> [fn |-> "Sub", parts |-> <<[fn |-> "literal", value |-> Text("x")], Ref("bucket")>>],
                  q |-> [fn |-> "Join", sep |-> Text("-"),
                         items |-> <<[fn |-> "GetAtt", name |-> "table", attr |-> "Arn"],
                                     [fn |-> "Select", index |-> 2, items |-> <<Ref("bucket")>>], [fn |-> "Split"]>>]]]}

Stk == INSTANCE CloudFormation WITH MaxSuffixes <- 4,
           Parameters <- {[env |-> Text("dev")], [bucket |-> Text("mine")]}

-----------------------------------------------------------------------------
Ecr == INSTANCE Ecr WITH Tags <- {"t1", "t2"}, MaxDigests <- 3

Apg == INSTANCE ApiGateway WITH Creators <- Starters, PathParts <- {"p", ""}, HttpMethods <- {"GET", "POST"}, Uris <- {"u"},
           MaxApis <- 2, MaxResources <- 3, MaxDeployments <- 2

-----------------------------------------------------------------------------
Init ==
    /\ service \in {"kinesis", "secretsmanager", "kms", "ssm",
                   "stepfunctions", "logs", "cloudwatch", "lambda",
                   "iam", "cloudformation", "ecr", "apigateway"}
    /\ Kin!Init
    /\ Sec!Init
    /\ Key!Init
    /\ Par!Init
    /\ Sfn!Init
    /\ Log!Init
    /\ Met!Init
    /\ Reg!Init
    /\ Acc!Init
    /\ Stk!Init
    /\ Ecr!Init
    /\ Apg!Init

kinesisVars == <<stream, created, put, iterators>>
secretVars == <<secrets, arnIndex, cache, arns, writes, listers, lastPut>>
kmsVars == <<keys, aliasToKey, blobs>>
ssmVars == <<parameters, puts, accepted>>
sfnVars == <<machines, executions, starting>>
logVars == <<logGroups, logStreams, logEvents, eventsPut, putSince>>
metricVars == <<metrics, alarms, clock>>
lambdaVars == <<function, versions, aliases, layer, mappings, uploads, published>>
iamVars == <<users, roles, groups, policies, ids, grants>>
stackVars == <<stacks, creating, suffixes>>
ecrVars == <<repositories, registry, digests, tagged>>
apiVars == <<apis, resources, deployments, stages, made, adding, straddled>>

Next ==
    \/ /\ service = "kinesis" /\ Kin!Next
       /\ UNCHANGED <<service, secretVars, kmsVars, ssmVars, sfnVars, logVars,
                      metricVars, lambdaVars, iamVars, stackVars, ecrVars, apiVars>>
    \/ /\ service = "secretsmanager" /\ Sec!Next
       /\ UNCHANGED <<service, kinesisVars, kmsVars, ssmVars, sfnVars, logVars,
                      metricVars, lambdaVars, iamVars, stackVars, ecrVars, apiVars>>
    \/ /\ service = "kms" /\ Key!Next
       /\ UNCHANGED <<service, kinesisVars, secretVars, ssmVars, sfnVars, logVars,
                      metricVars, lambdaVars, iamVars, stackVars, ecrVars, apiVars>>
    \/ /\ service = "ssm" /\ Par!Next
       /\ UNCHANGED <<service, kinesisVars, secretVars, kmsVars, sfnVars, logVars,
                      metricVars, lambdaVars, iamVars, stackVars, ecrVars, apiVars>>
    \/ /\ service = "stepfunctions" /\ Sfn!Next
       /\ UNCHANGED <<service, kinesisVars, secretVars, kmsVars, ssmVars, logVars,
                      metricVars, lambdaVars, iamVars, stackVars, ecrVars, apiVars>>
    \/ /\ service = "logs" /\ Log!Next
       /\ UNCHANGED <<service, kinesisVars, secretVars, kmsVars, ssmVars, sfnVars,
                      metricVars, lambdaVars, iamVars, stackVars, ecrVars, apiVars>>
    \/ /\ service = "cloudwatch" /\ Met!Next
       /\ UNCHANGED <<service, kinesisVars, secretVars, kmsVars, ssmVars, sfnVars,
                      logVars, lambdaVars, iamVars, stackVars, ecrVars, apiVars>>
    \/ /\ service = "lambda" /\ Reg!Next
       /\ UNCHANGED <<service, kinesisVars, secretVars, kmsVars, ssmVars, sfnVars,
                      logVars, metricVars, iamVars, stackVars, ecrVars, apiVars>>
    \/ /\ service = "iam" /\ Acc!Next
       /\ UNCHANGED <<service, kinesisVars, secretVars, kmsVars, ssmVars, sfnVars,
                      logVars, metricVars, lambdaVars, stackVars, ecrVars, apiVars>>
    \/ /\ service = "cloudformation" /\ Stk!Next
       /\ UNCHANGED <<service, kinesisVars, secretVars, kmsVars, ssmVars, sfnVars,
                      logVars, metricVars, lambdaVars, iamVars, ecrVars, apiVars>>
    \/ /\ service = "ecr" /\ Ecr!Next
       /\ UNCHANGED <<service, kinesisVars, secretVars, kmsVars, ssmVars, sfnVars,
                      logVars, metricVars, lambdaVars, iamVars, stackVars, apiVars>>
    \/ /\ service = "apigateway" /\ Apg!Next
       /\ UNCHANGED <<service, kinesisVars, secretVars, kmsVars, ssmVars, sfnVars,
                      logVars, metricVars, lambdaVars, iamVars, stackVars, ecrVars>>

-----------------------------------------------------------------------------
(* Properties: each is explained in the module that defines it *)

\* A consumer that follows its iterators reads a run of its shard's log, each record once and
\* in order, through resharding; resharding keeps the ids unique and the records where they are.
ShardsAreReadInOrder == Kin!ConsumersReadARun /\ Kin!ReshardingKeepsShards

\* A secret reads as the value put last, by name and by ARN, and the cached list of secrets is
\* never older than the secrets.
SecretsAreCurrent == Sec!SecretsReadBack /\ Sec!ListIsFresh

\* A ciphertext decrypts to what was encrypted for as long as its key is usable, whatever
\* happens to the alias it was made with; a signature verifies for its own message only.
CiphertextsOutliveAliases == Key!CiphertextsOutliveAliases

\* A parameter, its history and its listing by path agree with the puts that were accepted, and
\* an image's tag names the image put last under it, through every index.
PutsReadBack == Par!ParametersReadBack /\ Ecr!TagsResolveToTheirImage

\* An execution ends as its definition says, of the machine it was started for, and within the
\* limit on visited states.
ExecutionsRunTheirMachine == Sfn!ExecutionsRunTheirMachine

\* A log stream shows each event put to it since it was created, once, and windows that share a
\* border add up, with what arrived at the border counted in both.
ObservationsAddUp == Log!StreamsShowTheirEvents /\ Met!WindowsAddUp

\* What these services show for a name was made for its present owner: a published version keeps
\* its code and a function has no version or alias of an earlier one, a user or role has no policy
\* and a user no group that an earlier one of its name was given, what a stack's outputs say names
\* the resources that the stack has, and a REST API that was deleted has left no stage and no
\* deployment.  It is not so of everything that is kept under a name: event source mappings, which
\* name a function by its ARN, the list of users of a group and the resource of a REST API that
\* was being created as the API was deleted stay.
NamesShowTheirOwner ==
    /\ Reg!VersionsAreImmutable
    /\ Acc!GrantsAreNotInherited
    /\ Stk!OutputsNameResources
    /\ Apg!ApisAreWhole
=============================================================================
