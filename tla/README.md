# OpenStack (AWS emulator): a verification development

The repository is a Rust reimplementation of a local AWS emulator: one process, one HTTP
port, and behind it some twenty services that keep their state in memory. This directory
holds TLA+ models of the parts where that is hard to get right, the TLC runs that check
them on small instances, and TLAPS proofs, for every instance, of eight of them: the service
lifecycle, the snapshots, SQS, S3, DynamoDB, Lambda invocations, the daemon commands and the
fan-out of publishes, events and notifications.

## 1. The system

A request enters `gateway/src/server.rs`, which finds out which service it is for and hands
it to `ServicePluginManager::dispatch`. The manager starts the service on its first request
(`ServiceContainer::ensure_running`) and calls the provider. Every provider keeps an
`AccountRegionBundle<Store>`, a `DashMap` of one store per account and region; a handler
takes the guard of its store, and the tokio runtime runs handlers of different connections
in parallel. When a client disconnects, its handler's future is dropped at the await it is
suspended at. On shutdown the state manager saves a snapshot and every service is stopped;
the next process may load it. The command line starts, stops and restarts such a process in
the background and keeps track of it in three files.

| Component | State | Operations | What is hard about it |
|---|---|---|---|
| service lifecycle (`service-framework`) | service state, its atomic mirror, init lock | ensure_running, dispatch, start_all, stop | first requests race each other, the eager start, the shutdown, and disconnects |
| SQS | queues: messages with leases, dedup ids, counters | send, receive, delete, change visibility, purge, attributes | leases expiring under consumers, retries, redrive, two transports |
| S3 (`store.rs`, `provider.rs`) | buckets, version lists, uploads | put, get, delete, copy, multipart, versioning | metadata and files are changed in separate steps, across awaits |
| S3 file store (`object_store.rs`) | files, hard links, a cache of directories | write to a temporary file and rename, copy, remove trees | failures and disconnects half way, shared inodes, stale cache |
| state manager (`state`), S3 persistence | snapshot files | save, load, reset, scheduled snapshots | crashes while writing, saving while serving |
| gateway | listeners, body spooling | routing, run, shutdown | the order of saving and stopping |
| daemon commands (`openstack/src/main.rs`) | pid and metadata files | start, stop, status, restart | two starts at once, stale pid files |
| DynamoDB | tables, indexes, streams, a lock per table | conditional writes, batches, transactions, table changes, reading streams | two-pass transactions among single writers, lock order, tables deleted meanwhile |
| Kinesis | shards, records, iterators | put, iterate, split, merge | reading in order while shards change |
| SNS, EventBridge, S3 notifications | topics, subscriptions, rules, targets, configurations | publish, put events, object changes | deliveries in tasks of their own or under a guard, to a service that is not up yet, while the configuration changes |
| Lambda | functions, versions, aliases, layers; a pool of warm containers, a server per container | registry, invoke, the runtime's requests | timeouts and late answers through one slot, containers that die, a pool entry replaced under a waiter |
| Step Functions | machines, executions | interpret a definition, start | the machine changes between the look-up and the record; loops |
| CloudFormation | stacks, resources, outputs | create, update, delete | ids and outputs of one stack must belong together |
| KMS | keys, states, aliases | encrypt, decrypt, sign, verify | ciphertexts that live longer than the alias they were made with |
| Secrets Manager, SSM | versions and stages, an index, a cached list; parameters | put, update, delete, restore, list | a cache rebuilt under another guard; versions across re-creation |
| CloudWatch | metric data, alarms; log groups, streams, events | put, query windows | edges of windows; three maps kept by hand |
| IAM, ECR, API Gateway | records kept in several maps | create, read, update, delete | the maps have to agree, also after a name is used again |
| Firehose, STS, EC2, ACM, Route 53, OpenSearch, Redshift, SES | records | create, read, update, delete | little: single-guard updates of one map |
| configuration, DNS, protocol crates, internal API, studio | none or UI | | stateless, I/O or rendering |

What makes each part correct: a service is started once and serves only when started; a
message is neither lost, nor revived, nor leased twice; the bytes behind an object are the
ones its metadata describes, and stay so whatever races, fails or is dropped; a restart
finds the last complete snapshot; a transaction is all or nothing; a published message
reaches every subscriber once; an invocation gets its own answer; what is read back is what
was put last, under whatever name, version, tag or alias.

## 2. Modules and code

| Module | Models | Notes |
|---|---|---|
| `ServiceContainer` | `container.rs`, `manager.rs`, `lifecycle.rs` | one task per call of ensure_running |
| `Lifecycle` | what `ServiceContainer` promises its callers | the abstract specification; no locks, no mirror |
| `Sqs` | `sqs/src/store.rs`, `sqs/src/provider.rs` | a handler is one step: it runs under the store's guard |
| `S3Store` | the version list of a key, `s3/src/store.rs` | operators only |
| `S3Objects` | `s3/src/provider.rs`, `s3/src/object_store.rs` | a handler is a task of several steps |
| `S3Multipart` | multipart handlers of `s3/src/provider.rs` | extends `S3Objects`; its steps interleave with theirs |
| `Snapshots` | `state/src/manager.rs`, `state/src/persistence.rs`, `s3/src/persistence.rs`, `run_server`, `Gateway::run` | processes that come and go over one data directory |
| `Daemon` | the daemon commands of `openstack/src/main.rs` | one step per file operation, probe and signal |
| `DynamoDb` | `dynamodb/src/store.rs`, `dynamodb/src/provider.rs` | a request is a task that waits for table locks |
| `Sns`, `EventBridge` | `sns/src`, `eventbridge/src` | the stores and which queue or target is concerned |
| `Fanout` | `handle_publish`, `PutEvents`, `emit_s3_notification`, `dispatch_to`, the start of SQS | composes both with S3 notifications, tasks, worker threads and the guard of the SNS store |
| `LambdaExecutor` | `lambda/src/docker.rs`, Invoke | invocations, the warm pool, the server of each container |
| `LambdaRegistry` | `lambda/src/provider.rs`, `store.rs` | functions, versions, aliases, layers, mappings |
| `Kinesis`, `SecretsManager`, `Kms`, `Ssm`, `StepFunctions`, `CloudFormation`, `CloudWatchLogs`, `CloudWatchMetrics`, `Iam`, `Ecr`, `ApiGateway` | the service of that name | a handler is one step, or two where the code takes two guards |
| `MCServices` | | the services that share nothing, side by side: the initial state chooses one |
| `ServiceContainerProofs`, `SnapshotsProofs`, `SqsProofs`, `S3Proofs`, `DynamoDbProofs`, `LambdaExecutorProofs`, `DaemonProofs`, `FanoutProofs` | | the theorems of section 5 |
| `S3Invariants` | | the inductive invariants that `S3Proofs` shows |
| other `MC...` | | the instances TLC runs |

**ServiceContainer.** The variables `state`, `atomic`, `initLock` and `attempts` are the
fields of the container; `pc` is where each task is in `ensure_running`. A task stops before
each lock acquisition, while `start()` runs, and between the RwLock write of an outcome and
the store into the mirror, which the code does after dropping the guard. `BeginStart`,
`StopBegin` and `StopFinish` write both under the guard and are one step. `Cancel` is the
request's future being dropped at any await; the tasks of `start_all` are spawned and never
dropped. `failed`, `aborted`, `stopWrites` and `started` are history.

**Sqs.** `queues` is `SqsStore.queues`, `nextId` the counter both message ids and receipt
handles come from, `now` the clock. The other variables record what clients have seen: what
was accepted, which handle stands for which delivery, what was acknowledged. The JSON
transport implements four of the operations that change state, and its ReceiveMessage does
not apply the redrive policy; both transports are in the model.

**S3Store, S3Objects, S3Multipart.** `versioning`, `objects` and `uploads` are the metadata;
`link`, `disk`, `dirs` the file system, with inodes because CopyObject makes hard links;
`known` the file store's cache of directories. The store guard is held for one lookup or
update and never across an await, so a handler is a task that stops before every guard and
every file operation. Contents are sequences of the bodies they were assembled from, and an
ETag is the content it was computed from, so "ETag and bytes agree" is an equation. A
temporary file is visible to nobody, so filling it is one step; it may fail half way
(`WriteFails`). `contended`, `torn`, `inPlace` and `everEnabled` are history that the
properties use to say which keys were raced on.

**Snapshots.** `conf` is the configuration, `base` where this process finds the objects
directory, `phase` where `run_server` and `Gateway::run` are. `bundle` is what is in memory,
`files` the body files, `snap` the store.json of each region, which `tokio::fs::write` first
truncates (`WriteOpen`) and then fills (`WriteDone`). What is saved is references to files,
and the files live on, so after a kill the snapshot and the files are of different times.
Requests are served while the state is saved, since nothing stops the accept loop; a request
stops between the change of the file and that of the store, and waits for the guard of the
region being saved. A request's own failures and disconnects are left to `S3Objects`.
`acked`, `volatile` and `lost` are history: what clients were answered, which keys no
snapshot covers yet, and which were so when a process ended.

**Daemon.** `lock`, `pidFile`, `metaFile` are the three files, `cli` is where each user's
command is, `servers` what can be seen of each server. Commands share nothing but the file
system; `tokio::fs::write` truncates before it fills, so a pid file may be found empty. Every
file operation may fail: `WriteFails` and `RemoveFails` end the command, what cannot be read
counts as nobody or as an error, as in the code. A command may be interrupted anywhere. History:
`strays` are the servers whose start ended, by an error or an interruption, after the spawn and
before both files were written; `disturbed` says that two commands have overlapped, or that the
pid of a process that runs could not be read; `robbed` that files were removed under a server
that is no stray, or under a command that holds the lock.

**DynamoDb.** `tables` is `DynamoDbStore.tables`; a table is its items, their count, one
index, and the stream: whether it is on, its ARN, the last records and the last sequence
number. `tasks` are the writing requests in flight. A request stops before each table lock,
where it can be dropped, and before each DashMap guard: a single write and its condition are
one step, a batch one step per table, a transaction one step per item and pass (does the
table exist, does the condition hold, write). Operations on tables take no table lock and are
one step. An update may change or lose the key attributes, which the code does not prevent.
`readers` holds what a client following a stream's iterators has made of it. `wiped`, `muted`
and the readers' replicas are history.

**Fanout.** `subs` and `rules` are the stores of SNS and EventBridge, `configs` the
notifications of a bucket, `queues` what was sent to each queue. `tasks` are the futures that
deliver: a Publish itself, and the tasks that PutEvents and the S3 handlers spawn. `busy` is
which of them occupy a worker thread. A task that waits for SQS, which another request is
starting, yields its worker and needs one again to go on; a task that waits for the guard of
the SNS store (`guard`) blocks its worker, because the guard is a lock of DashMap and no
future. Publish keeps the guard from the look-up of the topic to the end of its last
delivery. The other operations of SNS are tasks too (`SnsRequest`, `Configure`): they need the
guard for one step and block a worker while they wait for it. The tasks of clients, a Publish
among them, are dropped when the client disconnects while they wait (`Disconnect`): the guard
goes with them, and what they had still to deliver is not delivered. What a publish, event or
object change ought to reach is recorded in `sources`, and whether it was `cut` so.

**LambdaExecutor.** One function. `pool` is its entry in `warm_pool`, `containers` are the
containers started with their queues of invocations (`mpsc`) and the single slot for the
channel of the one being worked on (`current_response_tx`), `invocations` where each request
is. The runtime inside the container asks for the next invocation only when it has answered
the last; it and Docker are external and may fail, die or be late at any time.

**The services of `MCServices`.** Each module's variables are the maps of the service's store,
plus what clients hold (iterators, ciphertexts, tokens) and history that says what was put.
Two steps under two guards are two actions: `ListMiss` and `ListRebuild` of Secrets Manager,
`StartExecution` and `RecordExecution` of Step Functions, `PrepareStack` and `CreateStack` of
CloudFormation, `CheckResource` and `InsertResource` of the API gateway. Step Functions'
interpreter (`RunAsl`, `Visit`, `EvalChoiceRule`) is a function of definition and input. Random
ids (UUIDs, `short_id`) are taken to be fresh.

## 3. Runs

| Run | Question | Result |
|---|---|---|
| `container` | two requests, an eager start, failures, disconnects, a shutdown | start is exclusive and accounted for, the container implements `Lifecycle`, every task ends |
| `sqs` | every order of the operations on a FIFO queue with a redrive policy, both transports, with time passing | nothing is lost, revived, delivered under someone's lease, confused, or deduplicated wrongly |
| `s3_objects` | object and bucket requests, two at a time, failing and dropped anywhere | see below |
| `s3_race` | do concurrent puts of one key leave one of them? | **no**: ETag and length of one, bytes of the other |
| `s3_multipart` | multipart uploads among the other requests | one object per upload, parts in order, a failed completion can be repeated |
| `snapshots` | three processes over one data directory, stopped, killed or failing anywhere, moved between mounts, with requests arriving all the time | what a completed save covers is found again with its bytes, a torn snapshot is never served over, a shutdown ends |
| `daemon` | start, stop and restart, overlapping, interrupted or failing at any file, over servers that fail, crash or hang | the one server whose start wrote its files is tracked, until overlapping commands remove files under each other; every command ends |
| `dynamodb` | writes, batches, transactions in both table orders, table and index changes, a stream's reader | index and count follow the items, a transaction is isolated from other writers, a reader misses and repeats nothing that is kept, every request ends |
| `services` | every order of the operations of twelve services that share nothing | see below |
| `lambda` | three invocations of a function over warm containers that expire, are replaced, die or answer late | an invocation gets its own answer, none waits where nobody will serve it, every one ends |
| `fanout` | publishes, events and object changes on two workers, while SQS starts, the configuration changes and clients disconnect | each delivery happens once, unless its publish was dropped; publishes are serial; every delivery ends, unless all workers are blocked behind one publish |
| `fanout_guard` | is the guard of the SNS store released before a publish waits? | **no**: it is held until the last delivery |

`s3_objects` shows that on keys nobody raced on metadata and files agree, whatever happens
on other keys; that a version with an id of its own keeps its bytes even on raced keys, as
long as its bucket is not deleted; that what is read from a file is a whole body; and that an
unversioned bucket keeps no file without an object. The exemptions are in the properties and
each stands for something the code really does: keys two requests worked on at once
(`contended`), keys worked on while their bucket was deleted (`torn`), files that `fs::copy`
has written over (`inPlace`).

`services` checks, per service: a consumer of a Kinesis shard reads each record once and in
order through splits and merges (`ShardsAreReadInOrder`); a secret reads as put last, by name
and ARN, and the cached list is never older than the secrets (`SecretsAreCurrent`); a
ciphertext decrypts for as long as its key is usable, whatever happens to its alias
(`CiphertextsOutliveAliases`); parameters and image tags read as put last through every index
(`PutsReadBack`); an execution ends as a reference reading of its definition says
(`ExecutionsRunTheirMachine`); a log stream shows each event put to it once, and windows of
metrics that share a border add up, with what arrived at the border counted in both, since the
windows are closed at both ends (`ObservationsAddUp`); and what is shown for a name was made for
its present owner: the versions and aliases of a function, the policies and groups of a user or
role, the outputs of a stack, the stages and deployments of an API (`NamesShowTheirOwner`). Each
is a conjunction of the modules' own properties, which say more.

Not everything kept under a name goes with its owner, and `NamesShowTheirOwner` is silent about
that: event source mappings stay under the ARN of a deleted function (`lambda/src/provider.rs:397`),
a group goes on listing the name of a deleted user (`iam/src/provider.rs:407`; groups themselves
cannot be deleted), a warm container goes on running the deleted function's code, and a resource
that was being created while its API was deleted is left over (`straddled`).

`fanout_guard` fails because `dispatch` owns the guard while it awaits `handle_publish`
(`sns/src/provider.rs:821`), where two comments say it is released. This is also how the
deliveries can hang, on a runtime with as many threads as there are other requests for the
store: a publish waits for SQS with the guard, the others block every worker on it, and no thread
is left to wake the publish. The `fanout` run, with two workers, reaches that state (`Starved`),
and `DeliveriesEnd` says that it is the only one in which anything hangs: without its second
disjunct the run fails.

Met while modelling, without a run of their own:
- A redriven message is removed and goes nowhere: `handle_receive_message` calls
  `remove_dlq_candidates` and nothing calls `messages_for_dlq` (`sqs/src/store.rs:385`;
  `core-aws-services/spec.md:39` has it moved to the dead-letter queue).
- Copying an object twice to one key truncates source and copy: the first copy is a hard link,
  the second finds the path taken and `fs::copy` opens the shared inode
  (`s3/src/object_store.rs:494`). The properties exempt such files (`inPlace`).
- SIGTERM has no handler (`gateway/src/server.rs:1726`), so nothing is saved, although
  `compatibility-layer/spec.md:84` says it is. `Kill` of `Snapshots` is what it does.
- A start whose write of the pid or metadata file fails, or that is interrupted there, returns
  with the server running and no file that names it (`openstack/src/main.rs:362`, `374`), so
  that stop says "not running" and the next start spawns another (`strays` in `Daemon`).
- `recover_stale_state` (`openstack/src/main.rs:519`) takes the lock of a start that has no pid
  yet for stale and removes it; two starts at once both spawn a server, although
  `daemon-cli-lifecycle/spec.md:19` forbids a second one. A pid file that cannot be read counts as
  nobody, with the same effect. `ServerIsTracked` holds until this happens (`robbed`), and shows
  that it does not happen to commands that come one at a time and can read the file.
- A publish runs in the request of its client. When the client disconnects while the publish
  waits for SQS (`sns/src/provider.rs:551`, `627`), the subscriptions that come after get nothing;
  `DeliveredOnce` exempts such a publish.
- An object event goes to the notification configurations of the time its task runs, not of the
  operation (`s3/src/provider.rs:2627`).
- PublishBatch delivers nothing; http and lambda subscriptions are stubs, errors of deliveries
  are only logged (`core-aws-services/spec.md:50-62`).
- The rules of a deleted event bus stay in force; schedules never run. Firehose never delivers
  to S3 (`core-aws-services/spec.md:121`).
- UpdateFunctionCode and DeleteFunction do not touch the warm pool, so old code goes on being
  run; entries that expire or are overwritten leave their container running, `evict_expired`
  is never called, and `LAMBDA_REMOVE_CONTAINERS` is read by nobody. An init error of the
  runtime finds no channel in the slot and reaches no invoker; a warm container that died
  keeps timing out until its entry expires.
- UpdateStack keeps resources and outputs of the old template; tables, functions and roles of
  two stacks can have one physical id.
- Closed Kinesis shards go on receiving records; a put to a stream of zero shards panics;
  MergeShards checks neither adjacency nor state; an iterator survives the deletion and
  re-creation of its stream.
- GetLogEvents answers in the order the events were put (`cloudwatch/src/provider.rs:1091`), where
  `extended-aws-services/spec.md:78` says chronological order; the property asks for that order
  only of a stream whose events were put in it. An empty PutLogEvents drops the stream's last
  timestamp; no operation reads it or the first one.
- SampleCount in GetMetricData is the sum of the values; GetMetricStatistics ignores its times,
  where `extended-aws-services/spec.md:56` has statistics "for the requested period"; windows of
  GetMetricData are closed at both ends (lines 526-527), so that a point at the border of two is
  counted in each; alarms are never evaluated.
- CreateResource of the API gateway accepts a parent of another API and an empty path part, which
  below the root gives a second resource with the path "/"; one that races DeleteRestApi leaves a
  resource of an API that is gone.
- A nested event pattern never matches an event without the object around it, also when all it
  asks is that the field does not exist (`eventbridge/src/provider.rs:140`).
- StringEquals and its like of a Choice compare options: a rule with a value of the wrong type
  holds of an input of the wrong type (`stepfunctions/src/provider.rs:277`). A choice without Next
  is passed over.
- An alias of KMS whose name does not begin with `alias/` is stored and never found
  (`kms/src/store.rs:61`).
- An invocation whose client disconnects leaves its container and the server for it running
  (`lambda/src/docker.rs:320`, `426-479`), and a negative Timeout becomes a huge one (`as u64`,
  line 349).
- GetObject takes Content-Length from the metadata it read before it opened the file
  (`s3/src/provider.rs:839-860`); on a key that is raced on it may not fit the body.
- `stop()` takes no init_lock and can pass between the RwLock write of a start and the
  store into the mirror, which then says Running for ever on a stopped service.
- DeleteTable takes no table lock. A transaction whose table goes after the existence check
  panics at `tables.get(table_name).unwrap()` (`dynamodb/src/provider.rs:1645`, "unwrap is
  safe"), or skips its writes and answers 200. TransactGetItems takes no lock either and can
  see half of a transaction.
- An index entry under a boolean is never removed: `add` makes a string of it
  (`av_to_key_str`) and `remove` does not (`av_to_key_str_ref`), so an index query returns
  items whose attribute has changed. `IndexesAgree` exempts such values (`BoolVals`).
- An update that sets a key attribute writes a second item and keeps the first; a put without
  its key is answered 200 and dropped. A LATEST iterator begins at the last record there is.
- A task that waited for a failed start tries again, and takes the service out of Error;
  `service-framework/spec.md` says 503 on subsequent requests.
- AbortMultipartUpload leaves the parts' files; an abort that races a completion lets the
  completion overwrite the old object's file and answer 200 without a new version.
- A put dropped between rename and commit leaves the old metadata over the new bytes.
- A directory remembered by a put after DeleteBucket's sweep of the cache makes every later
  write of that key fail, since the cache is believed.
- In a suspended bucket a null put replaces the whole version list and orphans its files.
- JSON receives never redrive; ContentBasedDeduplication is stored and never read.
- The S3 snapshot is written while a DashMap guard is held across the await, although the
  comment at `s3/src/persistence.rs:44` says it is not. The save runs on the thread that
  blocks on `main`, not on a worker, so requests that wait for the guard do not stop it.
- `start_scheduled_snapshots`, `save_on_request` and `load_on_request` are called from
  nowhere, and S3 is the only store registered, although `state-persistence/spec.md` speaks
  of SQS queues that survive a restart.
- A save that fails makes `run` return before `stop_all`; requests are still accepted while
  the state is saved, although `compatibility-layer/spec.md` has connections stop first.
- `stop` signals after 8 seconds; a save that takes longer is torn by it, and the next start
  fails on the torn file until it is removed by hand.
- Without persistence the body files stay on disk when the process ends.

**Bounds.** `Requests = 2` and `EagerTasks = 1` give every pairwise race of the container,
and the theorems cover any number. SQS: one queue, seven ids (three messages or two with
three receives), three ticks, batches of two: enough for a lease to expire and be taken over,
for a dedup id to return after a purge, and for a redrive limit of two. S3: one bucket, two
keys, three requests of which two overlap, bodies of all three kinds, batches of two; the
multipart run has four requests, so that an upload can get two parts and two racing
completions. Two overlapping requests are where every step of one can see every state of the
other; a third only adds histories the `contended` keys are exempt for.

Snapshots: two regions, two mounts, two requests, three processes: a save under one mount,
a load under another and a further restart, with a save that gets through one region and
fails at the other. The four configurations are the default, no persistence, and each
strategy switched away from it. Three theorems cover any number of everything. The theorems about
SQS, S3, the daemon commands, DynamoDB, Lambda and the fan-out hold for every value of these bounds. Daemon: two
users, three commands, so that a pair overlaps before or after a third.

DynamoDB: two tables and two keys, two requests out of six kinds, three operations on tables,
streams that keep two records. Two requests are what a lock is between; the transactions name
the tables in both orders, and each is preceded or met by writes its conditions depend on.
That stream ARNs differ is assumed: the code builds them from the second.

Fan-out: two queues and one that is missing, two requests, one change of the configuration,
two workers: one publish that waits and two tasks that want its guard are enough for all workers
to be blocked, and two workers for any two steps to interleave.
Lambda: three invocations and two containers: one at work, one queued behind it, one that
comes when the entry has changed. Kinesis: four shards, so that a shard that came from a split
is split or merged again. The services: two names of each kind where names are reused
or compared and one where they are not, three records, images or events, two lists of
definitions and templates that use every construct; definitions include loops and chains at
the limit of visits, which is 4 in place of the code's.

**Fairness.** `container`, `snapshots`, `daemon`, `dynamodb`, `lambda` and `fanout` check
liveness. A spawned task is polled until it ends and
`provider.start()` returns: weak fairness of each task. tokio's Mutex is a FIFO queue:
strong fairness of the acquisition. No fairness is assumed of a shutdown, a disconnect, or
an outcome of `start()`. In `Snapshots` the main task is always scheduled again (weak
fairness of `Progress`); nobody has to send requests, start, stop or kill. In `Daemon` each
command is a process that is scheduled (weak fairness per user), its waits have a deadline,
and nothing is assumed of servers, which may hang. In `DynamoDb` a request that can run is run
(weak fairness), and table locks are tokio Mutexes again (strong fairness of `Acquire`).
In `LambdaExecutor` an invocation that has begun is polled, and tokio's `timeout` fires (weak
fairness per invocation); nothing is assumed of containers. In `Fanout` the runtime runs some
task when one can run and a worker is free, and the start of SQS ends. The runs other than `sqs` do not check for
deadlock: the requests, commands and restarts of an instance come to an end.

**Mutants.** Beside the definition it changes, each module keeps the mutated forms
(`Recheck_Skipped`, `Replaced_Kept`, ...), at least one for every property of a passing run,
and for the conjunctions of `services` one for each service that takes part: with
the mutant in place TLC finds the property violated.

## 4. What is left out of the models

Bodies, headers, ACLs, policies, content types and dates; checksums as functions (an ETag is
its preimage); listings and other reads that do not touch files; the legacy
file layout; the clean-up of temporary files at start (it runs before any request). SQS
attributes no operation reads. DynamoDB's queries, scans and expression grammar: a condition is one of
existence, an index one attribute. Validation errors that return before anything changes.
Text processing: message formats, what Fn::Split makes of a text (a list, which reads as an empty
output), pseudo parameters, dates, cryptography (a ciphertext is the pair of key and plaintext,
which is what the code's envelope is). Names of KMS aliases without their prefix, the disconnect of
an invocation's client, timeouts that are not positive numbers, the error "Response channel dropped"
and the Content-Length of answers, see section 3.

Not modelled at all: the gateway's routing, signatures and CORS, the protocol crates and DNS,
which are stateless; body spooling, which is one request's own buffer; the internal API and
the studio, which forward and render; and the services that keep one map under one guard
(Firehose, STS, EC2, ACM, Route 53, OpenSearch, Redshift, SES), of which nothing could be said
that is not in the code line by line.

## 5. Proofs

`ServiceContainerProofs` proves for any sets of requests and eager tasks what the `container`
run checks on three tasks, except liveness, and besides that the types, that a dispatch follows
a start, that the mirror is right while the service is up, and that Running stays. None of the properties is inductive as it stands.
`IInv` adds to the types:
- `LockInv`: whoever is between acquisition and release is the holder of `initLock`, which
  gives exclusion, also after a `Cancel`;
- `StartedInv`: state or mirror are Running, or a task has been answered Ok, only after a
  `start()` has returned Ok;
- `RecheckInv`: between the re-check and the write of Starting the state is not Running,
  which gives `RunningIsStable`;
- `BudgetInv`: an attempt not yet paid for is the one running or the one that made the
  service Running;
- `MirrorInv`: until a shutdown only the holder of the lock separates state and mirror.

Each is preserved with a lemma of its own (one case per action), and the theorems follow.
The only assumption is that request and eager task names are distinct and that `NoTask` is
neither.

`ContainerImplementsLifecycle` shows that the container implements `Lifecycle` under the mapping
at the end of `ServiceContainer`: `Status` reads the state until the shutdown and is "closing" from
then on, `Starter` is the holder of the lock while it attempts a start, `Call` what a request was told. A step that reads only the mirror maps to an
admission or a refusal, so it needs to know what the mirror can hold: `OpenInv` says that
before a shutdown neither state nor mirror reads Stopping or Stopped, and that an outcome not
yet published is preceded by Starting. `StepRefines` has one case per action.

`SnapshotsProofs` proves the types (`PathsAreTyped`, which say that paths in memory are
absolute and paths on disk relative) and `NoServingOverTorn`. The types alone are not
inductive: `WorkInv` adds that a load visits directories that are there, a save and a request
stores that are there, and that only a save is writing; `TornInv` adds that during a load a
torn file is still to be visited, so that the load will end at it.

It also proves `SavedAnswersSurvive`. `SurvivalInv` says what is known at every
moment of a key that is not lost: if it is not volatile its snapshot stands for the last
answer (`Stored`) or is torn; if its region is in memory and no request is at work on it, the
store does (`AnswerInv`); the copy a save holds stands for it if the save covers it
(`ImageInv`); and a request at work on it is alone, keeps it volatile and out of the save, and
has done what its next step relies on (`TaskInv`). A step of a request is shown to be a step on its
key only (`Frame`), which leaves its own key to look at; `RelativizeBacks` and `ResolveBacks`
carry a reference to disk and back, to whatever mount. The assumptions are the bounds'
being numbers, and that `None` is not a store, a reference, a save or a number.

`LambdaExecutorProofs` proves `AnswersAreTheirOwn` and `WaitersAreServed` for any number of
invocations and containers. The first needs `SlotInv`: as long as the runtime of a container is
at work, the one response slot is that of the invocation it works on, also when the waiter has
given up; so a late answer finds the slot it was made for (`ReplyInv`). The second needs
`OwnerInv`: the invocation that started a container has it for itself until it is answered, so
nobody else removes it. Assumed is that `Nil` is neither an invocation nor a value of the pool
or of an answer.

`DaemonProofs` proves `ServerIsTracked` for any number of users and commands, overlapping,
interrupted and failing anywhere. `HoldInv` says that until files are removed under somebody
(`robbed`) one command at most is between the making of the lock and the end of its start, and
for each place there what it has established (`Stage`): no server that counts runs where one is
about to be spawned, only the server just spawned runs while its files are written, and the
files written so far name it; when nobody is there the files name the server that runs. This
rests on `create_new` alone, whatever other commands do. That a command by itself removes
nothing it should not is `SoloInv`: until two overlap, or a pid cannot be read, one user at most
is inside a command, no server that counts runs where it removes files, and a stop holds the pid
of the only one. `RemoveInv` is what removing the three files one by one needs. Every command has
a lemma, with a step for each file operation and failure.

`DynamoDbProofs` proves the types and three properties for any tables, keys, requests, readers
and length of the log. `IndexesFollowItems`: a change of one item (`Counted`) is followed
through put, update, delete and trimming once, and every action is reduced to it; a batch and
the backfill of an index are recursive functions, see below. `TransactionIsolation` rests on
`Locked`, what a request holds at which place: a transaction all its tables once it has the
last lock. As locks have one holder, no write of another request comes between the passes;
`Known` is what the transaction may rely on at each place. `StreamReplication` needs that the
log has no gap (`Contiguous`), that the last record of a key has its item (`Latest`), and
`Replays`, which says of a replica made of the first records what the remaining ones will change. It is
assumed that the requests clients send are well formed (who reads or deletes an item names
it), that keys are finitely many, and that `None` is none of the values.

`SqsProofs` proves, for any queues, batches, delays, timeouts and attributes, the five
invariants and the two action properties of the `sqs` run. `IInv` relates queues and history:
a message in a queue was accepted there and is not settled (`Placed`), its receive count is
the number of its deliveries, its handle is the latest of them, and only that one may have a
lease that has not run out (`Leased`); ids and handles are distinct within a queue and handles
between queues; what was delivered for the first time is a prefix of what was sent without a
delay (`Ordered`); what was accepted is in its queue unless something was done with it
(`Present`); the queue knows the dedup ids it accepted (`DedupInv`). The handlers for batches
are shown one entry at a time, on a definition that says what the entries so far have done. For
the action properties `NewDelivery` says which message a step may hand out:
one whose count and lease allow it. `RedriveIsBounded` includes a policy of zero, which
`apply_attributes` accepts (`sqs/src/store.rs:495`); it hands a message out no more than once.

`S3Proofs` proves the four invariants of `S3Objects` (`VersionsAreDurable`, `ReadsAreWhole`,
`QuietKeysAgree`, `NoFileLeftBehind`) and the two of `S3Multipart` (`CompletedOnce`,
`UploadsStayCompletable`) for any buckets, keys, parts, batches and number of requests in flight. None of
the first four is inductive, since what a commit makes true depends on what the request did
several awaits ago. The invariants are defined in `S3Invariants`. `IInv` has these parts:
- `TasksInv`: what a request has read stays what it was: it works on the keys it touches, under
  an id that is its own or "null", its ETag is that of its body, and a put that has not
  written has no inode;
- `VersionsInv`: a version belongs to the request its id names, which is past its commit, and
  its file has its name; no id occurs twice in a key;
- `FilesInv`: a temporary file is the only name of its inode, under the name of a put is
  what that put wrote, and an inode `fs::copy` has not written over is one whole body;
- `CleanupInv`: what a request is about to remove is no version's file, unless it is "null";
- `DeletionInv`: a bucket that is being deleted is empty and nobody works in it, or its keys
  are `torn`;
- `DurableInv`: the file of a put's version is there, and already when the put is about to
  commit;
- `ReadsInv`: a read that found a file knows whose it is.

Each step of a handler has a lemma of its own; steps that only touch the file system, only
start a request or only end one share theirs (`FilesTyped`, `BeginKeeps`, `Stops`). DeleteObjects is a
recursive function over the entries of the request (`DeletedEntries`): `EntryKeeps` shows that
one entry keeps what is known of the versions and files so far, `BatchDone` that all do.

`QuietKeysAgree` and `NoFileLeftBehind` speak of keys no two requests raced on, and need
besides what a request may rely on while nobody races with it (`QInv`):
- `ContentionInv`: requests that share a key are known to, and of a request all keys are
  contended or none, so that the keys of one that nobody races with are touched by it alone;
- `UnversionedInv`: where versioning was never enabled, every version and every request that
  is about to make one has the id "null";
- `KeysInv`: of a key nobody raced on, a version's file is there with the bytes of its ETag,
  unless a request is about to replace that version; and without versions a file is that of the object, of
  a request that has still to commit it, or about to be removed;
- `QuietTasksInv`: a copy's source is still listed until the copy has its file; the file
  that a put is about to commit is the one it wrote, and no other name leads to it; a file a
  copy holds is its source's inode or a copy of it; what a request is about to remove is no
  version's file.

That a file stays as it was is known by its name: a step is shown to change the files of
one key only (`Changes`), and every other request then finds its own (`QuietTaskStays`,
`KeyStays`). `fs::copy` writing over an inode that has other names is why a large file may be
`inPlace` and a short one, which is never hard-linked, may not.

`UploadsComplete` needs that uploads are named by requests that were made (`OnceInv`), so that
an upload that has become an object is gone and none gets its name. Assumed is that "null"
is no UUID and no temporary name, and that `None` is none of the values.

`UploadsStayCompletable` is about all requests of `S3Multipart`, objects included, and needs an
invariant of the composition (`PartsInv`):
- `PlainObjects`: a version's file lies under a version's name, never a part's;
- `TasksFit`: what a request has in hand at each of its awaits: a completion the parts it
  gathered, UploadPart the file it wrote;
- `LinksFit`: under a part's name there is only the inode of a request for such a part that is past
  its rename, and under a version's name never one of those;
- `UploadsFit`: an upload's parts are recorded under their numbers, inline or in the file of that name;
- `Raced` and `BucketsRaced`: requests that share a key are known to, and an upload in a bucket
  that is being deleted is contended;
- `PartsKept`: a part of an upload that nobody disturbs (not contended, and no completion of it
  past its part files, `Consumed`) is on disk with its bytes, and so is one that is written and
  still to be recorded (`Arriving`).

The argument: a completion that fails, or is dropped, before it removes parts has touched none of
them, and a key whose request is dropped counts as contended; only UploadPart of that very part
changes what is under its name, and nobody writes into the inode there (`Spares`), since
`fs::copy` writes to versions' names only; and without contention no second UploadPart is under
way for the part (`PartAlone`). Assumed is that part numbers are numbers and that the name
of a part's file is neither "null" nor `None` (`PartAssumption`).

`FanoutProofs` proves `DeliveredOnce` and `PublishesAreSerial` for any topics, subscriptions,
rules, targets, configurations, requests, disconnects and worker threads. `Accounts` says for each
source (a publish, an event, an object) and each queue: what has arrived and what tasks have still
to deliver are together what was wanted when the source was made, or no more than that once the
request of the publish was dropped (`cut`). What is left is counted by
names that last: a call of a task, or a subscription of a publish under way, is known by how
many follow it, so that it keeps its name while those before it are made. Every step then
moves one delivery from what is left to what has arrived (`AccountMoves`), leaves both alone
(`AccountStays`), or adds a source with as many deliveries as it wants, for which the loops of
PutEvents and `emit_s3_notification`, which make one call for each that is concerned, are
shown to be enumerations (`Enumerates`). A disconnect takes away what is left of the publish it
drops and of nothing else (`DisconnectKeeps`), since a request has calls of its own only
(`ClientInv`). The order needs `PublishInv`: a task with deliveries
left of a publish holds the guard of the SNS store, its publish is the last one, and the
subscriptions it delivers to are in the store, which nobody else can change; so in each
queue publishes come in one order (`QueuesInv`). Assumed is that queues, topics and
the marks "emit" and "sns" are told apart, that rule names, target ids and the first subscriptions are finitely
many, and that configurations and the events of an object are sequences.

What a recursive function computes is proved without the library's induction theorems, which
the provers cannot instantiate: `LeastNat` says that a set of numbers that is not empty has a
least one, and there is no least argument for which the function gives anything else. It is used for
batches of SQS, DynamoDB and S3.

Only model-checked: the liveness properties (`EveryTaskEnds`, `ShutdownEnds`, `CommandsEnd`,
`EveryRequestEnds`, `InvocationsEnd`, `DeliveriesEnd`), which are out of the prover's reach;
Step Functions' interpreter, which is declared RECURSIVE; and the services of `MCServices`, a
composition that reaches RECURSIVE operators (references of SSM, Step Functions, templates) and
with them leaves the prover's reach. The four invariants of `S3Objects` are proved of `S3Objects`
alone: `S3Multipart` states others of objects and uploads together.

## 6. Plan

Done: the service lifecycle with its abstract specification, SQS, S3 objects and multipart
uploads, snapshots, daemon commands, DynamoDB, the fan-out of SNS, EventBridge and S3
notifications, Lambda, Kinesis, Step Functions, KMS, Secrets Manager, SSM, CloudFormation,
CloudWatch, IAM, ECR and the API gateway; and the proofs of section 5. Next:

proofs of `TagsResolveToTheirImage` of `Ecr`, `ApisAreWhole` of `ApiGateway` and
`CiphertextsOutliveAliases` of `Kms`, whose modules reach no RECURSIVE operator by themselves.
