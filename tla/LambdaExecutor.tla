--------------------------- MODULE LambdaExecutor ---------------------------
(***************************************************************************)
(* Invocations of one Lambda function (services/lambda: Invoke in          *)
(* provider.rs and docker.rs).  An invocation goes to the warm container   *)
(* of the function when there is one, or starts a container of its own,    *)
(* which it puts into the pool when it has been answered.  Each container  *)
(* has a server of its own with a queue of invocations and a single slot   *)
(* for the channel of the one being worked on.  Docker and the runtime in  *)
(* the container, which asks for the next invocation only when it has      *)
(* answered the last, are external; they may fail at any time.             *)
(***************************************************************************)
EXTENDS Integers, Sequences, FiniteSets, SequencesExt

CONSTANTS
    Invocations,    \* requests to invoke the function
    Nil,
    Keepalive,      \* keepalive_ms > 0 (LAMBDA_KEEPALIVE_MS)
    MaxCode,        \* bound: versions of the code
    MaxContainers   \* bound: containers started

ASSUME LambdaAssumption ==
    /\ Nil \notin Invocations
    /\ Keepalive \in BOOLEAN
    /\ MaxCode \in Nat /\ MaxContainers \in Nat

VARIABLES
    code,        \* the function's code: a number, 0 when it is deleted
    pool,        \* warm_pool at the function's ARN: Nil or [container, fresh]
    containers,  \* the containers started so far with their servers
    invocations  \* per invocation: where it is, and what it was answered

vars == <<code, pool, containers, invocations>>

Containers == DOMAIN containers

Idle == [pc |-> "idle", code |-> 0, at |-> 0, reply |-> Nil, result |-> Nil]

\* RicState of a new server; held: a sender of its queue exists; busy is the runtime's.
NewContainer(version) ==
    [status |-> "up", code |-> version, queue |-> <<>>, slot |-> Nil, held |-> TRUE, busy |-> Nil]

\* What the runtime answers, which is not Nil, and which payload it answers.
Replies == [kind : {"Success", "FunctionError"}, to : Invocations]

Errors == [kind : {"Timeout", "ContainerError", "ResourceNotFound"}]

ASSUME NilAssumption == Nil \notin Replies \cup Errors \cup [container : 1..MaxContainers, fresh : BOOLEAN]

Set(i, pc) == invocations' = [invocations EXCEPT ![i].pc = pc]

Answer(i, result) == [invocations EXCEPT ![i] = [Idle EXCEPT !.pc = "done", !.result = result]]

-----------------------------------------------------------------------------
(* The function *)

\* UpdateFunctionCode: nothing tells the pool.
UpdateFunctionCode ==
    /\ code # 0 /\ code < MaxCode
    /\ code' = code + 1
    /\ UNCHANGED <<pool, containers, invocations>>

\* DeleteFunction: the pool is not told either.
DeleteFunction ==
    /\ code # 0
    /\ code' = 0
    /\ UNCHANGED <<pool, containers, invocations>>

-----------------------------------------------------------------------------
(* Invoke *)

\* The function's data are read under the guard of the store; an Event invocation goes on in
\* a task of its own, where its result is dropped.
Invoke(i) ==
    /\ invocations[i].pc = "idle"
    /\ invocations' = IF code = 0 THEN Answer(i, [kind |-> "ResourceNotFound"])
                      ELSE [invocations EXCEPT ![i].pc = "pool", ![i].code = code]
    /\ UNCHANGED <<code, pool, containers>>

\* The guard of the pool's entry: a container used recently gets the invocation.
WarmStart(i) ==
    /\ invocations[i].pc = "pool" /\ Keepalive /\ pool # Nil /\ pool.fresh
    /\ containers' = [containers EXCEPT ![pool.container].queue = Append(@, i)]
    /\ invocations' = [invocations EXCEPT ![i].pc = "await", ![i].at = pool.container]
    /\ UNCHANGED <<code, pool>>

\* One past its time is only let go of; the guard is dropped before the entry is removed.
PoolMiss(i) ==
    /\ invocations[i].pc = "pool" /\ (Keepalive /\ pool # Nil => ~pool.fresh)
    /\ Set(i, IF ~Keepalive \/ pool = Nil THEN "cold" ELSE "remove")
    /\ UNCHANGED <<code, pool, containers>>

\* warm_pool.remove: whatever entry is there by now; its sender goes with it.
RemoveFromPool(i) ==
    /\ invocations[i].pc = "remove"
    /\ pool' = Nil
    /\ containers' = IF pool = Nil THEN containers ELSE [containers EXCEPT ![pool.container].held = FALSE]
    /\ Set(i, "cold")
    /\ UNCHANGED code

\* extract_code, start_ric_server, create_container and start_container; each may fail, and
\* a container that does not start is removed.
ColdStartFails(i) ==
    /\ invocations[i].pc = "cold"
    /\ invocations' = Answer(i, [kind |-> "ContainerError"])
    /\ UNCHANGED <<code, pool, containers>>

\* The container is up and the invocation in its queue.
ColdStart(i) ==
    /\ invocations[i].pc = "cold" /\ Len(containers) < MaxContainers
    /\ containers' = Append(containers, [NewContainer(invocations[i].code) EXCEPT !.queue = <<i>>])
    /\ invocations' = [invocations EXCEPT ![i].pc = "awaitCold", ![i].at = Len(containers) + 1]
    /\ UNCHANGED <<code, pool>>

Awaiting(i) == invocations[i].pc \in {"await", "awaitCold"}

\* Mutant: nobody counts the time.
Received_Forever(i, result) == Awaiting(i) /\ invocations[i].reply # Nil /\ result = invocations[i].reply

\* An answer that has come is taken, also when the time is up; a dropped channel is an error.
Received(i, result) ==
    /\ Awaiting(i)
    /\ IF invocations[i].reply # Nil THEN result = invocations[i].reply ELSE result = [kind |-> "Timeout"]

\* await_response of a warm start: a timeout leaves the container in the pool.
FinishWarm(i, result) ==
    /\ invocations[i].pc = "await" /\ Received(i, result)
    /\ invocations' = Answer(i, result)
    /\ UNCHANGED <<code, pool, containers>>

\* cold_start after await_response, when the function answered: the entry replaces any other,
\* whose sender is dropped while its container goes on.
FinishCold(i, result) ==
    /\ invocations[i].pc = "awaitCold" /\ Received(i, result)
    /\ Keepalive /\ result.kind \in {"Success", "FunctionError"}
    /\ invocations' = Answer(i, result)
    /\ pool' = [container |-> invocations[i].at, fresh |-> TRUE]
    /\ containers' = IF pool = Nil THEN containers ELSE [containers EXCEPT ![pool.container].held = FALSE]
    /\ UNCHANGED code

\* Mutant: a container that timed out is pooled and removed.
CleanupCold_Pooled(i, result) ==
    /\ invocations[i].pc = "awaitCold" /\ Received(i, result)
    /\ ~Keepalive \/ result.kind \notin {"Success", "FunctionError"}
    /\ invocations' = Answer(i, result)
    /\ containers' = [containers EXCEPT ![invocations[i].at] =
                          [@ EXCEPT !.status = "removed", !.queue = <<>>, !.slot = Nil, !.held = FALSE, !.busy = Nil]]
    /\ pool' = [container |-> invocations[i].at, fresh |-> TRUE]
    /\ UNCHANGED code

\* cleanup_container and the end of the server, when it did not or containers are not kept.
CleanupCold(i, result) ==
    /\ invocations[i].pc = "awaitCold" /\ Received(i, result)
    /\ ~Keepalive \/ result.kind \notin {"Success", "FunctionError"}
    /\ invocations' = Answer(i, result)
    /\ containers' = [containers EXCEPT ![invocations[i].at] =
                          [@ EXCEPT !.status = "removed", !.queue = <<>>, !.slot = Nil, !.held = FALSE, !.busy = Nil]]
    /\ UNCHANGED <<code, pool>>

\* LAMBDA_KEEPALIVE_MS pass without a use.
Expire ==
    /\ pool # Nil /\ pool.fresh
    /\ pool' = [pool EXCEPT !.fresh = FALSE]
    /\ UNCHANGED <<code, containers, invocations>>

-----------------------------------------------------------------------------
(* The server of a container and the runtime in it *)

\* ric_next: the channel of the invocation goes into the slot, over what is there.
RicNext(k) ==
    /\ containers[k].status = "up" /\ containers[k].busy = Nil /\ containers[k].queue # <<>>
    /\ containers' = [containers EXCEPT ![k].queue = Tail(@), ![k].slot = Head(containers[k].queue),
                                        ![k].busy = Head(containers[k].queue)]
    /\ UNCHANGED <<code, pool, invocations>>

\* ric_next answers 410 when no sender is left, and the runtime exits.
RicGone(k) ==
    /\ containers[k].status = "up" /\ containers[k].busy = Nil
    /\ containers[k].queue = <<>> /\ ~containers[k].held
    /\ containers' = [containers EXCEPT ![k].status = "exited"]
    /\ UNCHANGED <<code, pool, invocations>>

\* Mutant: the server answers the invocation at the head of its queue.
SlotOf_Queue(k) == IF containers[k].queue # <<>> THEN Head(containers[k].queue) ELSE containers[k].slot

SlotOf(k) == containers[k].slot

\* ric_response and ric_error: the slot is taken, whichever request the answer is for; nobody
\* may be there to receive it.
RicResponse(k, kind) ==
    /\ containers[k].status = "up" /\ containers[k].busy # Nil
    /\ containers' = [containers EXCEPT ![k].slot = Nil, ![k].busy = Nil]
    /\ invocations' =
           IF SlotOf(k) # Nil /\ Awaiting(SlotOf(k))
           THEN [invocations EXCEPT ![SlotOf(k)].reply =
                    [kind |-> kind, to |-> containers[k].busy]]
           ELSE invocations
    /\ UNCHANGED <<code, pool>>

\* The runtime dies, or its initialisation fails: ric_init_error finds the slot empty, as no
\* invocation has been asked for yet.  The server lives on and queues what it is sent.
ContainerDies(k) ==
    /\ containers[k].status = "up"
    /\ containers' = [containers EXCEPT ![k].status = "exited", ![k].busy = Nil]
    /\ UNCHANGED <<code, pool, invocations>>

-----------------------------------------------------------------------------
Init ==
    /\ code = 1
    /\ pool = Nil
    /\ containers = <<>>
    /\ invocations = [i \in Invocations |-> Idle]

Results(i) == {[kind |-> "Timeout"]} \cup ({invocations[i].reply} \ {Nil})

InvocationStep(i) ==
    \/ Invoke(i) \/ WarmStart(i) \/ PoolMiss(i) \/ RemoveFromPool(i) \/ ColdStart(i) \/ ColdStartFails(i)
    \/ \E result \in Results(i) : FinishWarm(i, result) \/ FinishCold(i, result) \/ CleanupCold(i, result)

ContainerStep(k) ==
    \/ RicNext(k) \/ RicGone(k) \/ ContainerDies(k)
    \/ \E kind \in {"Success", "FunctionError"} : RicResponse(k, kind)

Next ==
    \/ UpdateFunctionCode \/ DeleteFunction \/ Expire
    \/ \E i \in Invocations : InvocationStep(i)
    \/ \E k \in Containers : ContainerStep(k)

Fairness == \A i \in Invocations : WF_vars(invocations[i].pc # "idle" /\ InvocationStep(i))

Spec == Init /\ [][Next]_vars /\ Fairness

-----------------------------------------------------------------------------
(* Properties *)

Answered(i) == invocations[i].pc = "done" /\ invocations[i].result.kind \in {"Success", "FunctionError"}

\* An invocation that is answered gets the answer to its own payload, although the slot does
\* not say whose it is: not the late one of an invocation that timed out before it in the same
\* container, nor one that waits behind it.
AnswersAreTheirOwn == \A i \in Invocations : Answered(i) => invocations[i].result.to = i

\* Nobody waits for a container that was removed, and no invocation is lost on its way: one
\* that waits for its answer is in the queue or in the slot of its container, also when the
\* container was put out of the pool meanwhile, or its answer has come.  The pool holds
\* containers that were not removed and whose queue is open.
WaitersAreServed ==
    /\ pool # Nil => containers[pool.container].status # "removed" /\ containers[pool.container].held
    /\ \A i \in Invocations : Awaiting(i) =>
           LET k == containers[invocations[i].at]
           IN  k.status # "removed" /\ (invocations[i].reply # Nil \/ i \in ToSet(k.queue) \cup {k.slot})

\* Every invocation ends: with an answer, or with an error when the container cannot be started,
\* dies before or during the work, or is never free.
InvocationsEnd == \A i \in Invocations : invocations[i].pc # "idle" ~> invocations[i].pc = "done"
=============================================================================
