-------------------------- MODULE ServiceContainer --------------------------
(***************************************************************************)
(* The lifecycle of one service of the emulator: ServiceContainer of       *)
(* crates/service-framework/src/container.rs, as ServicePluginManager uses *)
(* it (dispatch, start_all, stop_all in manager.rs).                       *)
(*                                                                         *)
(* Every call of ensure_running is a task: an HTTP request dispatched to   *)
(* the service, or the task start_all spawns when EAGER_SERVICE_LOADING is *)
(* set.  A task stops at every point where another thread may run: before  *)
(* each lock acquisition, while provider.start() runs, and between the     *)
(* RwLock write of the outcome and the store into the atomic mirror, which *)
(* happens after the guard is dropped.  The HTTP server drops the future   *)
(* of a request whose client disconnects, so a request can vanish at any   *)
(* await; the MutexGuard of init_lock is dropped with it.                  *)
(*                                                                         *)
(* startup_wait_count and last_startup_duration_ms are metrics no branch   *)
(* reads and are left out.                                                 *)
(***************************************************************************)
EXTENDS Integers

CONSTANTS
    Requests,   \* dispatches of HTTP requests to this service
    EagerTasks, \* ensure_running tasks spawned by start_all
    NoTask      \* the init_lock is free

ASSUME TasksAssumption ==
    /\ Requests \cap EagerTasks = {}
    /\ NoTask \notin Requests \cup EagerTasks

VARIABLES
    state,      \* the RwLock<ServiceState>
    atomic,     \* the AtomicU8 mirror of state
    initLock,   \* the task holding init_lock, or NoTask
    pc,         \* where each task is in ensure_running / dispatch
    stopPc,     \* where the shutdown task is in stop
    attempts,   \* startup_attempts
    \* History, read by the properties only:
    failed,     \* starts that ended in the Error state
    aborted,    \* starts whose request was dropped before the outcome was written
    stopWrites, \* writes of Stopping and Stopped
    started     \* provider.start() has returned Ok at least once

vars == <<state, atomic, initLock, pc, stopPc, attempts,
          failed, aborted, stopWrites, started>>
history == <<failed, aborted, stopWrites, started>>

Tasks == Requests \cup EagerTasks

\* ServiceState; the message of Error is not modelled.
ServiceState ==
    {"Available", "Starting", "Running", "Stopping", "Stopped", "Error"}

\* Places in ensure_running where the task holds init_lock ...
Holding == {"recheck", "toStarting", "starting", "startedOk", "startFailed",
            "publishRunning", "publishError"}
\* ... among them, those where a start attempt has no recorded outcome yet.
Attempting == {"starting", "startedOk", "startFailed"}
\* Places where the task is suspended at an await.
Awaiting == {"slow", "waiting", "recheck", "toStarting", "starting",
             "startedOk", "startFailed", "dispatch"}
Finished == {"served", "refused", "cancelled"}

PcValues == {"idle"} \cup Holding \cup Awaiting \cup Finished

StopPcValues == {"idle", "stopping", "stopped", "stopFailed"}

Init ==
    /\ state = "Available"
    /\ atomic = "Available"
    /\ initLock = NoTask
    /\ pc = [t \in Tasks |-> "idle"]
    /\ stopPc = "idle"
    /\ attempts = 0
    /\ failed = 0
    /\ aborted = 0
    /\ stopWrites = 0
    /\ started = FALSE

Goto(t, place) == pc' = [pc EXCEPT ![t] = place]

\* ensure_running returned Ok: a request goes on to provider.dispatch, the
\* task of start_all ends.
AfterOk(t) == IF t \in Requests THEN "dispatch" ELSE "served"

-----------------------------------------------------------------------------
(* ensure_running *)

\* The lock-free hot path: only RUNNING and STOPPED are decided here.
FastCheck(t) ==
    /\ pc[t] = "idle"
    /\ Goto(t, CASE atomic = "Running" -> AfterOk(t)
                 [] atomic = "Stopped" -> "refused"
                 [] OTHER -> "slow")
    /\ UNCHANGED <<state, atomic, initLock, stopPc, attempts, history>>

\* The same decision on the RwLock, where Error is refused as well.
SlowCheck(t) ==
    /\ pc[t] = "slow"
    /\ Goto(t, CASE state = "Running" -> AfterOk(t)
                 [] state \in {"Error", "Stopped"} -> "refused"
                 [] OTHER -> "waiting")
    /\ UNCHANGED <<state, atomic, initLock, stopPc, attempts, history>>

\* Mutant: init_lock is not taken.
AcquireInitLock_Unlocked(t) ==
    /\ pc[t] = "waiting"
    /\ initLock' = t
    /\ Goto(t, "recheck")
    /\ UNCHANGED <<state, atomic, stopPc, attempts, history>>

AcquireInitLock(t) ==
    /\ pc[t] = "waiting"
    /\ initLock = NoTask
    /\ initLock' = t
    /\ Goto(t, "recheck")
    /\ UNCHANGED <<state, atomic, stopPc, attempts, history>>

\* Mutant: the state is not looked at again under init_lock.
Recheck_Skipped(t) ==
    /\ pc[t] = "recheck"
    /\ Goto(t, "toStarting")
    /\ UNCHANGED <<state, atomic, initLock, stopPc, attempts, history>>

\* After the wait only Running is looked for: a task that waited does not see
\* that the start it waited for failed, or that the service was stopped.
Recheck(t) ==
    /\ pc[t] = "recheck"
    /\ IF state = "Running"
       THEN Goto(t, AfterOk(t)) /\ initLock' = NoTask
       ELSE Goto(t, "toStarting") /\ UNCHANGED initLock
    /\ UNCHANGED <<state, atomic, stopPc, attempts, history>>

\* Mutant: the mirror announces Running before start() has run.
BeginStart_PublishedEarly(t) ==
    /\ pc[t] = "toStarting"
    /\ state' = "Starting"
    /\ atomic' = "Running"
    /\ attempts' = attempts + 1
    /\ Goto(t, "starting")
    /\ UNCHANGED <<initLock, stopPc, history>>

BeginStart(t) ==
    /\ pc[t] = "toStarting"
    /\ state' = "Starting"
    /\ atomic' = "Starting"
    /\ attempts' = attempts + 1
    /\ Goto(t, "starting")
    /\ UNCHANGED <<initLock, stopPc, history>>

\* provider.start() returns.
ProviderStarts(t) ==
    /\ pc[t] = "starting"
    /\ Goto(t, "startedOk")
    /\ started' = TRUE
    /\ UNCHANGED <<state, atomic, initLock, stopPc, attempts,
                   failed, aborted, stopWrites>>

ProviderFailsToStart(t) ==
    /\ pc[t] = "starting"
    /\ Goto(t, "startFailed")
    /\ UNCHANGED <<state, atomic, initLock, stopPc, attempts, history>>

\* The outcome is written under the RwLock ...
WriteRunning(t) ==
    /\ pc[t] = "startedOk"
    /\ state' = "Running"
    /\ Goto(t, "publishRunning")
    /\ UNCHANGED <<atomic, initLock, stopPc, attempts, history>>

WriteError(t) ==
    /\ pc[t] = "startFailed"
    /\ state' = "Error"
    /\ failed' = failed + 1
    /\ Goto(t, "publishError")
    /\ UNCHANGED <<atomic, initLock, stopPc, attempts,
                   aborted, stopWrites, started>>

\* ... and mirrored once the guard is gone; init_lock is dropped on return.
PublishRunning(t) ==
    /\ pc[t] = "publishRunning"
    /\ atomic' = "Running"
    /\ initLock' = NoTask
    /\ Goto(t, AfterOk(t))
    /\ UNCHANGED <<state, stopPc, attempts, history>>

PublishError(t) ==
    /\ pc[t] = "publishError"
    /\ atomic' = "Error"
    /\ initLock' = NoTask
    /\ Goto(t, "refused")
    /\ UNCHANGED <<state, stopPc, attempts, history>>

\* provider.dispatch(ctx) of a request whose ensure_running returned Ok.
Dispatch(t) ==
    /\ pc[t] = "dispatch"
    /\ Goto(t, "served")
    /\ UNCHANGED <<state, atomic, initLock, stopPc, attempts, history>>

\* Mutant: dropping a request leaves init_lock taken.
Cancel_LeaksLock(t) ==
    /\ pc[t] \in Awaiting
    /\ Goto(t, "cancelled")
    /\ aborted' = IF pc[t] \in Attempting THEN aborted + 1 ELSE aborted
    /\ UNCHANGED <<state, atomic, initLock, stopPc, attempts,
                   failed, stopWrites, started>>

\* The client went away: the request's future is dropped at an await, and
\* with it the guard of init_lock if it holds one.
Cancel(t) ==
    /\ pc[t] \in Awaiting
    /\ Goto(t, "cancelled")
    /\ initLock' = IF initLock = t THEN NoTask ELSE initLock
    /\ aborted' = IF pc[t] \in Attempting THEN aborted + 1 ELSE aborted
    /\ UNCHANGED <<state, atomic, stopPc, attempts,
                   failed, stopWrites, started>>

-----------------------------------------------------------------------------
(* stop, called by stop_all at shutdown; it does not take init_lock *)

StopBegin ==
    /\ stopPc = "idle"
    /\ stopPc' = "stopping"
    /\ state' = "Stopping"
    /\ atomic' = "Stopping"
    /\ stopWrites' = stopWrites + 1
    /\ UNCHANGED <<initLock, pc, attempts, failed, aborted, started>>

StopFinish ==
    /\ stopPc = "stopping"
    /\ stopPc' = "stopped"
    /\ state' = "Stopped"
    /\ atomic' = "Stopped"
    /\ stopWrites' = stopWrites + 1
    /\ UNCHANGED <<initLock, pc, attempts, failed, aborted, started>>

\* provider.stop() fails: the error is logged and the state stays Stopping.
StopFails ==
    /\ stopPc = "stopping"
    /\ stopPc' = "stopFailed"
    /\ UNCHANGED <<state, atomic, initLock, pc, attempts, history>>

-----------------------------------------------------------------------------

EnsureRunning(t) ==
    \/ FastCheck(t)
    \/ SlowCheck(t)
    \/ AcquireInitLock(t)
    \/ Recheck(t)
    \/ BeginStart(t)
    \/ ProviderStarts(t)
    \/ ProviderFailsToStart(t)
    \/ WriteRunning(t)
    \/ WriteError(t)
    \/ PublishRunning(t)
    \/ PublishError(t)

Stop == StopBegin \/ StopFinish \/ StopFails

Next ==
    \/ \E t \in Tasks : EnsureRunning(t)
    \/ \E t \in Requests : Dispatch(t) \/ Cancel(t)
    \/ Stop

\* A spawned task is polled until it ends and provider.start() returns; the
\* tokio Mutex is granted in FIFO order, so a waiter is not overtaken for
\* ever.  Nothing forces a shutdown or a disconnect to happen.
Fairness ==
    /\ \A t \in Tasks : WF_vars(EnsureRunning(t)) /\ SF_vars(AcquireInitLock(t))
    /\ \A t \in Requests : WF_vars(Dispatch(t))
    /\ WF_vars(StopFinish \/ StopFails)

Spec == Init /\ [][Next]_vars /\ Fairness

-----------------------------------------------------------------------------
(* Properties *)

TypeOK ==
    /\ state \in ServiceState
    /\ atomic \in ServiceState
    /\ initLock \in Tasks \cup {NoTask}
    /\ pc \in [Tasks -> PcValues]
    /\ stopPc \in StopPcValues
    /\ attempts \in Nat
    /\ failed \in Nat
    /\ aborted \in Nat
    /\ stopWrites \in Nat
    /\ started \in BOOLEAN

\* "only one start() call will proceed; others wait" (container.rs): two tasks
\* are never both between the acquisition and the release of init_lock, also
\* when a request is dropped while it holds the lock.
SingleInitializer ==
    \A t, u \in Tasks : pc[t] \in Holding /\ pc[u] \in Holding => t = u

\* No provider sees a request before one of its start() calls has returned Ok:
\* what the comment on atomic_state promises to whoever reads ATOMIC_RUNNING.
ServedOnlyAfterStart ==
    \A t \in Tasks : pc[t] \in {"dispatch", "served"} => started

\* start() is called again only for a reason: a start that failed, a start
\* whose request was dropped, or a stop that overwrote the state.
StartBudget == attempts <= 1 + failed + aborted + stopWrites

\* Until a shutdown begins, the mirror agrees with the RwLock whenever no task
\* is between its write and its store, also after a request was dropped in the
\* middle of a start.
MirrorAgreesWhileUp ==
    (stopPc = "idle" /\ \A t \in Tasks : pc[t] \notin {"publishRunning", "publishError"})
        => atomic = state

\* Before a shutdown, a service once Running stays Running: no waiter restarts
\* a service that another task has just started.
RunningIsStable ==
    [][stopPc' = "idle" /\ state = "Running" => state' = "Running"]_vars

\* Every request and every eager start ends, whatever fails, is dropped or is
\* stopped meanwhile: no task is left waiting for init_lock.
EveryTaskEnds ==
    \A t \in Tasks : pc[t] # "idle" ~> pc[t] \in Finished

-----------------------------------------------------------------------------
(* The abstract lifecycle, as the callers of the container see it *)

Status ==
    IF stopPc # "idle" THEN "closing"
    ELSE CASE state = "Running" -> "up"
           [] state = "Error" -> "failed"
           [] OTHER -> "down"

Starter ==
    IF initLock # NoTask /\ pc[initLock] \in Attempting THEN initLock ELSE NoTask

Call == [t \in Tasks |->
    CASE pc[t] \in {"dispatch", "served"} -> "admitted"
      [] pc[t] = "refused" -> "refused"
      [] pc[t] = "cancelled" -> "gone"
      [] OTHER -> "pending"]

Promise == INSTANCE Lifecycle WITH
    status <- Status, starter <- Starter, everUp <- started, call <- Call

\* The container implements the lifecycle: with its two copies of the state, its double check
\* and its requests that vanish at any await, callers see one start at a time, none of a service
\* that is up, admission only after a start and refusal only after a failure or a shutdown.
ImplementsLifecycle == Promise!Spec
=============================================================================
