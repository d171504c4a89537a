----------------------------- MODULE Lifecycle -----------------------------
(***************************************************************************)
(* What the lifecycle of a service promises to its callers, without locks, *)
(* the atomic mirror or the order in which they are written: one start at  *)
(* a time and none while the service is up, admission only to a service    *)
(* that has been started, refusal only after a failed start or a shutdown. *)
(* ServiceContainer implements it.                                         *)
(***************************************************************************)
CONSTANTS
    Tasks,      \* calls of ensure_running
    NoTask      \* no start is in progress

VARIABLES
    status,     \* "down", "up", "failed", or "closing" from the shutdown on
    starter,    \* the task whose start is in progress, or NoTask
    everUp,     \* a start of the provider has succeeded
    call        \* what became of each call

vars == <<status, starter, everUp, call>>

Init ==
    /\ status = "down"
    /\ starter = NoTask
    /\ everUp = FALSE
    /\ call = [t \in Tasks |-> "pending"]

\* From the shutdown on the outcome of a start changes nothing for the callers.
Becomes(s) == status' = IF status = "closing" THEN status ELSE s

\* A start begins only when nobody else starts the service and it is not up.
Begin(t) ==
    /\ call[t] = "pending"
    /\ starter = NoTask
    /\ status # "up"
    /\ starter' = t
    /\ Becomes("down")
    /\ UNCHANGED <<everUp, call>>

ProviderReady(t) ==
    /\ starter = t
    /\ everUp' = TRUE
    /\ UNCHANGED <<status, starter, call>>

Succeed(t) ==
    /\ starter = t
    /\ everUp
    /\ starter' = NoTask
    /\ Becomes("up")
    /\ UNCHANGED <<everUp, call>>

Fail(t) ==
    /\ starter = t
    /\ starter' = NoTask
    /\ Becomes("failed")
    /\ UNCHANGED <<everUp, call>>

Admit(t) ==
    /\ call[t] = "pending"
    /\ starter # t
    /\ everUp
    /\ status \in {"up", "closing"}
    /\ call' = [call EXCEPT ![t] = "admitted"]
    /\ UNCHANGED <<status, starter, everUp>>

Refuse(t) ==
    /\ call[t] = "pending"
    /\ starter # t
    /\ status \in {"failed", "closing"}
    /\ call' = [call EXCEPT ![t] = "refused"]
    /\ UNCHANGED <<status, starter, everUp>>

\* A caller that goes away takes its start with it.
Drop(t) ==
    /\ call[t] \in {"pending", "admitted"}
    /\ call' = [call EXCEPT ![t] = "gone"]
    /\ starter' = IF starter = t THEN NoTask ELSE starter
    /\ UNCHANGED <<status, everUp>>

Close ==
    /\ status # "closing"
    /\ status' = "closing"
    /\ UNCHANGED <<starter, everUp, call>>

Next ==
    \/ \E t \in Tasks : \/ Begin(t)
                        \/ ProviderReady(t)
                        \/ Succeed(t)
                        \/ Fail(t)
                        \/ Admit(t)
                        \/ Refuse(t)
                        \/ Drop(t)
    \/ Close

Spec == Init /\ [][Next]_vars
=============================================================================
