----------------------- MODULE ServiceContainerProofs -----------------------
(***************************************************************************)
(* The safety of ServiceContainer for any number of requests and eager     *)
(* tasks.  The invariants are not inductive by themselves: what makes them *)
(* so is that whoever is inside ensure_running's critical section owns     *)
(* init_lock, and that a task which found the state not Running keeps that *)
(* knowledge until it writes Starting, since only the owner writes Running.*)
(***************************************************************************)
EXTENDS ServiceContainer, TLAPS

\* Whoever is in the critical section owns init_lock.
LockInv == \A t \in Tasks : pc[t] \in Holding => initLock = t

\* Running is written and published only after start() returned Ok.
StartedInv ==
    /\ atomic = "Running" => started
    /\ state = "Running" => started
    /\ \A t \in Tasks :
         pc[t] \in {"startedOk", "publishRunning", "dispatch", "served"} => started

\* Between the recheck and the write of Starting the service is not Running.
RecheckInv == \A t \in Tasks : pc[t] = "toStarting" => state # "Running"

\* With no attempt in progress and the service not Running, every attempt so
\* far is paid for; otherwise exactly one may be unpaid.
BudgetInv ==
    /\ StartBudget
    /\ (state # "Running" /\ \A t \in Tasks : pc[t] \notin Attempting)
          => attempts <= failed + aborted + stopWrites

\* Until a shutdown begins, the owner of init_lock knows the state exactly.
MirrorInv ==
    stopPc = "idle" =>
      /\ \A t \in Tasks :
           /\ pc[t] \in Attempting => state = "Starting"
           /\ pc[t] = "publishRunning" => state = "Running"
           /\ pc[t] = "publishError" => state = "Error"
      /\ (\A t \in Tasks : pc[t] \notin {"publishRunning", "publishError"})
           => atomic = state

IInv == TypeOK /\ LockInv /\ StartedInv /\ RecheckInv /\ BudgetInv /\ MirrorInv

USE DEF Goto, AfterOk, history, Tasks, Holding, Attempting, Awaiting, Finished,
        PcValues, ServiceState, StopPcValues

\* A container as ServiceContainer::new leaves it satisfies the invariant.
LEMMA InitInv == Init => IInv
  <1> SUFFICES ASSUME Init PROVE IInv
    OBVIOUS
  <1>1. TypeOK
    BY DEF Init, TypeOK
  <1>2. LockInv
    BY DEF Init, LockInv
  <1>3. StartedInv
    BY DEF Init, StartedInv
  <1>4. RecheckInv
    BY DEF Init, RecheckInv
  <1>5. BudgetInv
    BY DEF Init, BudgetInv, StartBudget
  <1>6. MirrorInv
    BY DEF Init, MirrorInv
  <1> QED
    BY <1>1, <1>2, <1>3, <1>4, <1>5, <1>6 DEF IInv

\* Every step of every task and of the shutdown keeps the types.
LEMMA TypeStep == TypeOK /\ [Next]_vars => TypeOK'
  <1> SUFFICES ASSUME TypeOK, [Next]_vars PROVE TypeOK'
    OBVIOUS
  <1>1. CASE \E t \in Tasks : EnsureRunning(t)
    <2>1. PICK t \in Tasks : EnsureRunning(t)
      BY <1>1
    <2>2. CASE FastCheck(t)
      BY <2>2 DEF TypeOK, FastCheck
    <2>3. CASE SlowCheck(t)
      BY <2>3 DEF TypeOK, SlowCheck
    <2>4. CASE AcquireInitLock(t)
      BY <2>4 DEF TypeOK, AcquireInitLock
    <2>5. CASE Recheck(t)
      BY <2>5 DEF TypeOK, Recheck
    <2>6. CASE BeginStart(t)
      BY <2>6 DEF TypeOK, BeginStart
    <2>7. CASE ProviderStarts(t)
      BY <2>7 DEF TypeOK, ProviderStarts
    <2>8. CASE ProviderFailsToStart(t)
      BY <2>8 DEF TypeOK, ProviderFailsToStart
    <2>9. CASE WriteRunning(t)
      BY <2>9 DEF TypeOK, WriteRunning
    <2>10. CASE WriteError(t)
      BY <2>10 DEF TypeOK, WriteError
    <2>11. CASE PublishRunning(t)
      BY <2>11 DEF TypeOK, PublishRunning
    <2>12. CASE PublishError(t)
      BY <2>12 DEF TypeOK, PublishError
    <2> QED
      BY <2>1, <2>2, <2>3, <2>4, <2>5, <2>6, <2>7, <2>8, <2>9, <2>10, <2>11, <2>12
      DEF EnsureRunning
  <1>2. CASE \E t \in Requests : Dispatch(t) \/ Cancel(t)
    <2>1. PICK t \in Requests : Dispatch(t) \/ Cancel(t)
      BY <1>2
    <2>2. CASE Dispatch(t)
      BY <2>2 DEF TypeOK, Dispatch
    <2>3. CASE Cancel(t)
      BY <2>3 DEF TypeOK, Cancel
    <2> QED
      BY <2>1, <2>2, <2>3
  <1>3. CASE Stop
    BY <1>3 DEF TypeOK, Stop, StopBegin, StopFinish, StopFails
  <1>4. CASE UNCHANGED vars
    BY <1>4 DEF TypeOK, vars
  <1> QED
    BY <1>1, <1>2, <1>3, <1>4 DEF Next
\* init_lock is released exactly where the critical section ends.
LEMMA LockStep == IInv /\ [Next]_vars => LockInv'
  <1> SUFFICES ASSUME IInv, [Next]_vars PROVE LockInv'
    OBVIOUS
  <1> USE TasksAssumption DEF IInv, TypeOK, LockInv
  <1>1. CASE \E t \in Tasks : EnsureRunning(t)
    <2>1. PICK t \in Tasks : EnsureRunning(t)
      BY <1>1
    <2>2. CASE FastCheck(t)
      BY <2>2 DEF FastCheck
    <2>3. CASE SlowCheck(t)
      BY <2>3 DEF SlowCheck
    <2>4. CASE AcquireInitLock(t)
      BY <2>4 DEF AcquireInitLock
    <2>5. CASE Recheck(t)
      BY <2>5 DEF Recheck
    <2>6. CASE BeginStart(t)
      BY <2>6 DEF BeginStart
    <2>7. CASE ProviderStarts(t)
      BY <2>7 DEF ProviderStarts
    <2>8. CASE ProviderFailsToStart(t)
      BY <2>8 DEF ProviderFailsToStart
    <2>9. CASE WriteRunning(t)
      BY <2>9 DEF WriteRunning
    <2>10. CASE WriteError(t)
      BY <2>10 DEF WriteError
    <2>11. CASE PublishRunning(t)
      BY <2>11 DEF PublishRunning
    <2>12. CASE PublishError(t)
      BY <2>12 DEF PublishError
    <2> QED
      BY <2>1, <2>2, <2>3, <2>4, <2>5, <2>6, <2>7, <2>8, <2>9, <2>10, <2>11, <2>12
      DEF EnsureRunning
  <1>2. CASE \E t \in Requests : Dispatch(t) \/ Cancel(t)
    <2>1. PICK t \in Requests : Dispatch(t) \/ Cancel(t)
      BY <1>2
    <2>2. CASE Dispatch(t)
      BY <2>2 DEF Dispatch
    <2>3. CASE Cancel(t)
      BY <2>3 DEF Cancel
    <2> QED
      BY <2>1, <2>2, <2>3
  <1>3. CASE Stop
    BY <1>3 DEF Stop, StopBegin, StopFinish, StopFails
  <1>4. CASE UNCHANGED vars
    BY <1>4 DEF vars
  <1> QED
    BY <1>1, <1>2, <1>3, <1>4 DEF Next

\* Ok is answered on the strength of a start() that returned Ok.
LEMMA StartedStep == IInv /\ [Next]_vars => StartedInv'
  <1> SUFFICES ASSUME IInv, [Next]_vars PROVE StartedInv'
    OBVIOUS
  <1> USE TasksAssumption DEF IInv, TypeOK, StartedInv
  <1>1. CASE \E t \in Tasks : EnsureRunning(t)
    <2>1. PICK t \in Tasks : EnsureRunning(t)
      BY <1>1
    <2>2. CASE FastCheck(t)
      BY <2>2 DEF FastCheck
    <2>3. CASE SlowCheck(t)
      BY <2>3 DEF SlowCheck
    <2>4. CASE AcquireInitLock(t)
      BY <2>4 DEF AcquireInitLock
    <2>5. CASE Recheck(t)
      BY <2>5 DEF Recheck
    <2>6. CASE BeginStart(t)
      BY <2>6 DEF BeginStart
    <2>7. CASE ProviderStarts(t)
      BY <2>7 DEF ProviderStarts
    <2>8. CASE ProviderFailsToStart(t)
      BY <2>8 DEF ProviderFailsToStart
    <2>9. CASE WriteRunning(t)
      BY <2>9 DEF WriteRunning
    <2>10. CASE WriteError(t)
      BY <2>10 DEF WriteError
    <2>11. CASE PublishRunning(t)
      BY <2>11 DEF PublishRunning
    <2>12. CASE PublishError(t)
      BY <2>12 DEF PublishError
    <2> QED
      BY <2>1, <2>2, <2>3, <2>4, <2>5, <2>6, <2>7, <2>8, <2>9, <2>10, <2>11, <2>12
      DEF EnsureRunning
  <1>2. CASE \E t \in Requests : Dispatch(t) \/ Cancel(t)
    <2>1. PICK t \in Requests : Dispatch(t) \/ Cancel(t)
      BY <1>2
    <2>2. CASE Dispatch(t)
      BY <2>2 DEF Dispatch
    <2>3. CASE Cancel(t)
      BY <2>3 DEF Cancel
    <2> QED
      BY <2>1, <2>2, <2>3
  <1>3. CASE Stop
    BY <1>3 DEF Stop, StopBegin, StopFinish, StopFails
  <1>4. CASE UNCHANGED vars
    BY <1>4 DEF vars
  <1> QED
    BY <1>1, <1>2, <1>3, <1>4 DEF Next

\* Only the owner of init_lock makes the service Running.
LEMMA RecheckStep == IInv /\ [Next]_vars => RecheckInv'
  <1> SUFFICES ASSUME IInv, [Next]_vars PROVE RecheckInv'
    OBVIOUS
  <1> USE TasksAssumption DEF IInv, TypeOK, LockInv, RecheckInv
  <1>1. CASE \E t \in Tasks : EnsureRunning(t)
    <2>1. PICK t \in Tasks : EnsureRunning(t)
      BY <1>1
    <2>2. CASE FastCheck(t)
      BY <2>2 DEF FastCheck
    <2>3. CASE SlowCheck(t)
      BY <2>3 DEF SlowCheck
    <2>4. CASE AcquireInitLock(t)
      BY <2>4 DEF AcquireInitLock
    <2>5. CASE Recheck(t)
      BY <2>5 DEF Recheck
    <2>6. CASE BeginStart(t)
      BY <2>6 DEF BeginStart
    <2>7. CASE ProviderStarts(t)
      BY <2>7 DEF ProviderStarts
    <2>8. CASE ProviderFailsToStart(t)
      BY <2>8 DEF ProviderFailsToStart
    <2>9. CASE WriteRunning(t)
      BY <2>9 DEF WriteRunning
    <2>10. CASE WriteError(t)
      BY <2>10 DEF WriteError
    <2>11. CASE PublishRunning(t)
      BY <2>11 DEF PublishRunning
    <2>12. CASE PublishError(t)
      BY <2>12 DEF PublishError
    <2> QED
      BY <2>1, <2>2, <2>3, <2>4, <2>5, <2>6, <2>7, <2>8, <2>9, <2>10, <2>11, <2>12
      DEF EnsureRunning
  <1>2. CASE \E t \in Requests : Dispatch(t) \/ Cancel(t)
    <2>1. PICK t \in Requests : Dispatch(t) \/ Cancel(t)
      BY <1>2
    <2>2. CASE Dispatch(t)
      BY <2>2 DEF Dispatch
    <2>3. CASE Cancel(t)
      BY <2>3 DEF Cancel
    <2> QED
      BY <2>1, <2>2, <2>3
  <1>3. CASE Stop
    BY <1>3 DEF Stop, StopBegin, StopFinish, StopFails
  <1>4. CASE UNCHANGED vars
    BY <1>4 DEF vars
  <1> QED
    BY <1>1, <1>2, <1>3, <1>4 DEF Next

\* A start attempt is unpaid for only while it runs or while the service it
\* started is Running.
LEMMA BudgetStep == IInv /\ [Next]_vars => BudgetInv'
  <1> SUFFICES ASSUME IInv, [Next]_vars PROVE BudgetInv'
    OBVIOUS
  <1> USE TasksAssumption DEF IInv, TypeOK, LockInv, RecheckInv, BudgetInv, StartBudget
  <1>1. CASE \E t \in Tasks : EnsureRunning(t)
    <2>1. PICK t \in Tasks : EnsureRunning(t)
      BY <1>1
    <2>2. CASE FastCheck(t)
      BY <2>2 DEF FastCheck
    <2>3. CASE SlowCheck(t)
      BY <2>3 DEF SlowCheck
    <2>4. CASE AcquireInitLock(t)
      BY <2>4 DEF AcquireInitLock
    <2>5. CASE Recheck(t)
      BY <2>5 DEF Recheck
    <2>6. CASE BeginStart(t)
      BY <2>6 DEF BeginStart
    <2>7. CASE ProviderStarts(t)
      BY <2>7 DEF ProviderStarts
    <2>8. CASE ProviderFailsToStart(t)
      BY <2>8 DEF ProviderFailsToStart
    <2>9. CASE WriteRunning(t)
      BY <2>9 DEF WriteRunning
    <2>10. CASE WriteError(t)
      BY <2>10 DEF WriteError
    <2>11. CASE PublishRunning(t)
      BY <2>11 DEF PublishRunning
    <2>12. CASE PublishError(t)
      BY <2>12 DEF PublishError
    <2> QED
      BY <2>1, <2>2, <2>3, <2>4, <2>5, <2>6, <2>7, <2>8, <2>9, <2>10, <2>11, <2>12
      DEF EnsureRunning
  <1>2. CASE \E t \in Requests : Dispatch(t) \/ Cancel(t)
    <2>1. PICK t \in Requests : Dispatch(t) \/ Cancel(t)
      BY <1>2
    <2>2. CASE Dispatch(t)
      BY <2>2 DEF Dispatch
    <2>3. CASE Cancel(t)
      BY <2>3 DEF Cancel
    <2> QED
      BY <2>1, <2>2, <2>3
  <1>3. CASE Stop
    BY <1>3 DEF Stop, StopBegin, StopFinish, StopFails
  <1>4. CASE UNCHANGED vars
    BY <1>4 DEF vars
  <1> QED
    BY <1>1, <1>2, <1>3, <1>4 DEF Next

\* Until the shutdown, state and mirror change only in the owner's hands.
LEMMA MirrorStep == IInv /\ [Next]_vars => MirrorInv'
  <1> SUFFICES ASSUME IInv, [Next]_vars PROVE MirrorInv'
    OBVIOUS
  <1> USE TasksAssumption DEF IInv, TypeOK, LockInv, MirrorInv
  <1>1. CASE \E t \in Tasks : EnsureRunning(t)
    <2>1. PICK t \in Tasks : EnsureRunning(t)
      BY <1>1
    <2>2. CASE FastCheck(t)
      BY <2>2 DEF FastCheck
    <2>3. CASE SlowCheck(t)
      BY <2>3 DEF SlowCheck
    <2>4. CASE AcquireInitLock(t)
      BY <2>4 DEF AcquireInitLock
    <2>5. CASE Recheck(t)
      BY <2>5 DEF Recheck
    <2>6. CASE BeginStart(t)
      BY <2>6 DEF BeginStart
    <2>7. CASE ProviderStarts(t)
      BY <2>7 DEF ProviderStarts
    <2>8. CASE ProviderFailsToStart(t)
      BY <2>8 DEF ProviderFailsToStart
    <2>9. CASE WriteRunning(t)
      BY <2>9 DEF WriteRunning
    <2>10. CASE WriteError(t)
      BY <2>10 DEF WriteError
    <2>11. CASE PublishRunning(t)
      BY <2>11 DEF PublishRunning
    <2>12. CASE PublishError(t)
      BY <2>12 DEF PublishError
    <2> QED
      BY <2>1, <2>2, <2>3, <2>4, <2>5, <2>6, <2>7, <2>8, <2>9, <2>10, <2>11, <2>12
      DEF EnsureRunning
  <1>2. CASE \E t \in Requests : Dispatch(t) \/ Cancel(t)
    <2>1. PICK t \in Requests : Dispatch(t) \/ Cancel(t)
      BY <1>2
    <2>2. CASE Dispatch(t)
      BY <2>2 DEF Dispatch
    <2>3. CASE Cancel(t)
      BY <2>3 DEF Cancel
    <2> QED
      BY <2>1, <2>2, <2>3
  <1>3. CASE Stop
    BY <1>3 DEF Stop, StopBegin, StopFinish, StopFails
  <1>4. CASE UNCHANGED vars
    BY <1>4 DEF vars
  <1> QED
    BY <1>1, <1>2, <1>3, <1>4 DEF Next

\* The invariant is kept by every step.
LEMMA Inductive == IInv /\ [Next]_vars => IInv'
  BY TypeStep, LockStep, StartedStep, RecheckStep, BudgetStep, MirrorStep DEF IInv

\* The inductive invariant holds in every state of every run.
THEOREM Invariance == Spec => []IInv
  BY InitInv, Inductive, PTL DEF Spec

\* The container's fields only ever hold the values their types allow.
THEOREM TypeCorrect == Spec => []TypeOK
  <1>1. IInv => TypeOK
    BY DEF IInv
  <1> QED
    BY <1>1, Invariance, PTL

\* However many requests race an eager start, a shutdown and disconnects, at
\* most one of them is inside the initialisation of ensure_running.
THEOREM InitializationIsExclusive == Spec => []SingleInitializer
  <1>1. IInv => SingleInitializer
    BY DEF IInv, LockInv, SingleInitializer
  <1> QED
    BY <1>1, Invariance, PTL

\* No request reaches provider.dispatch before a start() has returned Ok.
THEOREM DispatchFollowsStart == Spec => []ServedOnlyAfterStart
  <1>1. IInv => ServedOnlyAfterStart
    BY DEF IInv, StartedInv, ServedOnlyAfterStart
  <1> QED
    BY <1>1, Invariance, PTL

\* start() runs again only after a failure, a dropped start or a stop.
THEOREM StartsAreAccountedFor == Spec => []StartBudget
  <1>1. IInv => StartBudget
    BY DEF IInv, BudgetInv
  <1> QED
    BY <1>1, Invariance, PTL

\* Until a shutdown the lock-free mirror shows the state whenever no task is
\* between the two writes.
THEOREM MirrorIsFaithfulWhileUp == Spec => []MirrorAgreesWhileUp
  <1>1. IInv => MirrorAgreesWhileUp
    BY DEF IInv, MirrorInv, MirrorAgreesWhileUp
  <1> QED
    BY <1>1, Invariance, PTL

\* Until a shutdown nothing takes a Running service out of Running: neither a
\* late waiter's BeginStart nor a late WriteError.
THEOREM RunningStays == Spec => RunningIsStable
  <1>1. IInv /\ [Next]_vars
          => [stopPc' = "idle" /\ state = "Running" => state' = "Running"]_vars
    <2> SUFFICES ASSUME IInv, Next, stopPc' = "idle", state = "Running"
                 PROVE  state' = "Running"
      BY DEF vars
    <2> USE DEF IInv, RecheckInv, MirrorInv
    <2>1. CASE \E t \in Tasks : EnsureRunning(t)
      BY <2>1 DEF EnsureRunning, FastCheck, SlowCheck, AcquireInitLock, Recheck,
           BeginStart, ProviderStarts, ProviderFailsToStart, WriteRunning, WriteError,
           PublishRunning, PublishError
    <2>2. CASE \E t \in Requests : Dispatch(t) \/ Cancel(t)
      BY <2>2 DEF Dispatch, Cancel
    <2>3. CASE Stop
      BY <2>3 DEF Stop, StopBegin, StopFinish, StopFails
    <2> QED
      BY <2>1, <2>2, <2>3 DEF Next
  <1> QED
    BY <1>1, Invariance, PTL DEF Spec, RunningIsStable

-----------------------------------------------------------------------------
(***************************************************************************)
(* The container implements Lifecycle.  Beyond the invariant above, the    *)
(* steps of a caller that reads only the mirror need to know what the      *)
(* mirror can hold before a shutdown.                                      *)
(***************************************************************************)

\* Before a shutdown nothing reads as stopping or stopped, and an outcome
\* that is written but not published yet is preceded by Starting.
OpenInv ==
    stopPc = "idle" =>
      /\ state \notin {"Stopping", "Stopped"}
      /\ atomic \notin {"Stopping", "Stopped"}
      /\ \A t \in Tasks : pc[t] \in {"publishRunning", "publishError"} => atomic = "Starting"

\* Only the owner of init_lock stores into the mirror before a shutdown.
LEMMA OpenStep == IInv /\ OpenInv /\ [Next]_vars => OpenInv'
  <1> SUFFICES ASSUME IInv, OpenInv, [Next]_vars PROVE OpenInv'
    OBVIOUS
  <1> USE TasksAssumption DEF IInv, TypeOK, LockInv, MirrorInv, OpenInv
  <1>1. CASE \E t \in Tasks : EnsureRunning(t)
    <2>1. PICK t \in Tasks : EnsureRunning(t)
      BY <1>1
    <2>2. CASE FastCheck(t)
      BY <2>1, <2>2 DEF FastCheck
    <2>3. CASE SlowCheck(t)
      BY <2>1, <2>3 DEF SlowCheck
    <2>4. CASE AcquireInitLock(t)
      BY <2>1, <2>4 DEF AcquireInitLock
    <2>5. CASE Recheck(t)
      BY <2>1, <2>5 DEF Recheck
    <2>6. CASE BeginStart(t)
      BY <2>1, <2>6 DEF BeginStart
    <2>7. CASE ProviderStarts(t)
      BY <2>1, <2>7 DEF ProviderStarts
    <2>8. CASE ProviderFailsToStart(t)
      BY <2>1, <2>8 DEF ProviderFailsToStart
    <2>9. CASE WriteRunning(t)
      BY <2>1, <2>9 DEF WriteRunning
    <2>10. CASE WriteError(t)
      BY <2>1, <2>10 DEF WriteError
    <2>11. CASE PublishRunning(t)
      BY <2>1, <2>11 DEF PublishRunning
    <2>12. CASE PublishError(t)
      BY <2>1, <2>12 DEF PublishError
    <2> QED
      BY <2>1, <2>2, <2>3, <2>4, <2>5, <2>6, <2>7, <2>8, <2>9, <2>10, <2>11, <2>12
      DEF EnsureRunning
  <1>2. CASE \E t \in Requests : Dispatch(t) \/ Cancel(t)
    BY <1>2 DEF Dispatch, Cancel
  <1>3. CASE Stop
    BY <1>3 DEF Stop, StopBegin, StopFinish, StopFails
  <1>4. CASE UNCHANGED vars
    BY <1>4 DEF vars
  <1> QED
    BY <1>1, <1>2, <1>3, <1>4 DEF Next

\* Every step of the container is a step of the lifecycle, or none.
LEMMA StepRefines == IInv /\ OpenInv /\ [Next]_vars => [Promise!Next]_(Promise!vars)
  <1> SUFFICES ASSUME IInv, OpenInv, [Next]_vars PROVE [Promise!Next]_(Promise!vars)
    OBVIOUS
  <1> USE TasksAssumption DEF IInv, TypeOK, LockInv, StartedInv, RecheckInv, MirrorInv, OpenInv,
          Status, Starter, Call
  <1>1. CASE \E t \in Tasks : EnsureRunning(t)
    <2>1. PICK t \in Tasks : EnsureRunning(t)
      BY <1>1
    <2>2. CASE FastCheck(t)
      <3>1. CASE atomic = "Running"
        BY <2>1, <2>2, <3>1 DEF FastCheck, Promise!Next, Promise!Admit
      <3>2. CASE atomic = "Stopped"
        BY <2>1, <2>2, <3>2 DEF FastCheck, Promise!Next, Promise!Refuse
      <3>3. CASE atomic \notin {"Running", "Stopped"}
        BY <2>1, <2>2, <3>3 DEF FastCheck, Promise!vars
      <3> QED
        BY <3>1, <3>2, <3>3
    <2>3. CASE SlowCheck(t)
      <3>1. CASE state = "Running"
        <4>1. Call[t] = "pending" /\ Call' = [Call EXCEPT ![t] = "admitted"]
          BY <2>1, <2>3, <3>1 DEF SlowCheck
        <4>2. Starter # t /\ Status \in {"up", "closing"} /\ started
          BY <2>1, <2>3, <3>1 DEF SlowCheck
        <4>3. UNCHANGED <<Status, Starter, started>>
          BY <2>1, <2>3, <3>1 DEF SlowCheck
        <4> QED
          BY <2>1, <4>1, <4>2, <4>3 DEF Promise!Next, Promise!Admit
      <3>2. CASE state \in {"Error", "Stopped"}
        <4>1. Call[t] = "pending" /\ Call' = [Call EXCEPT ![t] = "refused"]
          BY <2>1, <2>3, <3>2 DEF SlowCheck
        <4>2. Starter # t /\ Status \in {"failed", "closing"}
          BY <2>1, <2>3, <3>2 DEF SlowCheck
        <4>3. UNCHANGED <<Status, Starter, started>>
          BY <2>1, <2>3, <3>2 DEF SlowCheck
        <4> QED
          BY <2>1, <4>1, <4>2, <4>3 DEF Promise!Next, Promise!Refuse
      <3>3. CASE state \notin {"Running", "Error", "Stopped"}
        BY <2>1, <2>3, <3>3 DEF SlowCheck, Promise!vars
      <3> QED
        BY <3>1, <3>2, <3>3
    <2>4. CASE AcquireInitLock(t)
      BY <2>1, <2>4 DEF AcquireInitLock, Promise!vars
    <2>5. CASE Recheck(t)
      <3>1. CASE state = "Running"
        <4>1. Call[t] = "pending" /\ Call' = [Call EXCEPT ![t] = "admitted"]
          BY <2>1, <2>5, <3>1 DEF Recheck
        <4>2. Starter # t /\ Status \in {"up", "closing"} /\ started
          BY <2>1, <2>5, <3>1 DEF Recheck
        <4>3. UNCHANGED <<Status, Starter, started>>
          BY <2>1, <2>5, <3>1 DEF Recheck
        <4> QED
          BY <2>1, <4>1, <4>2, <4>3 DEF Promise!Next, Promise!Admit
      <3>2. CASE state # "Running"
        BY <2>1, <2>5, <3>2 DEF Recheck, Promise!vars
      <3> QED
        BY <3>1, <3>2
    <2>6. CASE BeginStart(t)
      <3>1. Call[t] = "pending" /\ UNCHANGED <<Call, started>>
        BY <2>1, <2>6 DEF BeginStart
      <3>2. Starter = NoTask /\ Starter' = t
        BY <2>1, <2>6 DEF BeginStart
      <3>3. Status # "up" /\ Status' = IF Status = "closing" THEN Status ELSE "down"
        BY <2>1, <2>6 DEF BeginStart
      <3> QED
        BY <2>1, <3>1, <3>2, <3>3 DEF Promise!Next, Promise!Begin, Promise!Becomes
    <2>7. CASE ProviderStarts(t)
      BY <2>1, <2>7 DEF ProviderStarts, Promise!Next, Promise!ProviderReady
    <2>8. CASE ProviderFailsToStart(t)
      BY <2>1, <2>8 DEF ProviderFailsToStart, Promise!vars
    <2>9. CASE WriteRunning(t)
      <3>1. started /\ UNCHANGED <<Call, started>>
        BY <2>1, <2>9 DEF WriteRunning
      <3>2. Starter = t /\ Starter' = NoTask
        BY <2>1, <2>9 DEF WriteRunning
      <3>3. Status' = IF Status = "closing" THEN Status ELSE "up"
        BY <2>1, <2>9 DEF WriteRunning
      <3> QED
        BY <2>1, <3>1, <3>2, <3>3 DEF Promise!Next, Promise!Succeed, Promise!Becomes
    <2>10. CASE WriteError(t)
      <3>1. UNCHANGED <<Call, started>>
        BY <2>1, <2>10 DEF WriteError
      <3>2. Starter = t /\ Starter' = NoTask
        BY <2>1, <2>10 DEF WriteError
      <3>3. Status' = IF Status = "closing" THEN Status ELSE "failed"
        BY <2>1, <2>10 DEF WriteError
      <3> QED
        BY <2>1, <3>1, <3>2, <3>3 DEF Promise!Next, Promise!Fail, Promise!Becomes
    <2>11. CASE PublishRunning(t)
      <3>1. Call[t] = "pending" /\ Call' = [Call EXCEPT ![t] = "admitted"]
        BY <2>1, <2>11 DEF PublishRunning
      <3>2. Starter # t /\ Status \in {"up", "closing"} /\ started
        BY <2>1, <2>11 DEF PublishRunning
      <3>3. UNCHANGED <<Status, Starter, started>>
        BY <2>1, <2>11 DEF PublishRunning
      <3> QED
        BY <2>1, <3>1, <3>2, <3>3 DEF Promise!Next, Promise!Admit
    <2>12. CASE PublishError(t)
      <3>1. Call[t] = "pending" /\ Call' = [Call EXCEPT ![t] = "refused"]
        BY <2>1, <2>12 DEF PublishError
      <3>2. Starter # t /\ Status \in {"failed", "closing"}
        BY <2>1, <2>12 DEF PublishError
      <3>3. UNCHANGED <<Status, Starter, started>>
        BY <2>1, <2>12 DEF PublishError
      <3> QED
        BY <2>1, <3>1, <3>2, <3>3 DEF Promise!Next, Promise!Refuse
    <2> QED
      BY <2>1, <2>2, <2>3, <2>4, <2>5, <2>6, <2>7, <2>8, <2>9, <2>10, <2>11, <2>12
      DEF EnsureRunning
  <1>2. CASE \E t \in Requests : Dispatch(t) \/ Cancel(t)
    <2>1. PICK t \in Requests : Dispatch(t) \/ Cancel(t)
      BY <1>2
    <2>2. CASE Dispatch(t)
      BY <2>1, <2>2 DEF Dispatch, Promise!vars
    <2>3. CASE Cancel(t)
      <3>1. Call[t] \in {"pending", "admitted"} /\ Call' = [Call EXCEPT ![t] = "gone"]
        BY <2>1, <2>3 DEF Cancel
      <3>2. Starter' = IF Starter = t THEN NoTask ELSE Starter
        BY <2>1, <2>3 DEF Cancel
      <3>3. UNCHANGED <<Status, started>>
        BY <2>1, <2>3 DEF Cancel
      <3> QED
        BY <2>1, <3>1, <3>2, <3>3 DEF Promise!Next, Promise!Drop
    <2> QED
      BY <2>1, <2>2, <2>3
  <1>3. CASE Stop
    <2>1. CASE StopBegin
      BY <2>1 DEF StopBegin, Promise!Next, Promise!Close
    <2>2. CASE StopFinish \/ StopFails
      BY <2>2 DEF StopFinish, StopFails, Promise!vars
    <2> QED
      BY <1>3, <2>1, <2>2 DEF Stop
  <1>4. CASE UNCHANGED vars
    BY <1>4 DEF vars, Promise!vars
  <1> QED
    BY <1>1, <1>2, <1>3, <1>4 DEF Next

\* ensure_running and stop keep the promises of Lifecycle, with any number of
\* requests and eager starts.
THEOREM ContainerImplementsLifecycle == Spec => ImplementsLifecycle
  <1>1. Init => OpenInv
    BY DEF Init, OpenInv
  <1>2. Init => Promise!Init
    BY TasksAssumption DEF Init, Promise!Init, Status, Starter, Call
  <1>3. Spec => []OpenInv
    BY <1>1, OpenStep, Invariance, PTL DEF Spec
  <1> QED
    BY <1>2, <1>3, Invariance, StepRefines, PTL DEF Spec, ImplementsLifecycle, Promise!Spec
=============================================================================
