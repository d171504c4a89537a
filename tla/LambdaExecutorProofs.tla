------------------------ MODULE LambdaExecutorProofs ------------------------
(***************************************************************************)
(* For any number of invocations and containers: the types of              *)
(* LambdaExecutor, that every answer is the one to the invocation's own    *)
(* payload, and that nobody waits for a container that is gone.            *)
(***************************************************************************)
EXTENDS LambdaExecutor, TLAPS

Pcs == {"idle", "pool", "remove", "cold", "await", "awaitCold", "done"}

ContainerRecords ==
    [status : {"up", "exited", "removed"}, code : Nat, queue : Seq(Invocations),
     slot : Invocations \cup {Nil}, held : BOOLEAN, busy : Invocations \cup {Nil}]

InvocationRecords ==
    [pc : Pcs, code : Nat, at : Nat, reply : Replies \cup {Nil}, result : Replies \cup Errors \cup {Nil}]

\* Every variable has its type, and who waits names a container that was started.
TypeOK ==
    /\ code \in Nat
    /\ pool \in [container : Containers, fresh : BOOLEAN] \cup {Nil}
    /\ containers \in Seq(ContainerRecords) /\ Len(containers) <= MaxContainers
    /\ invocations \in [Invocations -> InvocationRecords]
    /\ \A i \in Invocations : Awaiting(i) => invocations[i].at \in Containers

\* The slot is that of the invocation the runtime works on, as long as it runs.
SlotInv ==
    \A k \in Containers :
        /\ containers[k].busy # Nil => containers[k].slot = containers[k].busy
        /\ containers[k].status = "up" => containers[k].slot = containers[k].busy

\* An answer is the one to the payload of the invocation that gets it.
ReplyInv ==
    \A i \in Invocations :
        /\ invocations[i].reply # Nil => invocations[i].reply.to = i
        /\ Answered(i) => invocations[i].result.to = i

\* Until it is answered, an invocation that started a container has it for itself.
OwnerInv ==
    \A i \in Invocations : invocations[i].pc = "awaitCold" =>
        /\ containers[invocations[i].at].held
        /\ pool # Nil => pool.container # invocations[i].at
        /\ \A j \in Invocations : Awaiting(j) /\ invocations[j].at = invocations[i].at => j = i

IInv == TypeOK /\ SlotInv /\ ReplyInv /\ OwnerInv /\ WaitersAreServed

\* At the start there are no containers and nobody waits.
LEMMA InitInv == Init => IInv
<1> SUFFICES ASSUME Init PROVE IInv
  OBVIOUS
<1>1. Containers = {}
  BY DEF Init, Containers
<1>2. \A i \in Invocations : invocations[i] = Idle
  BY DEF Init
<1>3. Idle \in InvocationRecords
  BY DEF Idle, InvocationRecords, Pcs
<1>4. TypeOK
  BY <1>2, <1>3, LambdaAssumption DEF Init, TypeOK, Awaiting, Idle
<1>5. SlotInv /\ ReplyInv /\ OwnerInv /\ WaitersAreServed
  BY <1>1, <1>2 DEF Init, SlotInv, ReplyInv, OwnerInv, WaitersAreServed, Awaiting, Answered, Idle
<1> QED BY <1>4, <1>5 DEF IInv

\* The pool names a container, which it lets be read and changed.
LEMMA PooledContainer ==
    ASSUME TypeOK, pool # Nil
    PROVE  pool.container \in Containers /\ pool.fresh \in BOOLEAN
  BY DEF TypeOK

\* A container that is changed in place stays a container, and the others are what they were.
LEMMA ChangedContainer ==
    ASSUME TypeOK, NEW k \in Containers, NEW c \in ContainerRecords,
           containers' = [containers EXCEPT ![k] = c]
    PROVE  /\ containers' \in Seq(ContainerRecords) /\ Len(containers') = Len(containers)
           /\ Containers' = Containers
           /\ containers'[k] = c
           /\ \A m \in Containers : m # k => containers'[m] = containers[m]
  BY DEF TypeOK, Containers

\* What an invocation is answered with is all that is left of it.
LEMMA AnswerType ==
    ASSUME TypeOK, NEW i \in Invocations, NEW result \in Replies \cup Errors, invocations' = Answer(i, result)
    PROVE  /\ invocations' \in [Invocations -> InvocationRecords]
           /\ invocations'[i].pc = "done" /\ invocations'[i].result = result /\ invocations'[i].reply = Nil
           /\ \A j \in Invocations : j # i => invocations'[j] = invocations[j]
<1>1. [Idle EXCEPT !.pc = "done", !.result = result] \in InvocationRecords
  BY DEF Idle, InvocationRecords, Pcs
<1> QED BY <1>1 DEF TypeOK, Answer, Idle

\* A container's queue, as a set, when an invocation is put at its end or taken from its head.
LEMMA QueueSets ==
    ASSUME NEW q \in Seq(Invocations)
    PROVE  /\ \A i \in Invocations : Append(q, i) \in Seq(Invocations) /\ ToSet(Append(q, i)) = ToSet(q) \cup {i}
           /\ q # <<>> => /\ Head(q) \in Invocations /\ Tail(q) \in Seq(Invocations)
                          /\ ToSet(q) = ToSet(Tail(q)) \cup {Head(q)}
<1>1. ASSUME NEW i \in Invocations
      PROVE  Append(q, i) \in Seq(Invocations) /\ ToSet(Append(q, i)) = ToSet(q) \cup {i}
  <2>1. /\ Append(q, i) \in Seq(Invocations) /\ Len(Append(q, i)) = Len(q) + 1
        /\ \A n \in 1..Len(q) : Append(q, i)[n] = q[n]
        /\ Append(q, i)[Len(q) + 1] = i
    OBVIOUS
  <2>2. DOMAIN Append(q, i) = 1..(Len(q) + 1) /\ DOMAIN q = 1..Len(q)
    BY <2>1
  <2> QED BY <2>1, <2>2 DEF ToSet
<1>2. ASSUME q # <<>>
      PROVE  Head(q) \in Invocations /\ Tail(q) \in Seq(Invocations) /\ ToSet(q) = ToSet(Tail(q)) \cup {Head(q)}
  <2>1. /\ Tail(q) \in Seq(Invocations) /\ Len(Tail(q)) = Len(q) - 1 /\ Len(q) > 0
        /\ \A n \in 1..(Len(q) - 1) : Tail(q)[n] = q[n + 1]
        /\ Head(q) = q[1]
    BY <1>2
  <2>2. DOMAIN Tail(q) = 1..(Len(q) - 1) /\ DOMAIN q = 1..Len(q)
    BY <2>1
  <2>3. \A n \in 1..Len(q) : n = 1 \/ (n - 1 \in 1..(Len(q) - 1) /\ q[n] = Tail(q)[n - 1])
    BY <2>1
  <2>4. ToSet(q) \subseteq ToSet(Tail(q)) \cup {Head(q)}
    <3> SUFFICES ASSUME NEW n \in 1..Len(q) PROVE q[n] \in ToSet(Tail(q)) \cup {Head(q)}
      BY <2>2 DEF ToSet
    <3>1. CASE n = 1
      BY <2>1, <3>1
    <3>2. CASE n # 1
      <4>1. n - 1 \in DOMAIN Tail(q) /\ q[n] = Tail(q)[n - 1]
        BY <2>2, <2>3, <3>2
      <4> QED BY <4>1 DEF ToSet
    <3> QED BY <3>1, <3>2
  <2>5. ToSet(Tail(q)) \cup {Head(q)} \subseteq ToSet(q)
    BY <2>1, <2>2 DEF ToSet
  <2> QED BY <2>1, <2>2, <2>4, <2>5
<1> QED BY <1>1, <1>2

\* Steps that move an invocation on without touching pool and containers.
LEMMA InvokeStep == ASSUME IInv, NEW i \in Invocations, Invoke(i) \/ PoolMiss(i) \/ ColdStartFails(i) PROVE IInv'
<1>1. UNCHANGED <<code, pool, containers>> /\ Containers' = Containers
  BY DEF Invoke, PoolMiss, ColdStartFails, Containers
<1>2. \A j \in Invocations : j # i => invocations'[j] = invocations[j]
  BY DEF Invoke, PoolMiss, ColdStartFails, Set, Answer, IInv, TypeOK
<1>3. invocations' \in [Invocations -> InvocationRecords]
  <2>1. CASE Invoke(i) /\ code = 0
    BY <2>1, AnswerType DEF Invoke, IInv, Errors
  <2>2. CASE Invoke(i) /\ code # 0
    BY <2>2 DEF Invoke, IInv, TypeOK, InvocationRecords, Pcs
  <2>3. CASE PoolMiss(i)
    BY <2>3 DEF PoolMiss, Set, IInv, TypeOK, InvocationRecords, Pcs
  <2>4. CASE ColdStartFails(i)
    BY <2>4, AnswerType DEF ColdStartFails, IInv, Errors
  <2> QED BY <2>1, <2>2, <2>3, <2>4
<1>4. ~Awaiting(i)' /\ ~Answered(i)' /\ (invocations'[i].reply # Nil => invocations'[i].reply.to = i)
  <2>1. CASE Invoke(i) /\ code = 0
    BY <2>1, AnswerType DEF Invoke, IInv, Errors, Awaiting, Answered
  <2>2. CASE Invoke(i) /\ code # 0
    BY <2>2 DEF Invoke, IInv, TypeOK, ReplyInv, Awaiting, Answered
  <2>3. CASE PoolMiss(i)
    BY <2>3 DEF PoolMiss, Set, IInv, TypeOK, ReplyInv, Awaiting, Answered
  <2>4. CASE ColdStartFails(i)
    BY <2>4, AnswerType DEF ColdStartFails, IInv, Errors, Awaiting, Answered
  <2> QED BY <2>1, <2>2, <2>3, <2>4
<1>5. \A j \in Invocations : Awaiting(j)' => j # i /\ Awaiting(j)
  BY <1>2, <1>4 DEF Awaiting
<1>6. TypeOK'
  BY <1>1, <1>2, <1>3, <1>5 DEF IInv, TypeOK
<1>7. SlotInv' /\ ReplyInv'
  BY <1>1, <1>2, <1>4 DEF IInv, SlotInv, ReplyInv, Answered
<1>8. OwnerInv'
  BY <1>1, <1>2, <1>5 DEF IInv, OwnerInv, Awaiting
<1>9. WaitersAreServed'
  BY <1>1, <1>2, <1>5 DEF IInv, WaitersAreServed
<1> QED BY <1>6, <1>7, <1>8, <1>9 DEF IInv

\* The queue of the pooled container takes one more.
LEMMA WarmStep == ASSUME IInv, NEW i \in Invocations, WarmStart(i) PROVE IInv'
<1> DEFINE k == pool.container
           c == [containers[k] EXCEPT !.queue = Append(@, i)]
<1>1. TypeOK /\ k \in Containers /\ pool # Nil
  BY PooledContainer DEF IInv, WarmStart
<1>2. containers[k] \in ContainerRecords
  BY <1>1 DEF TypeOK, Containers
<1>3. c \in ContainerRecords
  <2>1. containers[k].queue \in Seq(Invocations)
    BY <1>2 DEF ContainerRecords
  <2>2. Append(containers[k].queue, i) \in Seq(Invocations)
    BY <2>1, QueueSets
  <2> QED BY <1>2, <2>2 DEF ContainerRecords
<1>4. containers' = [containers EXCEPT ![k] = c]
  BY <1>1 DEF WarmStart, TypeOK
<1> HIDE DEF c
<1>5. /\ containers' \in Seq(ContainerRecords) /\ Len(containers') = Len(containers)
      /\ Containers' = Containers /\ containers'[k] = c
      /\ \A m \in Containers : m # k => containers'[m] = containers[m]
  BY <1>1, <1>3, <1>4, ChangedContainer
<1>6. /\ c.status = containers[k].status /\ c.slot = containers[k].slot /\ c.held = containers[k].held
      /\ c.busy = containers[k].busy /\ ToSet(c.queue) = ToSet(containers[k].queue) \cup {i}
  BY <1>2, QueueSets DEF c, ContainerRecords
<1>7. \A m \in Containers : /\ containers'[m].status = containers[m].status /\ containers'[m].slot = containers[m].slot
                            /\ containers'[m].held = containers[m].held /\ containers'[m].busy = containers[m].busy
                            /\ ToSet(containers[m].queue) \subseteq ToSet(containers'[m].queue)
  BY <1>5, <1>6
<1>8. /\ invocations' \in [Invocations -> InvocationRecords]
      /\ invocations'[i].pc = "await" /\ invocations'[i].at = k /\ invocations'[i].reply = invocations[i].reply
      /\ \A j \in Invocations : j # i => invocations'[j] = invocations[j]
  <2>1. k \in Nat
    BY <1>1 DEF TypeOK, Containers
  <2>2. [invocations[i] EXCEPT !.pc = "await", !.at = k] \in InvocationRecords
    BY <1>1, <2>1 DEF TypeOK, InvocationRecords, Pcs
  <2>3. invocations' = [invocations EXCEPT ![i] = [invocations[i] EXCEPT !.pc = "await", !.at = k]]
    BY <1>1 DEF WarmStart, TypeOK
  <2> QED BY <1>1, <2>2, <2>3 DEF TypeOK, InvocationRecords
<1>9. UNCHANGED <<code, pool>>
  BY DEF WarmStart
<1>10. TypeOK'
  BY <1>1, <1>5, <1>8, <1>9 DEF TypeOK, Awaiting
<1>11. SlotInv' /\ ReplyInv'
  BY <1>5, <1>7, <1>8 DEF IInv, SlotInv, ReplyInv, Answered
<1>12. OwnerInv'
  <2> SUFFICES ASSUME NEW j \in Invocations, invocations'[j].pc = "awaitCold"
               PROVE  /\ containers'[invocations'[j].at].held
                      /\ pool' # Nil => pool'.container # invocations'[j].at
                      /\ \A l \in Invocations : Awaiting(l)' /\ invocations'[l].at = invocations'[j].at => l = j
    BY DEF OwnerInv
  <2>1. j # i /\ invocations'[j] = invocations[j]
    BY <1>8
  <2>2. /\ invocations[j].at \in Containers /\ containers[invocations[j].at].held
        /\ pool # Nil => pool.container # invocations[j].at
        /\ \A l \in Invocations : Awaiting(l) /\ invocations[l].at = invocations[j].at => l = j
    BY <2>1 DEF IInv, TypeOK, OwnerInv, Awaiting
  <2>3. ASSUME NEW l \in Invocations, Awaiting(l)', invocations'[l].at = invocations'[j].at PROVE l = j
    <3>1. CASE l = i
      BY <3>1, <2>1, <2>2, <2>3, <1>1, <1>8
    <3>2. CASE l # i
      BY <3>2, <2>1, <2>2, <2>3, <1>8 DEF Awaiting
    <3> QED BY <3>1, <3>2
  <2> QED BY <2>1, <2>2, <2>3, <1>7, <1>9
<1>13. WaitersAreServed'
  <2>1. pool' # Nil => containers'[pool'.container].status # "removed" /\ containers'[pool'.container].held
    BY <1>1, <1>7, <1>9 DEF IInv, WaitersAreServed
  <2>2. ASSUME NEW j \in Invocations, Awaiting(j)'
        PROVE  /\ containers'[invocations'[j].at].status # "removed"
               /\ \/ invocations'[j].reply # Nil
                  \/ j \in ToSet(containers'[invocations'[j].at].queue) \cup {containers'[invocations'[j].at].slot}
    <3>1. CASE j = i
      BY <1>1, <1>5, <1>6, <1>8, <3>1 DEF IInv, WaitersAreServed
    <3>2. CASE j # i
      <4>1. Awaiting(j) /\ invocations'[j] = invocations[j] /\ invocations[j].at \in Containers
        BY <1>1, <1>8, <2>2, <3>2 DEF Awaiting, TypeOK
      <4> QED BY <1>7, <4>1 DEF IInv, WaitersAreServed
    <3> QED BY <3>1, <3>2
  <2> QED BY <2>1, <2>2 DEF WaitersAreServed
<1> QED BY <1>10, <1>11, <1>12, <1>13 DEF IInv

\* The pool's sender is dropped, by whoever takes the container out of the pool or puts
\* another in: the container stays what it was otherwise.
LEMMA DroppedSender ==
    ASSUME IInv,
           containers' = IF pool = Nil THEN containers ELSE [containers EXCEPT ![pool.container].held = FALSE]
    PROVE  /\ containers' \in Seq(ContainerRecords) /\ Len(containers') = Len(containers)
           /\ Containers' = Containers
           /\ \A m \in Containers : /\ containers'[m].status = containers[m].status
                                    /\ containers'[m].slot = containers[m].slot
                                    /\ containers'[m].busy = containers[m].busy
                                    /\ containers'[m].queue = containers[m].queue
                                    /\ pool = Nil \/ m # pool.container => containers'[m].held = containers[m].held
<1>1. CASE pool = Nil
  BY <1>1 DEF IInv, TypeOK, Containers
<1>2. CASE pool # Nil
  <2> DEFINE k == pool.container
             c == [containers[k] EXCEPT !.held = FALSE]
  <2>1. TypeOK /\ k \in Containers
    BY <1>2, PooledContainer DEF IInv
  <2>2. containers[k] \in ContainerRecords
    BY <2>1 DEF TypeOK, Containers
  <2>3. /\ c \in ContainerRecords /\ c.status = containers[k].status /\ c.slot = containers[k].slot
        /\ c.busy = containers[k].busy /\ c.queue = containers[k].queue
    BY <2>2 DEF ContainerRecords
  <2>4. containers' = [containers EXCEPT ![k] = c]
    BY <1>2, <2>1 DEF TypeOK
  <2> HIDE DEF c
  <2>5. /\ containers' \in Seq(ContainerRecords) /\ Len(containers') = Len(containers)
        /\ Containers' = Containers /\ containers'[k] = c
        /\ \A m \in Containers : m # k => containers'[m] = containers[m]
    BY <2>1, <2>3, <2>4, ChangedContainer
  <2> QED BY <1>2, <2>3, <2>5
<1> QED BY <1>1, <1>2

\* A warm container past its time is taken out of the pool.
LEMMA RemoveStep == ASSUME IInv, NEW i \in Invocations, RemoveFromPool(i) PROVE IInv'
<1>1. /\ invocations' \in [Invocations -> InvocationRecords]
      /\ invocations'[i].pc = "cold" /\ invocations'[i].reply = invocations[i].reply
      /\ \A j \in Invocations : j # i => invocations'[j] = invocations[j]
  <2>1. [invocations[i] EXCEPT !.pc = "cold"] \in InvocationRecords
    BY DEF IInv, TypeOK, InvocationRecords, Pcs
  <2> QED BY <2>1 DEF RemoveFromPool, Set, IInv, TypeOK
<1>2. \A j \in Invocations : Awaiting(j)' => j # i /\ Awaiting(j)
  BY <1>1 DEF Awaiting
<1>3. pool' = Nil /\ code' = code
  BY DEF RemoveFromPool
<1>4. /\ containers' \in Seq(ContainerRecords) /\ Len(containers') = Len(containers)
      /\ Containers' = Containers
      /\ \A m \in Containers : /\ containers'[m].status = containers[m].status
                               /\ containers'[m].slot = containers[m].slot
                               /\ containers'[m].busy = containers[m].busy
                               /\ containers'[m].queue = containers[m].queue
                               /\ pool = Nil \/ m # pool.container => containers'[m].held = containers[m].held
  BY DroppedSender DEF RemoveFromPool
<1>5. TypeOK'
  BY <1>1, <1>2, <1>3, <1>4 DEF IInv, TypeOK
<1>6. SlotInv' /\ ReplyInv'
  BY <1>1, <1>4 DEF IInv, SlotInv, ReplyInv, Answered
<1>7. OwnerInv'
  BY <1>1, <1>2, <1>3, <1>4 DEF IInv, TypeOK, OwnerInv, Awaiting
<1>8. WaitersAreServed'
  BY <1>1, <1>2, <1>3, <1>4 DEF IInv, TypeOK, WaitersAreServed
<1> QED BY <1>5, <1>6, <1>7, <1>8 DEF IInv

\* A new container begins with the invocation that started it in its queue.
LEMMA ColdStep == ASSUME IInv, NEW i \in Invocations, ColdStart(i) PROVE IInv'
<1> DEFINE n == Len(containers) + 1
           c == [NewContainer(invocations[i].code) EXCEPT !.queue = <<i>>]
<1>1. TypeOK /\ n \in Nat /\ n <= MaxContainers
  BY LambdaAssumption DEF IInv, TypeOK, ColdStart
<1>2. c \in ContainerRecords /\ c.slot = Nil /\ c.busy = Nil /\ c.held /\ c.status = "up" /\ c.queue = <<i>>
  <2>1. invocations[i].code \in Nat
    BY <1>1 DEF TypeOK, InvocationRecords
  <2>2. <<i>> \in Seq(Invocations)
    OBVIOUS
  <2> QED BY <2>1, <2>2 DEF ContainerRecords, NewContainer
<1>3. containers' = Append(containers, c)
  BY DEF ColdStart
<1> HIDE DEF c
<1>4. /\ containers' \in Seq(ContainerRecords) /\ Len(containers') = n /\ Containers' = Containers \cup {n}
      /\ containers'[n] = c /\ \A m \in Containers : containers'[m] = containers[m] /\ m # n
  BY <1>1, <1>2, <1>3 DEF TypeOK, Containers
<1> HIDE DEF n
<1>5. /\ invocations' \in [Invocations -> InvocationRecords]
      /\ invocations'[i].pc = "awaitCold" /\ invocations'[i].at = n /\ invocations'[i].reply = invocations[i].reply
      /\ \A j \in Invocations : j # i => invocations'[j] = invocations[j]
  <2>1. [invocations[i] EXCEPT !.pc = "awaitCold", !.at = n] \in InvocationRecords
    BY <1>1 DEF TypeOK, InvocationRecords, Pcs
  <2>2. invocations' = [invocations EXCEPT ![i] = [invocations[i] EXCEPT !.pc = "awaitCold", !.at = n]]
    BY <1>1 DEF ColdStart, TypeOK, n
  <2> QED BY <1>1, <2>1, <2>2 DEF TypeOK, InvocationRecords
<1>6. UNCHANGED <<code, pool>>
  BY DEF ColdStart
<1>7. \A j \in Invocations : Awaiting(j)' /\ j # i => Awaiting(j) /\ invocations[j].at \in Containers
  BY <1>1, <1>5 DEF Awaiting, TypeOK
<1>8. TypeOK'
  BY <1>1, <1>4, <1>5, <1>6, <1>7 DEF TypeOK
<1>9. SlotInv' /\ ReplyInv'
  BY <1>2, <1>4, <1>5 DEF IInv, SlotInv, ReplyInv, Answered
<1>10. pool # Nil => pool.container \in Containers
  BY <1>1, PooledContainer
<1>11. OwnerInv'
  BY <1>2, <1>4, <1>5, <1>6, <1>7, <1>10 DEF IInv, OwnerInv, Awaiting
<1>12. WaitersAreServed'
  <2>1. i \in ToSet(c.queue)
    BY <1>2 DEF ToSet
  <2> QED BY <1>2, <1>4, <1>5, <1>6, <1>7, <1>10, <2>1 DEF IInv, WaitersAreServed
<1> QED BY <1>8, <1>9, <1>11, <1>12 DEF IInv

\* What await_response gives back is the answer to the own payload, or an error.
LEMMA ReceivedResult ==
    ASSUME IInv, NEW i \in Invocations, NEW result, Received(i, result)
    PROVE  /\ result \in Replies \cup Errors
           /\ result.kind \in {"Success", "FunctionError"} => result.to = i
<1>1. CASE invocations[i].reply # Nil
  BY <1>1 DEF Received, IInv, TypeOK, ReplyInv, InvocationRecords
<1>2. CASE invocations[i].reply = Nil
  BY <1>2 DEF Received, Errors
<1> QED BY <1>1, <1>2

\* The invocation that is answered, and the others.
LEMMA AnsweredInvocation ==
    ASSUME IInv, NEW i \in Invocations, NEW result, Received(i, result), invocations' = Answer(i, result)
    PROVE  /\ invocations' \in [Invocations -> InvocationRecords]
           /\ \A j \in Invocations : j # i => invocations'[j] = invocations[j]
           /\ \A j \in Invocations : Awaiting(j)' => j # i /\ Awaiting(j)
           /\ ReplyInv'
<1>1. /\ result \in Replies \cup Errors
      /\ result.kind \in {"Success", "FunctionError"} => result.to = i
  BY ReceivedResult
<1>2. /\ invocations' \in [Invocations -> InvocationRecords]
      /\ invocations'[i].pc = "done" /\ invocations'[i].result = result /\ invocations'[i].reply = Nil
      /\ \A j \in Invocations : j # i => invocations'[j] = invocations[j]
  BY <1>1, AnswerType DEF IInv
<1> QED BY <1>1, <1>2 DEF IInv, ReplyInv, Answered, Awaiting

\* A warm start ends: with the answer, an error, or because the time is up.
LEMMA FinishWarmStep == ASSUME IInv, NEW i \in Invocations, NEW result, FinishWarm(i, result) PROVE IInv'
<1>1. /\ invocations' \in [Invocations -> InvocationRecords]
      /\ \A j \in Invocations : j # i => invocations'[j] = invocations[j]
      /\ \A j \in Invocations : Awaiting(j)' => j # i /\ Awaiting(j)
      /\ ReplyInv'
  BY AnsweredInvocation DEF FinishWarm
<1>2. UNCHANGED <<code, pool, containers>> /\ Containers' = Containers
  BY DEF FinishWarm, Containers
<1>3. TypeOK' /\ SlotInv'
  BY <1>1, <1>2 DEF IInv, TypeOK, SlotInv
<1>4. OwnerInv'
  BY <1>1, <1>2 DEF IInv, OwnerInv, Awaiting
<1>5. WaitersAreServed'
  BY <1>1, <1>2 DEF IInv, WaitersAreServed
<1> QED BY <1>1, <1>3, <1>4, <1>5 DEF IInv

\* A cold start ends well: its container, which nobody else waited for, goes into the pool.
LEMMA FinishColdStep == ASSUME IInv, NEW i \in Invocations, NEW result, FinishCold(i, result) PROVE IInv'
<1>1. /\ invocations' \in [Invocations -> InvocationRecords]
      /\ \A j \in Invocations : j # i => invocations'[j] = invocations[j]
      /\ \A j \in Invocations : Awaiting(j)' => j # i /\ Awaiting(j)
      /\ ReplyInv'
  BY AnsweredInvocation DEF FinishCold
<1>2. /\ containers' \in Seq(ContainerRecords) /\ Len(containers') = Len(containers)
      /\ Containers' = Containers
      /\ \A m \in Containers : /\ containers'[m].status = containers[m].status
                               /\ containers'[m].slot = containers[m].slot
                               /\ containers'[m].busy = containers[m].busy
                               /\ containers'[m].queue = containers[m].queue
                               /\ pool = Nil \/ m # pool.container => containers'[m].held = containers[m].held
  BY DroppedSender DEF FinishCold
<1> DEFINE k == invocations[i].at
<1>3. /\ code' = code /\ pool' = [container |-> k, fresh |-> TRUE]
      /\ invocations[i].pc = "awaitCold" /\ Awaiting(i) /\ k \in Containers
  BY DEF FinishCold, Awaiting, IInv, TypeOK
<1>4. /\ containers[k].held /\ containers[k].status # "removed" /\ (pool # Nil => pool.container # k)
      /\ \A j \in Invocations : Awaiting(j) /\ invocations[j].at = k => j = i
  BY <1>3 DEF IInv, OwnerInv, WaitersAreServed
<1> HIDE DEF k
<1>5. TypeOK'
  BY <1>1, <1>2, <1>3 DEF IInv, TypeOK
<1>6. SlotInv'
  BY <1>2 DEF IInv, SlotInv
<1>7. OwnerInv'
  <2> SUFFICES ASSUME NEW j \in Invocations, invocations'[j].pc = "awaitCold"
               PROVE  /\ containers'[invocations'[j].at].held
                      /\ pool'.container # invocations'[j].at
                      /\ \A l \in Invocations : Awaiting(l)' /\ invocations'[l].at = invocations'[j].at => l = j
    BY DEF OwnerInv
  <2>1. j # i /\ Awaiting(j) /\ invocations'[j] = invocations[j] /\ invocations[j].at \in Containers
    BY <1>1 DEF Awaiting, IInv, TypeOK
  <2>2. invocations[j].at # k
    BY <1>4, <2>1
  <2>3. /\ containers[invocations[j].at].held
        /\ pool # Nil => pool.container # invocations[j].at
        /\ \A l \in Invocations : Awaiting(l) /\ invocations[l].at = invocations[j].at => l = j
    BY <2>1 DEF IInv, OwnerInv
  <2> QED BY <1>1, <1>2, <1>3, <2>1, <2>2, <2>3
<1>8. WaitersAreServed'
  <2>1. containers'[pool'.container].status # "removed" /\ containers'[pool'.container].held
    BY <1>2, <1>3, <1>4
  <2> QED BY <1>1, <1>2, <2>1 DEF IInv, TypeOK, WaitersAreServed
<1> QED BY <1>1, <1>5, <1>6, <1>7, <1>8 DEF IInv

\* A cold start ends badly: its container is removed, and nobody else waited for it.
LEMMA CleanupColdStep == ASSUME IInv, NEW i \in Invocations, NEW result, CleanupCold(i, result) PROVE IInv'
<1>1. /\ invocations' \in [Invocations -> InvocationRecords]
      /\ \A j \in Invocations : j # i => invocations'[j] = invocations[j]
      /\ \A j \in Invocations : Awaiting(j)' => j # i /\ Awaiting(j)
      /\ ReplyInv'
  BY AnsweredInvocation DEF CleanupCold
<1> DEFINE k == invocations[i].at
           c == [containers[k] EXCEPT !.status = "removed", !.queue = <<>>, !.slot = Nil, !.held = FALSE, !.busy = Nil]
<1>2. /\ UNCHANGED <<code, pool>> /\ invocations[i].pc = "awaitCold" /\ Awaiting(i) /\ k \in Containers /\ TypeOK
  BY DEF CleanupCold, Awaiting, IInv, TypeOK
<1>3. containers[k] \in ContainerRecords
  BY <1>2 DEF TypeOK, Containers
<1>4. c \in ContainerRecords /\ c.slot = Nil /\ c.busy = Nil
  <2>1. <<>> \in Seq(Invocations)
    OBVIOUS
  <2> QED BY <1>3, <2>1 DEF ContainerRecords
<1>5. containers' = [containers EXCEPT ![k] = c]
  BY <1>2 DEF CleanupCold, TypeOK
<1> HIDE DEF c
<1>6. /\ containers' \in Seq(ContainerRecords) /\ Len(containers') = Len(containers)
      /\ Containers' = Containers /\ containers'[k] = c
      /\ \A m \in Containers : m # k => containers'[m] = containers[m]
  BY <1>2, <1>4, <1>5, ChangedContainer
<1>7. /\ pool # Nil => pool.container # k /\ pool.container \in Containers
      /\ \A j \in Invocations : Awaiting(j) /\ invocations[j].at = k => j = i
  BY <1>2, PooledContainer DEF IInv, OwnerInv
<1> HIDE DEF k
<1>8. \A j \in Invocations : Awaiting(j)' => invocations'[j].at \in Containers /\ invocations'[j].at # k
  BY <1>1, <1>2, <1>7 DEF TypeOK
<1>9. TypeOK' /\ SlotInv'
  BY <1>1, <1>2, <1>4, <1>6, <1>8 DEF IInv, TypeOK, SlotInv
<1>10. OwnerInv'
  BY <1>1, <1>2, <1>6, <1>8 DEF IInv, OwnerInv, Awaiting
<1>11. WaitersAreServed'
  BY <1>1, <1>2, <1>6, <1>7, <1>8 DEF IInv, WaitersAreServed
<1> QED BY <1>1, <1>9, <1>10, <1>11 DEF IInv

\* A container whose server or runtime moves, with its queue, slot and status, while pool and
\* senders stay.
LEMMA RunningStep ==
    ASSUME IInv, NEW k \in Containers, NEW c \in ContainerRecords,
           containers' = [containers EXCEPT ![k] = c],
           UNCHANGED <<code, pool>>,
           invocations' \in [Invocations -> InvocationRecords],
           \A j \in Invocations : /\ invocations'[j].pc = invocations[j].pc
                                  /\ invocations'[j].at = invocations[j].at
                                  /\ invocations'[j].result = invocations[j].result
                                  /\ invocations'[j].reply # Nil => invocations'[j].reply.to = j
                                  /\ invocations[j].reply # Nil => invocations'[j].reply # Nil,
           c.held = containers[k].held, c.status # "removed" \/ c.status = containers[k].status,
           c.busy # Nil => c.slot = c.busy, c.status = "up" => c.slot = c.busy,
           \A j \in Invocations : Awaiting(j) /\ j \in ToSet(containers[k].queue) \cup {containers[k].slot} =>
               invocations'[j].reply # Nil \/ j \in ToSet(c.queue) \cup {c.slot}
    PROVE  IInv'
<1>1. /\ containers' \in Seq(ContainerRecords) /\ Len(containers') = Len(containers)
      /\ Containers' = Containers /\ containers'[k] = c
      /\ \A m \in Containers : m # k => containers'[m] = containers[m]
  BY ChangedContainer DEF IInv
<1>2. \A j \in Invocations : /\ Awaiting(j)' <=> Awaiting(j)
                             /\ Awaiting(j) => invocations[j].at \in Containers
                             /\ Answered(j)' <=> Answered(j)
  BY DEF Awaiting, Answered, IInv, TypeOK
<1>3. TypeOK' /\ SlotInv' /\ ReplyInv'
  BY <1>1, <1>2 DEF IInv, TypeOK, SlotInv, ReplyInv
<1>4. OwnerInv'
  <2>1. \A m \in Containers : containers'[m].held = containers[m].held
    BY <1>1
  <2>2. \A j \in Invocations : invocations[j].pc = "awaitCold" => invocations[j].at \in Containers
    BY <1>2 DEF Awaiting
  <2> QED BY <1>2, <2>1, <2>2 DEF IInv, OwnerInv
<1>5. WaitersAreServed'
  <2>1. pool' # Nil => containers'[pool'.container].status # "removed" /\ containers'[pool'.container].held
    <3>1. pool # Nil => pool.container \in Containers
      BY PooledContainer DEF IInv
    <3> QED BY <1>1, <3>1 DEF IInv, WaitersAreServed
  <2>2. ASSUME NEW j \in Invocations, Awaiting(j)'
        PROVE  /\ containers'[invocations'[j].at].status # "removed"
               /\ \/ invocations'[j].reply # Nil
                  \/ j \in ToSet(containers'[invocations'[j].at].queue) \cup {containers'[invocations'[j].at].slot}
    <3>1. Awaiting(j) /\ invocations'[j].at = invocations[j].at /\ invocations[j].at \in Containers
      BY <1>2, <2>2
    <3>2. /\ containers[invocations[j].at].status # "removed"
          /\ \/ invocations[j].reply # Nil
             \/ j \in ToSet(containers[invocations[j].at].queue) \cup {containers[invocations[j].at].slot}
      BY <3>1 DEF IInv, WaitersAreServed
    <3>3. CASE invocations[j].at = k
      BY <1>1, <3>1, <3>2, <3>3
    <3>4. CASE invocations[j].at # k
      BY <1>1, <3>1, <3>2, <3>4
    <3> QED BY <3>3, <3>4
  <2> QED BY <2>1, <2>2 DEF WaitersAreServed
<1> QED BY <1>3, <1>4, <1>5 DEF IInv

\* The runtime takes an invocation, gives its answer, or dies.
LEMMA ContainerStepInv == ASSUME IInv, NEW k \in Containers, ContainerStep(k) PROVE IInv'
<1>1. containers[k] \in ContainerRecords /\ containers \in Seq(ContainerRecords) /\ DOMAIN containers = Containers
  BY DEF IInv, TypeOK, Containers
<1>2. containers[k].queue \in Seq(Invocations)
  BY <1>1 DEF ContainerRecords
<1>3. \A j \in Invocations : invocations[j].reply # Nil => invocations[j].reply.to = j
  BY DEF IInv, ReplyInv
<1>4. invocations \in [Invocations -> InvocationRecords]
  BY DEF IInv, TypeOK
<1>5. /\ containers[k].busy # Nil => containers[k].slot = containers[k].busy
      /\ containers[k].status = "up" => containers[k].slot = containers[k].busy
  BY DEF IInv, SlotInv
<1>6. CASE RicNext(k)
  <2> DEFINE c == [containers[k] EXCEPT !.queue = Tail(@), !.slot = Head(containers[k].queue),
                                        !.busy = Head(containers[k].queue)]
  <2>1. containers[k].queue # <<>> /\ containers[k].status = "up" /\ containers[k].busy = Nil
    BY <1>6 DEF RicNext
  <2>2. /\ Head(containers[k].queue) \in Invocations /\ Tail(containers[k].queue) \in Seq(Invocations)
        /\ ToSet(containers[k].queue) = ToSet(Tail(containers[k].queue)) \cup {Head(containers[k].queue)}
    BY <1>2, <2>1, QueueSets
  <2>3. /\ c \in ContainerRecords /\ c.held = containers[k].held /\ c.status = containers[k].status
        /\ c.slot = Head(containers[k].queue) /\ c.busy = Head(containers[k].queue)
        /\ c.queue = Tail(containers[k].queue)
    BY <1>1, <2>2 DEF ContainerRecords
  <2>4. containers' = [containers EXCEPT ![k] = c] /\ UNCHANGED <<code, pool, invocations>>
    BY <1>1, <1>6 DEF RicNext
  <2> HIDE DEF c
  <2>5. \A j \in Invocations : j \in ToSet(containers[k].queue) \cup {containers[k].slot} =>
            j \in ToSet(c.queue) \cup {c.slot}
    BY <1>5, <2>1, <2>2, <2>3, LambdaAssumption
  <2> QED BY <1>3, <1>4, <2>3, <2>4, <2>5, RunningStep
<1>7. CASE RicGone(k)
  <2> DEFINE c == [containers[k] EXCEPT !.status = "exited"]
  <2>1. /\ c \in ContainerRecords /\ c.held = containers[k].held /\ c.status = "exited"
        /\ c.slot = containers[k].slot /\ c.busy = containers[k].busy /\ c.queue = containers[k].queue
    BY <1>1 DEF ContainerRecords
  <2>2. containers' = [containers EXCEPT ![k] = c] /\ UNCHANGED <<code, pool, invocations>>
    BY <1>1, <1>7 DEF RicGone
  <2> HIDE DEF c
  <2>3. /\ c.busy # Nil => c.slot = c.busy
        /\ c.status = "up" => c.slot = c.busy
        /\ c.status # "removed"
    BY <1>5, <2>1
  <2>4. \A j \in Invocations : Awaiting(j) /\ j \in ToSet(containers[k].queue) \cup {containers[k].slot} =>
            invocations'[j].reply # Nil \/ j \in ToSet(c.queue) \cup {c.slot}
    BY <2>1
  <2> QED BY <1>3, <1>4, <2>1, <2>2, <2>3, <2>4, RunningStep
<1>8. CASE ContainerDies(k)
  <2> DEFINE c == [containers[k] EXCEPT !.status = "exited", !.busy = Nil]
  <2>1. /\ c \in ContainerRecords /\ c.held = containers[k].held /\ c.status = "exited"
        /\ c.slot = containers[k].slot /\ c.busy = Nil /\ c.queue = containers[k].queue
    BY <1>1 DEF ContainerRecords
  <2>2. containers' = [containers EXCEPT ![k] = c] /\ UNCHANGED <<code, pool, invocations>>
    BY <1>1, <1>8 DEF ContainerDies
  <2> HIDE DEF c
  <2> QED BY <1>3, <1>4, <2>1, <2>2, RunningStep
<1>9. ASSUME NEW kind \in {"Success", "FunctionError"}, RicResponse(k, kind) PROVE IInv'
  <2> DEFINE c == [containers[k] EXCEPT !.slot = Nil, !.busy = Nil]
             s == containers[k].slot
             reply == [kind |-> kind, to |-> containers[k].busy]
  <2>1. /\ c \in ContainerRecords /\ c.held = containers[k].held /\ c.status = containers[k].status
        /\ c.slot = Nil /\ c.busy = Nil /\ c.queue = containers[k].queue
    BY <1>1 DEF ContainerRecords
  <2>2. containers' = [containers EXCEPT ![k] = c] /\ UNCHANGED <<code, pool>>
    BY <1>1, <1>9 DEF RicResponse
  <2>3. s \in Invocations /\ s = containers[k].busy /\ reply \in Replies /\ reply.to = s
    BY <1>1, <1>5, <1>9 DEF RicResponse, ContainerRecords, Replies
  <2>4. invocations' = IF Awaiting(s) THEN [invocations EXCEPT ![s].reply = reply] ELSE invocations
    BY <1>9, <2>3, LambdaAssumption DEF RicResponse, SlotOf
  <2> HIDE DEF c, reply, s
  <2>5. [invocations[s] EXCEPT !.reply = reply] \in InvocationRecords
    BY <1>4, <2>3 DEF InvocationRecords
  <2>6. /\ invocations' \in [Invocations -> InvocationRecords]
        /\ \A j \in Invocations : j # s => invocations'[j] = invocations[j]
        /\ Awaiting(s) => invocations'[s].reply = reply
        /\ ~Awaiting(s) => invocations'[s] = invocations[s]
        /\ invocations'[s].pc = invocations[s].pc /\ invocations'[s].at = invocations[s].at
        /\ invocations'[s].result = invocations[s].result
    BY <1>4, <2>3, <2>4, <2>5 DEF InvocationRecords
  <2>7. reply # Nil
    BY <2>3, NilAssumption
  <2>8. \A j \in Invocations : Awaiting(j) /\ j \in ToSet(containers[k].queue) \cup {s} =>
            invocations'[j].reply # Nil \/ j \in ToSet(c.queue) \cup {c.slot}
    BY <2>1, <2>6, <2>7
  <2>9. \A j \in Invocations : /\ invocations'[j].pc = invocations[j].pc
                               /\ invocations'[j].at = invocations[j].at
                               /\ invocations'[j].result = invocations[j].result
                               /\ invocations'[j].reply # Nil => invocations'[j].reply.to = j
                               /\ invocations[j].reply # Nil => invocations'[j].reply # Nil
    BY <1>3, <2>3, <2>6, <2>7
  <2> QED BY <2>1, <2>2, <2>6, <2>8, <2>9, RunningStep DEF s
<1> QED BY <1>6, <1>7, <1>8, <1>9 DEF ContainerStep

\* The inductive invariant.
LEMMA Invariance == Spec => []IInv
<1>1. IInv /\ [Next]_vars => IInv'
  <2> SUFFICES ASSUME IInv, [Next]_vars PROVE IInv'
    OBVIOUS
  <2>1. CASE UpdateFunctionCode \/ DeleteFunction
    BY <2>1 DEF UpdateFunctionCode, DeleteFunction, IInv, TypeOK, SlotInv, ReplyInv, OwnerInv, WaitersAreServed,
                Containers, Awaiting, Answered
  <2>2. CASE Expire
    <3>1. pool # Nil /\ pool' # Nil /\ pool'.container = pool.container /\ UNCHANGED <<code, containers, invocations>>
          /\ pool' \in [container : Containers, fresh : BOOLEAN]
      <4>1. pool \in [container : Containers, fresh : BOOLEAN] /\ pool' = [pool EXCEPT !.fresh = FALSE]
        BY <2>2 DEF Expire, IInv, TypeOK
      <4>2. pool' \in [container : 1..MaxContainers, fresh : BOOLEAN]
        <5>1. Containers \subseteq 1..MaxContainers
          BY LambdaAssumption DEF IInv, TypeOK, Containers
        <5> QED BY <4>1, <5>1
      <4> QED BY <2>2, <4>1, <4>2, NilAssumption DEF Expire
    <3> QED BY <3>1 DEF IInv, TypeOK, SlotInv, ReplyInv, OwnerInv, WaitersAreServed, Containers, Awaiting, Answered
  <2>3. ASSUME NEW i \in Invocations, InvocationStep(i) PROVE IInv'
    BY <2>3, InvokeStep, WarmStep, RemoveStep, ColdStep, FinishWarmStep, FinishColdStep, CleanupColdStep
    DEF InvocationStep
  <2>4. ASSUME NEW k \in Containers, ContainerStep(k) PROVE IInv'
    BY <2>4, ContainerStepInv
  <2>5. CASE UNCHANGED vars
    BY <2>5 DEF vars, IInv, TypeOK, SlotInv, ReplyInv, OwnerInv, WaitersAreServed, Containers, Awaiting, Answered
  <2> QED BY <2>1, <2>2, <2>3, <2>4, <2>5 DEF Next
<1> QED BY <1>1, InitInv, PTL DEF Spec

-----------------------------------------------------------------------------
(* The theorems *)

\* Pool, containers and invocations stay in their types, for any number of them (docker.rs).
THEOREM TypeCorrect == Spec => []TypeOK
  BY Invariance, PTL DEF IInv

\* With any number of invocations and containers, whatever times out, dies or is removed: an
\* answer is the one to the invocation's own payload (ric_next, ric_response, await_response).
THEOREM OwnAnswers == Spec => []AnswersAreTheirOwn
<1>1. IInv => AnswersAreTheirOwn
  BY DEF IInv, ReplyInv, AnswersAreTheirOwn
<1> QED BY <1>1, Invariance, PTL

\* ... and nobody waits for a container that was removed, nor is lost between queue and slot;
\* the pool never holds one that was removed (cold_start, cleanup_container).
THEOREM NobodyWaitsInVain == Spec => []WaitersAreServed
  BY Invariance, PTL DEF IInv
=============================================================================
