---------------------------- MODULE FanoutProofs ----------------------------
(***************************************************************************)
(* For any topics, subscriptions, rules, configurations, requests and      *)
(* worker threads, and whichever clients disconnect: whoever is concerned  *)
(* hears of a publish, an event or an object once, but for a publish whose *)
(* client has gone, and publishes are delivered one after the other.       *)
(***************************************************************************)
EXTENDS Fanout, FiniteSetTheorems, TLAPS

-----------------------------------------------------------------------------
(* What is still to be delivered.  A call that is left is known by how many follow it, which *)
(* stays what it is while calls before it are made.                                          *)

IsSeq(s) == s \in Seq({s[i] : i \in DOMAIN s})

CallsLeft(task, n, q) ==
    {d \in 0..(Len(task.rest) - 1) :
        LET call == task.rest[Len(task.rest) - d] IN call.source = n /\ call.to = q}

\* A subscription that passes a task's message on.
Passes(s, attributes) == s.protocol = "sqs" /\ FilterMatches(s.filter, attributes)

OutsLeft(task, n, q) ==
    {d \in 0..(Len(task.out) - 1) :
        LET s == task.out[Len(task.out) - d]
        IN  task.pub = n /\ Passes(s, task.attributes) /\ s.endpoint = q}

Calls(n, q) == {x \in (DOMAIN tasks) \X Nat : x[2] \in CallsLeft(tasks[x[1]], n, q)}

Outs(n, q) == {x \in (DOMAIN tasks) \X Nat : x[2] \in OutsLeft(tasks[x[1]], n, q)}

Arrived(n, q) == {i \in DOMAIN queues[q] : queues[q][i].source = n}

IsPublish(n) == sources[n].kind = "publish"

\* As many as wanted, or fewer of a publish whose client disconnected.
AddsUp(n, total, want) == total = want \/ (sources[n].cut /\ IsPublish(n) /\ want \in Nat /\ total <= want)

\* What has arrived and what is left are together what was wanted.
Accounted(n, q) ==
    /\ IsFiniteSet(Arrived(n, q)) /\ IsFiniteSet(Calls(n, q)) /\ IsFiniteSet(Outs(n, q))
    /\ AddsUp(n, Cardinality(Arrived(n, q)) + Cardinality(Calls(n, q)) + Cardinality(Outs(n, q)), sources[n].want[q])

Accounts == \A n \in DOMAIN sources, q \in Queues : Accounted(n, q)

-----------------------------------------------------------------------------
(* The invariant *)

\* A call is on behalf of a source there is, and one that goes to a queue is not of a publish.
CallInv(call) ==
    /\ call.source \in 0..Len(sources)
    /\ call.to \notin Topics \cup {"emit", "sns"} => call.source # 0 /\ ~IsPublish(call.source)

\* A task that publishes holds the guard, its publish is the last one, and what it delivers to
\* are subscriptions there are.
PublishInv(t) ==
    IF tasks[t].out = <<>> THEN tasks[t].pub = 0
    ELSE /\ guard = t
         /\ tasks[t].rest # <<>> /\ Head(tasks[t].rest).to \in Topics
         /\ tasks[t].pub \in DOMAIN sources /\ IsPublish(tasks[t].pub)
         /\ \A n \in DOMAIN sources : IsPublish(n) => n <= tasks[t].pub
         /\ ToSet(tasks[t].out) \subseteq subs

IsTask(task) ==
    task = [rest |-> task.rest, out |-> task.out, pub |-> task.pub, attributes |-> task.attributes, waits |-> task.waits,
            client |-> task.client]

\* A request publishes or calls another operation of SNS, on behalf of nobody else.
ClientInv(task) ==
    task.client => \A i \in DOMAIN task.rest : task.rest[i].source = 0 /\ task.rest[i].to \in Topics \cup {"sns"}

TaskInv(t) ==
    /\ IsTask(tasks[t]) /\ ClientInv(tasks[t]) /\ IsSeq(tasks[t].rest) /\ IsSeq(tasks[t].out)
    /\ \A i \in DOMAIN tasks[t].rest : CallInv(tasks[t].rest[i])
    /\ PublishInv(t)

TasksInv == IsSeq(tasks) /\ \A t \in DOMAIN tasks : TaskInv(t)

\* A queue holds messages of sources there are, those of publishes in order.
QueueInv(q) ==
    /\ IsSeq(queues[q])
    /\ \A i \in DOMAIN queues[q] : queues[q][i].source \in DOMAIN sources
    /\ \A i, j \in DOMAIN queues[q] :
           (i < j /\ IsPublish(queues[q][i].source) /\ IsPublish(queues[q][j].source))
           => queues[q][i].source <= queues[q][j].source

QueuesInv == queues = [q \in Queues |-> queues[q]] /\ \A q \in Queues : QueueInv(q)

StoresInv == IsFiniteSet(subs) /\ IsSeq(configs) /\ IsSeq(sources)

IInv == StoresInv /\ TasksInv /\ QueuesInv /\ Accounts

-----------------------------------------------------------------------------
(* Sequences of anything *)

LEMMA SequenceIs ==
    ASSUME NEW S, NEW s \in Seq(S)
    PROVE  IsSeq(s)
BY DEF IsSeq

LEMMA SequenceHas ==
    ASSUME NEW s, IsSeq(s)
    PROVE  Len(s) \in Nat /\ DOMAIN s = 1..Len(s)
BY DEF IsSeq

LEMMA EmptyIs == IsSeq(<<>>) /\ Len(<<>>) = 0 /\ DOMAIN <<>> = {}
<1>1. <<>> \in Seq({})
  OBVIOUS
<1>2. Len(<<>>) = 0
  OBVIOUS
<1>3. IsSeq(<<>>)
  BY <1>1, SequenceIs
<1> QED BY <1>2, <1>3, SequenceHas

LEMMA TailIs ==
    ASSUME NEW s, IsSeq(s), s # <<>>
    PROVE  /\ Len(s) \in Nat \ {0} /\ DOMAIN s = 1..Len(s) /\ Head(s) = s[1]
           /\ IsSeq(Tail(s)) /\ Len(Tail(s)) = Len(s) - 1 /\ DOMAIN Tail(s) = 1..(Len(s) - 1)
           /\ \A i \in 1..(Len(s) - 1) : Tail(s)[i] = s[i + 1]
<1> DEFINE S == {s[i] : i \in DOMAIN s}
<1>1. s \in Seq(S)
  BY DEF IsSeq
<1> HIDE DEF S
<1>2. Tail(s) \in Seq(S) /\ Len(Tail(s)) = Len(s) - 1 /\ Len(s) \in Nat \ {0} /\ DOMAIN s = 1..Len(s)
  BY <1>1
<1>3. Head(s) = s[1] /\ \A i \in 1..(Len(s) - 1) : Tail(s)[i] = s[i + 1]
  BY <1>1
<1>4. IsSeq(Tail(s))
  BY <1>2, SequenceIs
<1> QED BY <1>2, <1>3, <1>4, SequenceHas

LEMMA AppendIs ==
    ASSUME NEW s, IsSeq(s), NEW x
    PROVE  /\ IsSeq(Append(s, x)) /\ Len(Append(s, x)) = Len(s) + 1
           /\ Len(s) \in Nat /\ DOMAIN s = 1..Len(s) /\ DOMAIN Append(s, x) = 1..(Len(s) + 1)
           /\ Append(s, x)[Len(s) + 1] = x
           /\ \A i \in 1..Len(s) : Append(s, x)[i] = s[i]
<1> DEFINE S == {s[i] : i \in DOMAIN s} \cup {x}
<1>1. s \in Seq(S) /\ x \in S
  BY DEF IsSeq
<1> HIDE DEF S
<1>2. /\ Append(s, x) \in Seq(S) /\ Len(Append(s, x)) = Len(s) + 1
      /\ Len(s) \in Nat /\ DOMAIN s = 1..Len(s)
      /\ Append(s, x)[Len(s) + 1] = x
      /\ \A i \in 1..Len(s) : Append(s, x)[i] = s[i]
  BY <1>1
<1>3. IsSeq(Append(s, x))
  BY <1>2, SequenceIs
<1> QED BY <1>2, <1>3, SequenceHas

LEMMA ConcatIs ==
    ASSUME NEW r, NEW s, IsSeq(r), IsSeq(s)
    PROVE  /\ IsSeq(r \o s) /\ Len(r \o s) = Len(r) + Len(s)
           /\ Len(r) \in Nat /\ Len(s) \in Nat /\ DOMAIN r = 1..Len(r) /\ DOMAIN s = 1..Len(s)
           /\ DOMAIN (r \o s) = 1..(Len(r) + Len(s))
           /\ \A i \in 1..Len(r) : (r \o s)[i] = r[i]
           /\ \A i \in (Len(r) + 1)..(Len(r) + Len(s)) : (r \o s)[i] = s[i - Len(r)]
<1> DEFINE S == {r[i] : i \in DOMAIN r} \cup {s[i] : i \in DOMAIN s}
<1>1. r \in Seq(S) /\ s \in Seq(S)
  BY DEF IsSeq
<1> HIDE DEF S
<1>2. /\ r \o s \in Seq(S) /\ Len(r \o s) = Len(r) + Len(s)
      /\ Len(r) \in Nat /\ Len(s) \in Nat /\ DOMAIN r = 1..Len(r) /\ DOMAIN s = 1..Len(s)
      /\ \A i \in 1..Len(r) : (r \o s)[i] = r[i]
      /\ \A i \in (Len(r) + 1)..(Len(r) + Len(s)) : (r \o s)[i] = s[i - Len(r)]
  BY <1>1
<1>3. IsSeq(r \o s)
  BY <1>2, SequenceIs
<1> QED BY <1>2, <1>3, SequenceHas

LEMMA ExceptIs ==
    ASSUME NEW s, IsSeq(s), NEW i, NEW x
    PROVE  IsSeq([s EXCEPT ![i] = x]) /\ Len([s EXCEPT ![i] = x]) = Len(s)
<1> DEFINE S == {s[j] : j \in DOMAIN s} \cup {x}
<1>1. s \in Seq(S) /\ x \in S
  BY DEF IsSeq
<1> HIDE DEF S
<1>2. [s EXCEPT ![i] = x] \in Seq(S) /\ Len([s EXCEPT ![i] = x]) = Len(s)
  <2>1. Len(s) \in Nat /\ s \in [1..Len(s) -> S]
    BY <1>1
  <2>2. [s EXCEPT ![i] = x] \in [1..Len(s) -> S]
    BY <2>1, <1>1
  <2> QED BY <2>1, <2>2
<1> QED BY <1>2, SequenceIs

LEMMA FunctionIs ==
    ASSUME NEW n \in Nat, NEW f, f = [i \in 1..n |-> f[i]]
    PROVE  IsSeq(f) /\ Len(f) = n
<1> DEFINE S == {f[i] : i \in 1..n}
<1>1. f \in [1..n -> S]
  OBVIOUS
<1> HIDE DEF S
<1>2. f \in Seq(S) /\ Len(f) = n
  BY <1>1
<1> QED BY <1>2, SequenceIs

-----------------------------------------------------------------------------
(* Counting *)

\* As many as are named one to one.
LEMMA SameNumber ==
    ASSUME NEW T, IsFiniteSet(T), NEW g, \A x, y \in T : g[x] = g[y] => x = y
    PROVE  IsFiniteSet({g[x] : x \in T}) /\ Cardinality({g[x] : x \in T}) = Cardinality(T)
<1> DEFINE U == {g[x] : x \in T}
           f == [x \in T |-> g[x]]
<1>1. f \in Bijection(T, U)
  BY DEF Bijection, Injection, Surjection, IsInjective
<1>2. ExistsBijection(T, U)
  BY <1>1 DEF ExistsBijection
<1> HIDE DEF U
<1>3. IsFiniteSet(U) /\ Cardinality(U) = Cardinality(T)
  BY <1>2, FS_Bijection
<1> QED BY <1>3 DEF U

\* An enumeration has as many positions for a part of its set as that part has elements.
LEMMA Enumerates ==
    ASSUME NEW S, IsFiniteSet(S), NEW f \in SetToSeqs(S), NEW T \in SUBSET S
    PROVE  /\ IsSeq(f) /\ Len(f) = Cardinality(S) /\ DOMAIN f = 1..Len(f) /\ ToSet(f) = S
           /\ IsFiniteSet({i \in DOMAIN f : f[i] \in T})
           /\ Cardinality({i \in DOMAIN f : f[i] \in T}) = Cardinality(T)
<1>1. PICK n \in Nat : n = Cardinality(S)
  BY FS_CardinalityType
<1>2. f \in [1..n -> S] /\ \A i, j \in 1..n : i # j => f[i] # f[j]
  BY <1>1 DEF SetToSeqs
<1>3. IsSeq(f) /\ Len(f) = n
  BY <1>2, FunctionIs
<1>4. ToSet(f) = S
  <2>1. f \in Injection(1..n, S)
    BY <1>2 DEF Injection, IsInjective
  <2>2. IsFiniteSet(1..n) /\ Cardinality(1..n) = n
    BY FS_Interval
  <2>3. f \in Surjection(1..n, S)
    BY <2>1, <2>2, <1>1, FS_Injection
  <2> QED BY <2>3, <1>2 DEF Surjection, ToSet
<1>5. IsFiniteSet({i \in DOMAIN f : f[i] \in T}) /\ Cardinality({i \in DOMAIN f : f[i] \in T}) = Cardinality(T)
  <2> DEFINE I == {i \in DOMAIN f : f[i] \in T}
  <2>1. IsFiniteSet(I)
    <3>1. IsFiniteSet(1..n) /\ I \in SUBSET (1..n)
      BY <1>2, FS_Interval
    <3> QED BY <3>1, FS_Subset
  <2>2. \A x, y \in I : f[x] = f[y] => x = y
    BY <1>2
  <2>3. {f[x] : x \in I} = T
    BY <1>2, <1>4 DEF ToSet
  <2> HIDE DEF I
  <2>4. Cardinality({f[x] : x \in I}) = Cardinality(I)
    BY <2>1, <2>2, SameNumber
  <2>5. Cardinality(I) = Cardinality(T)
    BY <2>3, <2>4
  <2> QED BY <2>1, <2>5 DEF I
<1> QED BY <1>1, <1>2, <1>3, <1>4, <1>5

LEMMA EnumerationIs ==
    ASSUME NEW S, IsFiniteSet(S)
    PROVE  SetToSeq(S) \in SetToSeqs(S)
<1>1. PICK n \in Nat : n = Cardinality(S)
  BY FS_CardinalityType
<1>2. PICK f \in [1..n -> S] : IsInjective(f)
  <2>1. ExistsBijection(1..n, S)
    BY <1>1, FS_CardinalityType
  <2> QED BY <2>1 DEF ExistsBijection, Bijection, Injection
<1>3. SetToSeq(S) \in [1..n -> S] /\ IsInjective(SetToSeq(S))
  BY <1>1, <1>2 DEF SetToSeq
<1> QED BY <1>1, <1>3 DEF SetToSeqs, IsInjective

-----------------------------------------------------------------------------
(* What a step does to what is left *)

\* The next call is the one that most calls follow.
LEMMA NextCall ==
    ASSUME NEW task, NEW u, IsSeq(task.rest), task.rest # <<>>, u.rest = Tail(task.rest), NEW n, NEW q
    PROVE  /\ CallsLeft(u, n, q) = CallsLeft(task, n, q) \ {Len(task.rest) - 1}
           /\ Len(task.rest) - 1 \in CallsLeft(task, n, q)
                  <=> Head(task.rest).source = n /\ Head(task.rest).to = q
<1>1. PICK r, s, len : r = task.rest /\ s = Tail(r) /\ len = Len(r)
  OBVIOUS
<1>2. /\ len \in Nat \ {0} /\ Head(r) = r[1] /\ Len(s) = len - 1
      /\ \A i \in 1..(len - 1) : s[i] = r[i + 1]
  BY <1>1, TailIs
<1>3. CallsLeft(u, n, q) = {d \in 0..(len - 2) : s[len - 1 - d].source = n /\ s[len - 1 - d].to = q}
  BY <1>1, <1>2 DEF CallsLeft
<1>4. CallsLeft(task, n, q) = {d \in 0..(len - 1) : r[len - d].source = n /\ r[len - d].to = q}
  BY <1>1 DEF CallsLeft
<1>5. \A d \in 0..(len - 2) : s[len - 1 - d] = r[len - d]
  <2> TAKE d \in 0..(len - 2)
  <2>1. len - 1 - d \in 1..(len - 1) /\ (len - 1 - d) + 1 = len - d
    BY <1>2
  <2> QED BY <2>1, <1>2
<1>6. len - (len - 1) = 1 /\ len - 1 \in 0..(len - 1) /\ 0..(len - 2) = (0..(len - 1)) \ {len - 1}
  BY <1>2
<1>7. CallsLeft(u, n, q) = CallsLeft(task, n, q) \ {len - 1}
  BY <1>3, <1>4, <1>5, <1>6
<1>8. len - 1 \in CallsLeft(task, n, q) <=> r[1].source = n /\ r[1].to = q
  BY <1>4, <1>6
<1> QED BY <1>1, <1>2, <1>7, <1>8

\* So is the next subscription.
LEMMA NextOut ==
    ASSUME NEW task, NEW u, IsSeq(task.out), task.out # <<>>, u.out = Tail(task.out),
           u.pub = task.pub \/ Tail(task.out) = <<>>, u.attributes = task.attributes, NEW n, NEW q
    PROVE  /\ OutsLeft(u, n, q) = OutsLeft(task, n, q) \ {Len(task.out) - 1}
           /\ Len(task.out) - 1 \in OutsLeft(task, n, q)
                  <=> task.pub = n /\ Passes(Head(task.out), task.attributes) /\ Head(task.out).endpoint = q
<1>1. PICK r, s, len, a : r = task.out /\ s = Tail(r) /\ len = Len(r) /\ a = task.attributes
  OBVIOUS
<1>2. /\ len \in Nat \ {0} /\ Head(r) = r[1] /\ Len(s) = len - 1
      /\ \A i \in 1..(len - 1) : s[i] = r[i + 1]
  BY <1>1, TailIs
<1>3. OutsLeft(u, n, q) = {d \in 0..(len - 2) : u.pub = n /\ Passes(s[len - 1 - d], a) /\ s[len - 1 - d].endpoint = q}
  BY <1>1, <1>2 DEF OutsLeft
<1>4. OutsLeft(task, n, q) = {d \in 0..(len - 1) : task.pub = n /\ Passes(r[len - d], a) /\ r[len - d].endpoint = q}
  BY <1>1 DEF OutsLeft
<1>5. \A d \in 0..(len - 2) : s[len - 1 - d] = r[len - d]
  <2> TAKE d \in 0..(len - 2)
  <2>1. len - 1 - d \in 1..(len - 1) /\ (len - 1 - d) + 1 = len - d
    BY <1>2
  <2> QED BY <2>1, <1>2
<1>6. len - (len - 1) = 1 /\ len - 1 \in 0..(len - 1) /\ 0..(len - 2) = (0..(len - 1)) \ {len - 1}
  BY <1>2
<1>7. u.pub = task.pub \/ 0..(len - 2) = {}
  <2>1. CASE s = <<>>
    <3>1. len = 1
      BY <2>1, <1>2, EmptyIs
    <3> QED BY <3>1
  <2> QED BY <2>1, <1>1
<1>8. OutsLeft(u, n, q) = OutsLeft(task, n, q) \ {len - 1}
  BY <1>3, <1>4, <1>5, <1>6, <1>7
<1>9. len - 1 \in OutsLeft(task, n, q) <=> task.pub = n /\ Passes(r[1], a) /\ r[1].endpoint = q
  BY <1>4, <1>6
<1> QED BY <1>1, <1>2, <1>8, <1>9

\* A task that goes on changes what is left of itself.
CallIsLess(n, q) == \E x \in Calls(n, q) : Calls(n, q)' = Calls(n, q) \ {x}

OutIsLess(n, q) == \E x \in Outs(n, q) : Outs(n, q)' = Outs(n, q) \ {x}

GoesOn(t, u) == tasks' = [tasks EXCEPT ![t] = u]

LEMMA TaskChanges ==
    ASSUME IsSeq(tasks), NEW t \in DOMAIN tasks, NEW u, GoesOn(t, u)
    PROVE  /\ IsSeq(tasks') /\ DOMAIN tasks' = DOMAIN tasks /\ tasks'[t] = u
           /\ \A s \in DOMAIN tasks : s # t => tasks'[s] = tasks[s]
BY ExceptIs DEF GoesOn

LEMMA CallsStay ==
    ASSUME NEW t \in DOMAIN tasks, NEW u, GoesOn(t, u), NEW n, NEW q, CallsLeft(u, n, q) = CallsLeft(tasks[t], n, q)
    PROVE  Calls(n, q)' = Calls(n, q)
<1>1. /\ DOMAIN tasks' = DOMAIN tasks /\ tasks'[t] = u
      /\ \A s \in DOMAIN tasks : s # t => tasks'[s] = tasks[s]
  BY DEF GoesOn
<1> QED BY <1>1 DEF Calls

LEMMA CallGoes ==
    ASSUME NEW t \in DOMAIN tasks, NEW u, GoesOn(t, u), NEW n, NEW q,
           IsSeq(tasks[t].rest), tasks[t].rest # <<>>, u.rest = Tail(tasks[t].rest)
    PROVE  IF Head(tasks[t].rest).source = n /\ Head(tasks[t].rest).to = q
           THEN CallIsLess(n, q)
           ELSE Calls(n, q)' = Calls(n, q)
<1>1. /\ DOMAIN tasks' = DOMAIN tasks /\ tasks'[t] = u
      /\ \A s \in DOMAIN tasks : s # t => tasks'[s] = tasks[s]
  BY DEF GoesOn
<1>2. PICK task, d : task = tasks[t] /\ d = Len(task.rest) - 1
  OBVIOUS
<1>3. d \in Nat
  BY <1>2, TailIs
<1>4. /\ CallsLeft(u, n, q) = CallsLeft(task, n, q) \ {d}
      /\ d \in CallsLeft(task, n, q) <=> Head(tasks[t].rest).source = n /\ Head(tasks[t].rest).to = q
  BY <1>2, NextCall
<1>5. Calls(n, q)' = Calls(n, q) \ {<<t, d>>}
  BY <1>1, <1>2, <1>4 DEF Calls
<1>6. <<t, d>> \in Calls(n, q) <=> d \in CallsLeft(task, n, q)
  BY <1>2, <1>3 DEF Calls
<1>7. CASE d \in CallsLeft(task, n, q)
  BY <1>4, <1>5, <1>6, <1>7 DEF CallIsLess
<1>8. CASE d \notin CallsLeft(task, n, q)
  BY <1>4, <1>5, <1>6, <1>8
<1> QED BY <1>7, <1>8

LEMMA OutsStay ==
    ASSUME NEW t \in DOMAIN tasks, NEW u, GoesOn(t, u), NEW n, NEW q, OutsLeft(u, n, q) = OutsLeft(tasks[t], n, q)
    PROVE  Outs(n, q)' = Outs(n, q)
<1>1. /\ DOMAIN tasks' = DOMAIN tasks /\ tasks'[t] = u
      /\ \A s \in DOMAIN tasks : s # t => tasks'[s] = tasks[s]
  BY DEF GoesOn
<1> QED BY <1>1 DEF Outs

LEMMA OutGoes ==
    ASSUME NEW t \in DOMAIN tasks, NEW u, GoesOn(t, u), NEW n, NEW q,
           u.pub = tasks[t].pub \/ Tail(tasks[t].out) = <<>>, u.attributes = tasks[t].attributes,
           IsSeq(tasks[t].out), tasks[t].out # <<>>, u.out = Tail(tasks[t].out)
    PROVE  IF /\ tasks[t].pub = n /\ Passes(Head(tasks[t].out), tasks[t].attributes)
              /\ Head(tasks[t].out).endpoint = q
           THEN OutIsLess(n, q)
           ELSE Outs(n, q)' = Outs(n, q)
<1>1. /\ DOMAIN tasks' = DOMAIN tasks /\ tasks'[t] = u
      /\ \A s \in DOMAIN tasks : s # t => tasks'[s] = tasks[s]
  BY DEF GoesOn
<1>2. PICK task, d : task = tasks[t] /\ d = Len(task.out) - 1
  OBVIOUS
<1>3. d \in Nat
  BY <1>2, TailIs
<1>4. /\ OutsLeft(u, n, q) = OutsLeft(task, n, q) \ {d}
      /\ d \in OutsLeft(task, n, q) <=> tasks[t].pub = n /\ Passes(Head(tasks[t].out), tasks[t].attributes) /\ Head(tasks[t].out).endpoint = q
  BY <1>2, NextOut
<1>5. Outs(n, q)' = Outs(n, q) \ {<<t, d>>}
  BY <1>1, <1>2, <1>4 DEF Outs
<1>6. <<t, d>> \in Outs(n, q) <=> d \in OutsLeft(task, n, q)
  BY <1>2, <1>3 DEF Outs
<1>7. CASE d \in OutsLeft(task, n, q)
  BY <1>4, <1>5, <1>6, <1>7 DEF OutIsLess
<1>8. CASE d \notin OutsLeft(task, n, q)
  BY <1>4, <1>5, <1>6, <1>8
<1> QED BY <1>7, <1>8

\* Tasks that are spawned add what they have to do.
LEMMA TasksSpawn ==
    ASSUME IsSeq(tasks), NEW new, IsSeq(new), tasks' = tasks \o new, NEW n, NEW q
    PROVE  /\ IsSeq(tasks') /\ DOMAIN tasks' = 1..(Len(tasks) + Len(new))
           /\ \A t \in DOMAIN tasks : tasks'[t] = tasks[t]
           /\ \A i \in DOMAIN new : tasks'[Len(tasks) + i] = new[i]
           /\ \A t \in DOMAIN tasks' \ DOMAIN tasks : t - Len(tasks) \in DOMAIN new /\ tasks'[t] = new[t - Len(tasks)]
           /\ (\A i \in DOMAIN new : CallsLeft(new[i], n, q) = {}) => Calls(n, q)' = Calls(n, q)
           /\ (\A i \in DOMAIN new : OutsLeft(new[i], n, q) = {}) => Outs(n, q)' = Outs(n, q)
<1>1. PICK m, k : m = Len(tasks) /\ k = Len(new)
  OBVIOUS
<1>2. /\ IsSeq(tasks') /\ m \in Nat /\ k \in Nat /\ DOMAIN tasks = 1..m /\ DOMAIN new = 1..k
      /\ DOMAIN tasks' = 1..(m + k)
      /\ \A i \in 1..m : tasks'[i] = tasks[i]
      /\ \A i \in (m + 1)..(m + k) : tasks'[i] = new[i - m]
  BY <1>1, ConcatIs
<1>3. \A i \in 1..k : tasks'[m + i] = new[i]
  <2> TAKE i \in 1..k
  <2>1. m + i \in (m + 1)..(m + k) /\ (m + i) - m = i
    BY <1>2
  <2> QED BY <2>1, <1>2
<1>4. \A t \in DOMAIN tasks' \ DOMAIN tasks : t - m \in DOMAIN new /\ tasks'[t] = new[t - m]
  BY <1>2
<1>5. ASSUME \A i \in DOMAIN new : CallsLeft(new[i], n, q) = {} PROVE Calls(n, q)' = Calls(n, q)
  BY <1>2, <1>4, <1>5 DEF Calls
<1>6. ASSUME \A i \in DOMAIN new : OutsLeft(new[i], n, q) = {} PROVE Outs(n, q)' = Outs(n, q)
  BY <1>2, <1>4, <1>6 DEF Outs
<1> QED BY <1>1, <1>2, <1>3, <1>4, <1>5, <1>6

-----------------------------------------------------------------------------
(* What a step leaves alone *)

\* Sources are only added and keep their kind, ...
SourcesGrow ==
    /\ IsSeq(sources) /\ IsSeq(sources') /\ DOMAIN sources \subseteq DOMAIN sources'
    /\ \A n \in DOMAIN sources : sources'[n].kind = sources[n].kind

\* ... but for a disconnect stay as they are ...
SourcesStay == \A n \in DOMAIN sources : sources'[n] = sources[n]

\* ... and no publishes among them.
NoPublish == \A n \in DOMAIN sources' \ DOMAIN sources : sources'[n].kind # "publish"

LEMMA SourcesSame ==
    ASSUME IsSeq(sources), sources' = sources
    PROVE  SourcesGrow /\ NoPublish /\ SourcesStay
BY DEF SourcesGrow, NoPublish, SourcesStay

LEMMA SourceAdded ==
    ASSUME IsSeq(sources), NEW x, sources' = Append(sources, x)
    PROVE  /\ SourcesGrow /\ SourcesStay /\ Len(sources) \in Nat /\ DOMAIN sources = 1..Len(sources)
           /\ Len(sources') = Len(sources) + 1 /\ DOMAIN sources' = 1..(Len(sources) + 1)
           /\ sources'[Len(sources) + 1] = x
           /\ x.kind # "publish" => NoPublish
<1>1. PICK m : m = Len(sources)
  OBVIOUS
<1>2. /\ IsSeq(sources') /\ Len(sources') = m + 1 /\ m \in Nat /\ DOMAIN sources = 1..m
      /\ DOMAIN sources' = 1..(m + 1) /\ sources'[m + 1] = x /\ \A i \in 1..m : sources'[i] = sources[i]
  BY <1>1, AppendIs
<1>3. SourcesGrow /\ SourcesStay
  BY <1>2 DEF SourcesGrow, SourcesStay
<1>4. \A n \in DOMAIN sources' \ DOMAIN sources : n = m + 1
  BY <1>2
<1>5. x.kind # "publish" => NoPublish
  BY <1>2, <1>4 DEF NoPublish
<1> QED BY <1>1, <1>2, <1>3, <1>5

LEMMA CallStays ==
    ASSUME SourcesGrow, NEW call, CallInv(call)
    PROVE  CallInv(call)'
<1>1. Len(sources) \in Nat /\ Len(sources') \in Nat /\ DOMAIN sources = 1..Len(sources) /\ DOMAIN sources' = 1..Len(sources')
  BY SequenceHas DEF SourcesGrow
<1>2. Len(sources) <= Len(sources')
  <2>1. CASE Len(sources) = 0
    BY <1>1, <2>1
  <2>2. CASE Len(sources) # 0
    <3>1. Len(sources) \in DOMAIN sources'
      BY <1>1, <2>2 DEF SourcesGrow
    <3> QED BY <3>1, <1>1
  <2> QED BY <2>1, <2>2
<1>3. call.source \in 0..Len(sources) /\ call.source \in 0..Len(sources')
  BY <1>1, <1>2 DEF CallInv
<1>4. call.source # 0 => call.source \in DOMAIN sources
  BY <1>1, <1>3
<1> QED BY <1>3, <1>4 DEF CallInv, SourcesGrow, IsPublish

\* A task that is not at work stays as it should be; one that publishes as long as nobody else
\* does and subscriptions stay.
LEMMA TaskStays ==
    ASSUME SourcesGrow, NEW t, TaskInv(t), tasks'[t] = tasks[t],
           tasks[t].out = <<>> \/ (NoPublish /\ guard' = guard /\ subs' = subs)
    PROVE  TaskInv(t)'
<1>1. PICK task : task = tasks[t] /\ task = tasks'[t]
  OBVIOUS
<1>2. /\ IsTask(task) /\ ClientInv(task) /\ IsSeq(task.rest) /\ IsSeq(task.out)
      /\ \A i \in DOMAIN task.rest : CallInv(task.rest[i])'
  BY <1>1, CallStays DEF TaskInv
<1>3. PublishInv(t)'
  <2>1. CASE tasks[t].out = <<>>
    BY <2>1 DEF TaskInv, PublishInv
  <2>2. CASE tasks[t].out # <<>> /\ NoPublish /\ guard' = guard /\ subs' = subs
    <3>1. PublishInv(t)
      BY DEF TaskInv
    <3>2. \A n \in DOMAIN sources' : IsPublish(n)' => n \in DOMAIN sources /\ IsPublish(n)
      BY <2>2 DEF NoPublish, SourcesGrow, IsPublish
    <3>3. tasks[t].pub \in DOMAIN sources' /\ IsPublish(tasks[t].pub)' /\ \A n \in DOMAIN sources' : IsPublish(n)' => n <= tasks[t].pub
      BY <3>1, <3>2, <2>2 DEF PublishInv, SourcesGrow, IsPublish
    <3> QED BY <3>1, <3>3, <2>2 DEF PublishInv, IsPublish
  <2> QED BY <2>1, <2>2
<1> QED BY <1>1, <1>2, <1>3 DEF TaskInv

LEMMA QueuesStay ==
    ASSUME SourcesGrow, QueuesInv, queues' = queues
    PROVE  QueuesInv' /\ \A n, q : Arrived(n, q)' = Arrived(n, q)
<1>1. ASSUME NEW q \in Queues PROVE QueueInv(q)'
  <2>1. QueueInv(q)
    BY DEF QueuesInv
  <2>2. \A i \in DOMAIN queues[q] : queues[q][i].source \in DOMAIN sources /\ (IsPublish(queues[q][i].source)' <=> IsPublish(queues[q][i].source))
    BY <2>1 DEF QueueInv, SourcesGrow, IsPublish
  <2> QED BY <2>1, <2>2 DEF QueueInv, SourcesGrow, IsPublish
<1>2. queues' = [q \in Queues |-> queues'[q]]
  BY DEF QueuesInv
<1> QED BY <1>1, <1>2 DEF QueuesInv, Arrived

LEMMA AccountStays ==
    ASSUME NEW n \in DOMAIN sources, NEW q, Accounted(n, q), sources'[n] = sources[n],
           Arrived(n, q)' = Arrived(n, q), Calls(n, q)' = Calls(n, q), Outs(n, q)' = Outs(n, q)
    PROVE  Accounted(n, q)'
BY DEF Accounted, AddsUp, IsPublish

\* What arrives has been left.
LEMMA AccountMoves ==
    ASSUME NEW n \in DOMAIN sources, NEW q, Accounted(n, q), sources'[n] = sources[n],
           NEW i, i \notin Arrived(n, q), Arrived(n, q)' = Arrived(n, q) \cup {i},
           \/ CallIsLess(n, q) /\ Outs(n, q)' = Outs(n, q)
           \/ OutIsLess(n, q) /\ Calls(n, q)' = Calls(n, q)
    PROVE  Accounted(n, q)'
<1> PICK x : \/ x \in Calls(n, q) /\ Calls(n, q)' = Calls(n, q) \ {x} /\ Outs(n, q)' = Outs(n, q)
             \/ x \in Outs(n, q) /\ Outs(n, q)' = Outs(n, q) \ {x} /\ Calls(n, q)' = Calls(n, q)
  BY DEF CallIsLess, OutIsLess
<1>1. PICK A, C, O, want, total : /\ A = Arrived(n, q) /\ C = Calls(n, q) /\ O = Outs(n, q) /\ want = sources[n].want[q]
                                  /\ total = Cardinality(A) + Cardinality(C) + Cardinality(O)
  OBVIOUS
<1>2. IsFiniteSet(A) /\ IsFiniteSet(C) /\ IsFiniteSet(O) /\ AddsUp(n, total, want)
  BY <1>1 DEF Accounted
<1>3. Cardinality(A) \in Nat /\ Cardinality(C) \in Nat /\ Cardinality(O) \in Nat
  BY <1>2, FS_CardinalityType
<1>4. i \notin A
  BY <1>1
<1>5. AddsUp(n, total, want)' /\ want = sources'[n].want[q]
  BY <1>1, <1>2 DEF AddsUp, IsPublish
<1>6. CASE x \in C /\ Calls(n, q)' = C \ {x} /\ Outs(n, q)' = O
  <2>1. /\ IsFiniteSet(A \cup {i}) /\ IsFiniteSet(C \ {x})
        /\ Cardinality(A \cup {i}) = Cardinality(A) + 1 /\ Cardinality(C \ {x}) = Cardinality(C) - 1
    BY <1>2, <1>4, <1>6, FS_AddElement, FS_RemoveElement
  <2>2. Cardinality(A \cup {i}) + Cardinality(C \ {x}) + Cardinality(O) = total
    BY <2>1, <1>1, <1>3
  <2> QED BY <2>1, <2>2, <1>1, <1>2, <1>5, <1>6 DEF Accounted
<1>7. CASE x \in O /\ Outs(n, q)' = O \ {x} /\ Calls(n, q)' = C
  <2>1. /\ IsFiniteSet(A \cup {i}) /\ IsFiniteSet(O \ {x})
        /\ Cardinality(A \cup {i}) = Cardinality(A) + 1 /\ Cardinality(O \ {x}) = Cardinality(O) - 1
    BY <1>2, <1>4, <1>7, FS_AddElement, FS_RemoveElement
  <2>2. Cardinality(A \cup {i}) + Cardinality(C) + Cardinality(O \ {x}) = total
    BY <2>1, <1>1, <1>3
  <2> QED BY <2>1, <2>2, <1>1, <1>2, <1>5, <1>7 DEF Accounted
<1> QED BY <1>1, <1>6, <1>7

\* What is not delivered any more, of a publish that was cut off.
LEMMA AccountShrinks ==
    ASSUME NEW n \in DOMAIN sources, NEW q, Accounted(n, q),
           sources'[n].kind = "publish", sources'[n].cut, sources'[n].want = sources[n].want,
           Arrived(n, q)' = Arrived(n, q), Calls(n, q)' \subseteq Calls(n, q), Outs(n, q)' \subseteq Outs(n, q)
    PROVE  Accounted(n, q)'
<1>1. PICK A, C, O, want : A = Arrived(n, q) /\ C = Calls(n, q) /\ O = Outs(n, q) /\ want = sources[n].want[q]
  OBVIOUS
<1>2. PICK D, P : D = Calls(n, q)' /\ P = Outs(n, q)'
  OBVIOUS
<1>3. /\ IsFiniteSet(A) /\ IsFiniteSet(C) /\ IsFiniteSet(O)
      /\ AddsUp(n, Cardinality(A) + Cardinality(C) + Cardinality(O), want)
  BY <1>1 DEF Accounted
<1>4. /\ IsFiniteSet(D) /\ IsFiniteSet(P) /\ Cardinality(D) <= Cardinality(C) /\ Cardinality(P) <= Cardinality(O)
  <2>1. D \in SUBSET C /\ P \in SUBSET O
    BY <1>1, <1>2
  <2> QED BY <2>1, <1>3, FS_Subset
<1>5. /\ Cardinality(A) \in Nat /\ Cardinality(C) \in Nat /\ Cardinality(O) \in Nat
      /\ Cardinality(D) \in Nat /\ Cardinality(P) \in Nat
  BY <1>3, <1>4, FS_CardinalityType
<1>6. want \in Nat /\ Cardinality(A) + Cardinality(D) + Cardinality(P) <= want
  <2>1. want \in Nat /\ Cardinality(A) + Cardinality(C) + Cardinality(O) <= want
    BY <1>3, <1>5 DEF AddsUp
  <2> QED BY <2>1, <1>4, <1>5
<1>7. AddsUp(n, Cardinality(A) + Cardinality(D) + Cardinality(P), want)'
  BY <1>6 DEF AddsUp, IsPublish
<1> QED BY <1>1, <1>2, <1>3, <1>4, <1>7 DEF Accounted

\* A message comes last in its queue, and the queue stays in order if no publish is later.
LEMMA MessageSent ==
    ASSUME IsSeq(sources), sources' = sources, QueuesInv, NEW to, NEW m, queues' = Sent(to, m),
           m.source \in DOMAIN sources,
           IsPublish(m.source) => \A n \in DOMAIN sources : IsPublish(n) => n <= m.source
    PROVE  /\ QueuesInv'
           /\ \A n, q : q # to \/ n # m.source \/ q \notin Queues => Arrived(n, q)' = Arrived(n, q)
           /\ to \in Queues =>
                  LET i == Len(queues[to]) + 1
                  IN  i \notin Arrived(m.source, to) /\ Arrived(m.source, to)' = Arrived(m.source, to) \cup {i}
<1>1. CASE to \notin Queues
  <2>1. queues' = queues
    BY <1>1 DEF Sent
  <2> QED BY <2>1, <1>1, SourcesSame, QueuesStay
<1>2. CASE to \in Queues
  <2>1. PICK s, k : s = queues[to] /\ k = Len(s) + 1
    OBVIOUS
  <2>2. /\ queues' = [queues EXCEPT ![to] = Append(s, m)]
        /\ queues = [q \in Queues |-> queues[q]] /\ QueueInv(to) /\ IsSeq(s)
    BY <1>2, <2>1 DEF Sent, QueuesInv, QueueInv
  <2>3. /\ queues' = [q \in Queues |-> queues'[q]]
        /\ queues'[to] = Append(s, m) /\ \A q \in Queues : q # to => queues'[q] = queues[q]
    BY <1>2, <2>2
  <2>4. /\ IsSeq(Append(s, m)) /\ k \in Nat /\ DOMAIN s = 1..(k - 1) /\ DOMAIN Append(s, m) = 1..k
        /\ Append(s, m)[k] = m /\ \A i \in 1..(k - 1) : Append(s, m)[i] = s[i]
    BY <2>1, <2>2, AppendIs
  <2>5. QueueInv(to)'
    <3>1. /\ \A i \in DOMAIN s : s[i].source \in DOMAIN sources
          /\ \A i, j \in DOMAIN s : (i < j /\ IsPublish(s[i].source) /\ IsPublish(s[j].source)) => s[i].source <= s[j].source
      BY <2>1, <2>2 DEF QueueInv
    <3>2. PICK a : a = Append(s, m)
      OBVIOUS
    <3>3. \A i \in 1..k : a[i].source \in DOMAIN sources
      BY <3>1, <3>2, <2>4
    <3>4. ASSUME NEW i \in 1..k, NEW j \in 1..k, i < j, IsPublish(a[i].source), IsPublish(a[j].source)
          PROVE  a[i].source <= a[j].source
      <4>1. i \in 1..(k - 1) /\ a[i] = s[i]
        BY <3>2, <3>4, <2>4
      <4>2. CASE j = k
        BY <4>1, <4>2, <3>1, <3>2, <3>4, <2>4
      <4>3. CASE j # k
        <5>1. j \in 1..(k - 1) /\ a[j] = s[j]
          BY <4>3, <3>2, <2>4
        <5> QED BY <5>1, <4>1, <3>1, <3>4, <2>4
      <4> QED BY <4>2, <4>3
    <3> QED BY <3>2, <3>3, <3>4, <2>3, <2>4 DEF QueueInv, IsPublish
  <2>6. ASSUME NEW q \in Queues, q # to PROVE QueueInv(q)'
    BY <2>3, <2>6 DEF QueuesInv, QueueInv, IsPublish
  <2>7. QueuesInv'
    BY <2>3, <2>5, <2>6 DEF QueuesInv
  <2>8. ASSUME NEW n, n # m.source PROVE Arrived(n, to)' = Arrived(n, to)
    <3>1. Arrived(n, to)' = {i \in 1..k : Append(s, m)[i].source = n}
      BY <2>3, <2>4 DEF Arrived
    <3>2. Arrived(n, to) = {i \in 1..(k - 1) : s[i].source = n}
      BY <2>1, <2>4 DEF Arrived
    <3> QED BY <3>1, <3>2, <2>4, <2>8
  <2>9. k \notin Arrived(m.source, to) /\ Arrived(m.source, to)' = Arrived(m.source, to) \cup {k}
    <3>1. Arrived(m.source, to)' = {i \in 1..k : Append(s, m)[i].source = m.source}
      BY <2>3, <2>4 DEF Arrived
    <3>2. Arrived(m.source, to) = {i \in 1..(k - 1) : s[i].source = m.source}
      BY <2>1, <2>4 DEF Arrived
    <3>3. 1..k = (1..(k - 1)) \cup {k} /\ k \notin 1..(k - 1)
      BY <2>1, <2>2, <2>4, SequenceHas
    <3> QED BY <3>1, <3>2, <3>3, <2>4
  <2>10. ASSUME NEW n, NEW q, q # to \/ n # m.source \/ q \notin Queues PROVE Arrived(n, q)' = Arrived(n, q)
    <3>1. CASE q = to
      BY <3>1, <2>8, <2>10, <1>2
    <3>2. CASE q # to /\ q \in Queues
      BY <3>2, <2>3 DEF Arrived
    <3>3. CASE q # to /\ q \notin Queues
      <4>1. queues'[q] = queues[q]
        BY <3>3, <2>2
      <4> QED BY <4>1 DEF Arrived
    <3> QED BY <3>1, <3>2, <3>3
  <2> QED BY <2>1, <2>7, <2>9, <2>10
<1> QED BY <1>1, <1>2

-----------------------------------------------------------------------------
(* Every step keeps the invariant *)

\* Nothing is there of what is still to come.
LEMMA NothingYet ==
    ASSUME IInv, NEW n, n \notin 0..Len(sources), NEW q \in Queues
    PROVE  /\ Arrived(n, q) = {} /\ Calls(n, q) = {} /\ Outs(n, q) = {}
           /\ \A t \in DOMAIN tasks : CallsLeft(tasks[t], n, q) = {} /\ OutsLeft(tasks[t], n, q) = {}
<1>1. Len(sources) \in Nat /\ DOMAIN sources = 1..Len(sources)
  BY SequenceHas DEF IInv, StoresInv
<1>2. Arrived(n, q) = {}
  BY <1>1 DEF IInv, QueuesInv, QueueInv, Arrived
<1>3. ASSUME NEW t \in DOMAIN tasks PROVE CallsLeft(tasks[t], n, q) = {}
  <2>1. PICK r, len : r = tasks[t].rest /\ len = Len(r)
    OBVIOUS
  <2>2. len \in Nat /\ DOMAIN r = 1..len /\ \A i \in 1..len : r[i].source # n
    BY <2>1, <1>3, SequenceHas DEF IInv, TasksInv, TaskInv, CallInv
  <2>3. \A d \in 0..(len - 1) : len - d \in 1..len
    BY <2>2
  <2> QED BY <2>1, <2>2, <2>3 DEF CallsLeft
<1>4. ASSUME NEW t \in DOMAIN tasks PROVE OutsLeft(tasks[t], n, q) = {}
  <2>1. tasks[t].pub # n
    BY <1>1, <1>4 DEF IInv, TasksInv, TaskInv, PublishInv
  <2> QED BY <2>1 DEF OutsLeft
<1> QED BY <1>2, <1>3, <1>4 DEF Calls, Outs

LEMMA Spawns ==
    ASSUME IInv, UNCHANGED <<subs, queues, guard>>, IsSeq(configs)', SourcesGrow, SourcesStay, NoPublish,
           NEW new, IsSeq(new), tasks' = tasks \o new,
           \A i \in DOMAIN new : IsTask(new[i]) /\ ClientInv(new[i]) /\ new[i].out = <<>> /\ new[i].pub = 0 /\ IsSeq(new[i].rest),
           \A i \in DOMAIN new : \A j \in DOMAIN new[i].rest :
               CallInv(new[i].rest[j])' /\ new[i].rest[j].source \notin DOMAIN sources,
           \A n \in DOMAIN sources' \ DOMAIN sources, q \in Queues : Accounted(n, q)'
    PROVE  IInv'
<1>1. IsSeq(tasks)
  BY DEF IInv, TasksInv
<1>2. StoresInv'
  BY DEF IInv, StoresInv, SourcesGrow
<1>3. QueuesInv' /\ \A n, q : Arrived(n, q)' = Arrived(n, q)
  BY QueuesStay DEF IInv
<1>4. TasksInv'
  <2>1. /\ IsSeq(tasks') /\ \A t \in DOMAIN tasks : tasks'[t] = tasks[t]
        /\ \A t \in DOMAIN tasks' \ DOMAIN tasks : \E i \in DOMAIN new : tasks'[t] = new[i]
    BY <1>1, TasksSpawn
  <2>2. ASSUME NEW t \in DOMAIN tasks PROVE TaskInv(t)'
    BY <2>1, TaskStays DEF IInv, TasksInv
  <2>3. ASSUME NEW t \in DOMAIN tasks' \ DOMAIN tasks PROVE TaskInv(t)'
    <3>1. PICK i \in DOMAIN new : tasks'[t] = new[i]
      BY <2>1, <2>3
    <3>2. PICK task : task = new[i]
      OBVIOUS
    <3>3. IsTask(task) /\ ClientInv(task) /\ task.out = <<>> /\ task.pub = 0 /\ IsSeq(task.rest) /\ \A j \in DOMAIN task.rest : CallInv(task.rest[j])'
      BY <3>2
    <3> QED BY <3>1, <3>2, <3>3, EmptyIs DEF TaskInv, PublishInv
  <2> QED BY <2>1, <2>2, <2>3 DEF TasksInv
<1>5. ASSUME NEW n \in DOMAIN sources, NEW q \in Queues PROVE Accounted(n, q)'
  <2>1. \A i \in DOMAIN new : CallsLeft(new[i], n, q) = {}
    <3> TAKE i \in DOMAIN new
    <3>1. PICK r, len : r = new[i].rest /\ len = Len(r)
      OBVIOUS
    <3>2. len \in Nat /\ DOMAIN r = 1..len /\ \A j \in 1..len : r[j].source # n
      BY <3>1, SequenceHas
    <3>3. \A d \in 0..(len - 1) : len - d \in 1..len
      BY <3>2
    <3> QED BY <3>1, <3>2, <3>3 DEF CallsLeft
  <2>2. \A i \in DOMAIN new : OutsLeft(new[i], n, q) = {}
    <3> TAKE i \in DOMAIN new
    <3>1. Len(new[i].out) = 0
      BY EmptyIs
    <3>2. 0..(0 - 1) = {}
      OBVIOUS
    <3> QED BY <3>1, <3>2 DEF OutsLeft
  <2>3. Calls(n, q)' = Calls(n, q) /\ Outs(n, q)' = Outs(n, q)
    BY <1>1, <2>1, <2>2, TasksSpawn
  <2>4. Accounted(n, q) /\ sources'[n] = sources[n]
    BY DEF IInv, Accounts, SourcesStay
  <2> QED BY <2>3, <2>4, <1>3, AccountStays
<1>6. Accounts'
  BY <1>5 DEF Accounts
<1> QED BY <1>2, <1>3, <1>4, <1>6 DEF IInv

LEMMA AppendConcat ==
    ASSUME NEW s, IsSeq(s), NEW x
    PROVE  IsSeq(<<x>>) /\ Len(<<x>>) = 1 /\ DOMAIN <<x>> = {1} /\ <<x>>[1] = x /\ Append(s, x) = s \o <<x>>
<1> DEFINE S == {s[i] : i \in DOMAIN s} \cup {x}
<1>1. s \in Seq(S) /\ x \in S
  BY DEF IsSeq
<1> HIDE DEF S
<1>2. <<x>> \in Seq(S) /\ Len(<<x>>) = 1 /\ <<x>>[1] = x /\ DOMAIN <<x>> = {1}
  BY <1>1
<1>3. Append(s, x) = s \o <<x>>
  BY <1>1, <1>2
<1>4. IsSeq(<<x>>)
  BY <1>2, SequenceIs
<1> QED BY <1>2, <1>3, <1>4

\* A request to SNS
LEMMA RequestKeeps ==
    ASSUME IInv, NEW to \in Topics \cup {"sns"}, NEW a, tasks' = Append(tasks, Task(<<Call(to, 0)>>, a, TRUE)),
           UNCHANGED <<subs, configs, queues, guard, sources>>
    PROVE  IInv'
<1>1. PICK call, task : call = Call(to, 0) /\ task = Task(<<call>>, a, TRUE)
  OBVIOUS
<1>2. tasks' = Append(tasks, task) /\ UNCHANGED <<subs, configs, queues, guard, sources>>
  BY <1>1
<1>3. call.to = to /\ call.source = 0 /\ IsTask(task) /\ task.rest = <<call>> /\ task.out = <<>> /\ task.pub = 0
  BY <1>1 DEF Call, Task, IsTask
<1>4. IsSeq(tasks) /\ IsSeq(sources) /\ IsSeq(configs)
  BY DEF IInv, TasksInv, StoresInv
<1>5. PICK new : new = <<task>>
  OBVIOUS
<1>6. IsSeq(new) /\ DOMAIN new = {1} /\ new[1] = task /\ tasks' = tasks \o new
  BY <1>2, <1>4, <1>5, AppendConcat
<1>7. IsSeq(task.rest) /\ DOMAIN task.rest = {1} /\ task.rest[1] = call
  BY <1>3, <1>4, AppendConcat
<1>8. SourcesGrow /\ SourcesStay /\ NoPublish /\ DOMAIN sources' = DOMAIN sources
  BY <1>2, <1>4, SourcesSame
<1>9. CallInv(call)' /\ call.source \notin DOMAIN sources
  <2>1. Len(sources) \in Nat /\ DOMAIN sources = 1..Len(sources) /\ Len(sources') = Len(sources)
    BY <1>2, <1>4, SequenceHas
  <2> QED BY <2>1, <1>3 DEF CallInv
<1>10. \A i \in DOMAIN new : IsTask(new[i]) /\ ClientInv(new[i]) /\ new[i].out = <<>> /\ new[i].pub = 0 /\ IsSeq(new[i].rest)
  <2>1. ClientInv(task)
    BY <1>3, <1>7 DEF ClientInv
  <2> QED BY <2>1, <1>3, <1>6, <1>7
<1>11. \A i \in DOMAIN new : \A j \in DOMAIN new[i].rest :
          CallInv(new[i].rest[j])' /\ new[i].rest[j].source \notin DOMAIN sources
  <2>1. \A j \in DOMAIN task.rest : CallInv(task.rest[j])' /\ task.rest[j].source \notin DOMAIN sources
    BY <1>7, <1>9
  <2> QED BY <2>1, <1>6
<1>12. IsSeq(configs)'
  BY <1>2, <1>4
<1> QED BY <1>2, <1>6, <1>8, <1>10, <1>11, <1>12, Spawns

LEMMA PublishKeeps ==
    ASSUME IInv, NEW topic \in Topics, NEW a, Publish(topic, a)
    PROVE  IInv'
BY RequestKeeps DEF Publish, snsVars

LEMMA SnsRequestKeeps ==
    ASSUME IInv, SnsRequest
    PROVE  IInv'
BY RequestKeeps DEF SnsRequest, snsVars

LEMMA ObjectsChangedKeeps ==
    ASSUME IInv, NEW events \in ObjectEvents, ObjectsChanged(events)
    PROVE  IInv'
<1>1. PICK rest : rest = [i \in DOMAIN events |-> Notify(events[i])]
  OBVIOUS
<1>2. PICK task : task = Task(rest, NoAttributes, FALSE)
  OBVIOUS
<1>3. tasks' = Append(tasks, task) /\ UNCHANGED <<subs, configs, queues, guard, sources>>
  BY <1>1, <1>2 DEF ObjectsChanged, snsVars
<1>4. IsSeq(tasks) /\ IsSeq(sources) /\ IsSeq(configs)
  BY DEF IInv, TasksInv, StoresInv
<1>5. IsTask(task) /\ ClientInv(task) /\ task.rest = rest /\ task.out = <<>> /\ task.pub = 0
  BY <1>2 DEF Task, IsTask, ClientInv
<1>6. IsSeq(rest) /\ \A i \in DOMAIN rest : rest[i].to = "emit" /\ rest[i].source = 0
  <2>1. IsSeq(events)
    BY FanoutAssumption, SequenceIs
  <2>2. PICK k \in Nat : DOMAIN events = 1..k
    BY <2>1, SequenceHas
  <2>3. rest = [i \in 1..k |-> rest[i]]
    BY <2>2, <1>1
  <2> QED BY <2>2, <2>3, <1>1, FunctionIs DEF Notify
<1>7. PICK new : new = <<task>>
  OBVIOUS
<1>8. IsSeq(new) /\ DOMAIN new = {1} /\ new[1] = task /\ tasks' = tasks \o new
  BY <1>3, <1>4, <1>7, AppendConcat
<1>9. SourcesGrow /\ SourcesStay /\ NoPublish /\ DOMAIN sources' = DOMAIN sources
  BY <1>3, <1>4, SourcesSame
<1>10. \A i \in DOMAIN rest : CallInv(rest[i])' /\ rest[i].source \notin DOMAIN sources
  <2>1. Len(sources) \in Nat /\ DOMAIN sources = 1..Len(sources) /\ Len(sources') = Len(sources)
    BY <1>3, <1>4, SequenceHas
  <2> QED BY <2>1, <1>6 DEF CallInv
<1> QED BY <1>3, <1>4, <1>5, <1>6, <1>8, <1>9, <1>10, Spawns

OneCallEach(new, n) ==
    \A i \in DOMAIN new : Len(new[i].rest) = 1 /\ new[i].rest[1].source = n /\ Len(new[i].out) = 0

CallsTo(new, q) == {i \in DOMAIN new : new[i].rest[1].to = q}

NothingLeft(n, q) ==
    \A t \in DOMAIN tasks : CallsLeft(tasks[t], n, q) = {} /\ OutsLeft(tasks[t], n, q) = {}

\* What is left for a queue of tasks with one call each.
LEMMA CallsSpawned ==
    ASSUME IsSeq(tasks), NEW new, IsSeq(new), tasks' = tasks \o new, NEW n, NEW q,
           NothingLeft(n, q), OneCallEach(new, n), IsFiniteSet(CallsTo(new, q))
    PROVE  /\ Outs(n, q)' = {} /\ IsFiniteSet(Calls(n, q)')
           /\ Cardinality(Calls(n, q)') = Cardinality(CallsTo(new, q))
<1> USE DEF NothingLeft, OneCallEach, CallsTo
<1>1. PICK m : m = Len(tasks)
  OBVIOUS
<1>2. PICK I : I = CallsTo(new, q)
  OBVIOUS
<1>3. /\ m \in Nat /\ DOMAIN tasks = 1..m /\ DOMAIN new = 1..Len(new) /\ Len(new) \in Nat
      /\ DOMAIN tasks' = 1..(m + Len(new))
      /\ \A t \in DOMAIN tasks : tasks'[t] = tasks[t]
      /\ \A i \in DOMAIN new : tasks'[m + i] = new[i]
      /\ \A t \in DOMAIN tasks' \ DOMAIN tasks : t - m \in DOMAIN new /\ tasks'[t] = new[t - m]
  BY <1>1, TasksSpawn, SequenceHas
<1>4. \A i \in DOMAIN new : OutsLeft(new[i], n, q) = {}
  <2>1. 0..(0 - 1) = {}
    OBVIOUS
  <2> QED BY <2>1 DEF OutsLeft
<1>5. \A i \in DOMAIN new : CallsLeft(new[i], n, q) = IF i \in I THEN {0} ELSE {}
  <2>1. 0..(1 - 1) = {0} /\ 1 - 0 = 1
    OBVIOUS
  <2> QED BY <2>1, <1>2 DEF CallsLeft
<1>6. Outs(n, q)' = {}
  <2>1. \A t \in DOMAIN tasks' : OutsLeft(tasks'[t], n, q) = {}
    BY <1>3, <1>4
  <2> QED BY <2>1 DEF Outs
<1> PICK g : g = [i \in DOMAIN new |-> <<m + i, 0>>]
  OBVIOUS
<1>7. Calls(n, q)' = {g[i] : i \in I}
  <2>1. ASSUME NEW x \in Calls(n, q)' PROVE x \in {g[i] : i \in I}
    <3>1. x \in (DOMAIN tasks') \X Nat /\ x[2] \in CallsLeft(tasks'[x[1]], n, q)
      BY <2>1 DEF Calls
    <3>2. x[1] \in DOMAIN tasks' \ DOMAIN tasks
      BY <3>1, <1>3
    <3>3. PICK i : i = x[1] - m
      OBVIOUS
    <3>4. i \in DOMAIN new /\ x[2] \in CallsLeft(new[i], n, q)
      BY <3>1, <3>2, <3>3, <1>3
    <3>5. i \in I /\ x[2] = 0
      BY <3>4, <1>5
    <3>6. x = <<m + i, 0>>
      BY <3>1, <3>3, <3>5, <1>3
    <3> QED BY <3>4, <3>5, <3>6
  <2>2. ASSUME NEW i \in I PROVE g[i] \in Calls(n, q)'
    <3>1. i \in DOMAIN new /\ m + i \in DOMAIN tasks' /\ tasks'[m + i] = new[i] /\ 0 \in CallsLeft(new[i], n, q)
      BY <2>2, <1>2, <1>3, <1>5
    <3> QED BY <3>1 DEF Calls
  <2> QED BY <2>1, <2>2
<1>8. IsFiniteSet(I) /\ \A x, y \in I : g[x] = g[y] => x = y
  BY <1>2, <1>3
<1>9. IsFiniteSet({g[i] : i \in I}) /\ Cardinality({g[i] : i \in I}) = Cardinality(I)
  BY ONLY <1>8, SameNumber, Zenon
<1>10. IsFiniteSet(Calls(n, q)') /\ Cardinality(Calls(n, q)') = Cardinality(I)
  BY <1>7, <1>9
<1> QED BY <1>2, <1>6, <1>10

LEMMA PutEventsKeeps ==
    ASSUME IInv, NEW event, NEW bus, PutEvents(event, bus)
    PROVE  IInv'
<1>1. PICK S : S = DispatchTargets(event, bus)
  OBVIOUS
<1>2. PICK targets, dest, m : /\ targets = SetToSeq(S) /\ m = Len(sources) + 1
                              /\ dest = [x \in S |-> rules[x[1]].targets[x[2]]]
  OBVIOUS
<1>3. PICK new : new = [i \in DOMAIN targets |-> Task(<<Call(dest[targets[i]], m)>>, NoAttributes, FALSE)]
  OBVIOUS
<1>4. IsFiniteSet(S)
  <2>1. IsFiniteSet(RuleNames \X TargetIds)
    BY FanoutAssumption, FS_Product
  <2>2. S \in SUBSET (RuleNames \X TargetIds)
    BY <1>1 DEF DispatchTargets
  <2> QED BY <2>1, <2>2, FS_Subset
<1>5. targets \in SetToSeqs(S)
  BY <1>2, <1>4, EnumerationIs
<1>6. IsSeq(targets) /\ Len(targets) \in Nat /\ DOMAIN targets = 1..Len(targets) /\ ToSet(targets) = S
  BY <1>4, <1>5, Enumerates, SequenceHas
<1>7. \A i \in DOMAIN targets : targets[i] \in S
  BY <1>6 DEF ToSet
<1>8. UNCHANGED <<subs, configs, queues, guard>> /\ tasks' = tasks \o new
  BY <1>1, <1>2, <1>3, <1>7 DEF PutEvents, snsVars
<1>9. PICK source : /\ source.kind = "event" /\ sources' = Append(sources, source)
                    /\ \A q \in Queues : source.want[q] = Cardinality({x \in S : dest[x] = q})
  <2>1. sources' = Append(sources, Source("event", [q \in Queues |-> Cardinality({x \in S : rules[x[1]].targets[x[2]] = q})]))
    BY <1>1, <1>2, <1>6 DEF PutEvents, Wanted
  <2>2. \A q \in Queues : {x \in S : rules[x[1]].targets[x[2]] = q} = {x \in S : dest[x] = q}
    BY <1>2
  <2> QED BY <2>1, <2>2 DEF Source
<1>10. IsSeq(tasks) /\ IsSeq(sources) /\ IsSeq(configs)
  BY DEF IInv, TasksInv, StoresInv
<1>11. /\ SourcesGrow /\ SourcesStay /\ NoPublish /\ m \in Nat \ {0} /\ DOMAIN sources = 1..(m - 1) /\ Len(sources') = m
       /\ DOMAIN sources' = 1..m /\ sources'[m] = source
  BY <1>2, <1>9, <1>10, SourceAdded
<1>12. /\ DOMAIN new = DOMAIN targets /\ IsSeq(new)
       /\ \A i \in DOMAIN new : /\ IsTask(new[i]) /\ ClientInv(new[i]) /\ new[i].out = <<>> /\ new[i].pub = 0
                                /\ new[i].rest = <<Call(dest[targets[i]], m)>>
  <2>1. DOMAIN new = 1..Len(targets) /\ new = [i \in 1..Len(targets) |-> new[i]]
    BY <1>3, <1>6
  <2> QED BY <2>1, <1>3, <1>6, FunctionIs DEF Task, IsTask, ClientInv
<1>13. \A i \in DOMAIN new : /\ IsSeq(new[i].rest) /\ Len(new[i].rest) = 1 /\ DOMAIN new[i].rest = {1}
                             /\ new[i].rest[1].source = m /\ new[i].rest[1].to = dest[targets[i]]
                             /\ Len(new[i].out) = 0
  <2> TAKE i \in DOMAIN new
  <2>1. PICK call : call = Call(dest[targets[i]], m)
    OBVIOUS
  <2>2. call.source = m /\ call.to = dest[targets[i]]
    BY <2>1 DEF Call
  <2>3. IsSeq(<<call>>) /\ Len(<<call>>) = 1 /\ DOMAIN <<call>> = {1} /\ <<call>>[1] = call
    BY EmptyIs, AppendConcat
  <2> QED BY <2>1, <2>2, <2>3, <1>12, EmptyIs
<1>14. \A i \in DOMAIN new : \A j \in DOMAIN new[i].rest :
          CallInv(new[i].rest[j])' /\ new[i].rest[j].source \notin DOMAIN sources
  <2>1. ASSUME NEW call, call.source = m PROVE CallInv(call)' /\ call.source \notin DOMAIN sources
    BY <2>1, <1>9, <1>11 DEF CallInv, IsPublish
  <2> QED BY <2>1, <1>13
<1>15. ASSUME NEW q \in Queues PROVE Accounted(m, q)'
  <2>1. /\ Arrived(m, q) = {} 
        /\ \A t \in DOMAIN tasks : CallsLeft(tasks[t], m, q) = {} /\ OutsLeft(tasks[t], m, q) = {}
    <3>1. m \notin 0..Len(sources)
      BY <1>2, <1>11
    <3> QED BY <3>1, NothingYet
  <2>2. PICK T : T = {x \in S : dest[x] = q}
    OBVIOUS
  <2>3. PICK I : I = {i \in DOMAIN new : new[i].rest[1].to = q}
    OBVIOUS
  <2>4. I = {i \in DOMAIN targets : targets[i] \in T}
    BY <2>2, <2>3, <1>7, <1>12, <1>13
  <2>5. IsFiniteSet(I) /\ Cardinality(I) = Cardinality(T)
    <3>1. T \in SUBSET S
      BY <2>2
    <3> QED BY <3>1, <2>4, <1>4, <1>5, Enumerates
  <2>6. /\ Outs(m, q)' = {} /\ IsFiniteSet(Calls(m, q)') /\ Cardinality(Calls(m, q)') = Cardinality(I)
    <3>1. OneCallEach(new, m)
      BY <1>13 DEF OneCallEach
    <3>2. NothingLeft(m, q)
      BY <2>1 DEF NothingLeft
    <3>3. IsFiniteSet(CallsTo(new, q)) /\ I = CallsTo(new, q)
      BY <2>3, <2>5 DEF CallsTo
    <3>4. /\ Outs(m, q)' = {} /\ IsFiniteSet(Calls(m, q)')
          /\ Cardinality(Calls(m, q)') = Cardinality(CallsTo(new, q))
      BY <3>1, <3>2, <3>3, <1>8, <1>10, <1>12, CallsSpawned
    <3> QED BY <3>3, <3>4
  <2>7. Arrived(m, q)' = {}
    BY <2>1, <1>8 DEF Arrived
  <2>8. IsFiniteSet({}) /\ Cardinality({}) = 0 /\ Cardinality(I) \in Nat
    BY <2>5, FS_EmptySet, FS_CardinalityType
  <2>9. sources'[m].want[q] = Cardinality(I)
    BY <2>2, <2>5, <1>9, <1>11
  <2> QED BY <2>6, <2>7, <2>8, <2>9 DEF Accounted, AddsUp
<1>16. \A n \in DOMAIN sources' \ DOMAIN sources, q \in Queues : Accounted(n, q)'
  <2>1. \A n \in DOMAIN sources' \ DOMAIN sources : n = m
    BY <1>11
  <2> QED BY <2>1, <1>15
<1>17. IsSeq(configs)'
  BY <1>8, <1>10
<1> QED BY <1>8, <1>11, <1>12, <1>13, <1>14, <1>16, <1>17, Spawns

\* Who does not hold the guard does not publish.
LEMMA WithoutGuard ==
    ASSUME IInv, NEW t \in DOMAIN tasks
    PROVE  t # 0 /\ (guard # t => tasks[t].out = <<>>)
<1>1. t \in 1..Len(tasks)
  BY SequenceHas DEF IInv, TasksInv
<1>2. t # 0
  BY <1>1
<1> QED BY <1>2 DEF IInv, TasksInv, TaskInv, PublishInv

\* Stores change, but for subscriptions.
LEMMA TasksRest ==
    ASSUME IInv, UNCHANGED <<queues, tasks, guard, sources>>, StoresInv', subs' = subs
    PROVE  IInv'
<1>1. SourcesGrow /\ NoPublish /\ IsSeq(tasks)
  BY SourcesSame DEF IInv, StoresInv, TasksInv
<1>2. QueuesInv' /\ \A n, q : Arrived(n, q)' = Arrived(n, q)
  BY <1>1, QueuesStay DEF IInv
<1>3. ASSUME NEW t \in DOMAIN tasks PROVE TaskInv(t)'
  <2>1. TaskInv(t)
    BY DEF IInv, TasksInv
  <2> QED BY <2>1, <1>1, TaskStays
<1>4. TasksInv'
  BY <1>1, <1>3 DEF TasksInv
<1>5. ASSUME NEW n \in DOMAIN sources, NEW q \in Queues PROVE Accounted(n, q)'
  <2>1. Calls(n, q)' = Calls(n, q) /\ Outs(n, q)' = Outs(n, q) /\ Accounted(n, q)
    BY DEF Calls, Outs, IInv, Accounts
  <2> QED BY <2>1, <1>2, AccountStays
<1> QED BY <1>2, <1>4, <1>5 DEF IInv, Accounts

LEMMA SubscriptionsStayFinite ==
    ASSUME IsFiniteSet(subs), SnsChange
    PROVE  IsFiniteSet(subs)'
<1>1. \A S \in SUBSET subs : IsFiniteSet(S)
  BY FS_Subset
<1>2. ASSUME NEW t, CreateTopic(t) \/ DeleteTopic(t) PROVE IsFiniteSet(subs)'
  <2>1. subs' \in SUBSET subs
    BY <1>2 DEF CreateTopic, DeleteTopic
  <2> QED BY <2>1, <1>1
<1>3. ASSUME NEW t, NEW p, NEW e, Subscribe(t, p, e) PROVE IsFiniteSet(subs)'
  BY <1>3, FS_AddElement DEF Subscribe
<1>4. ASSUME NEW id, Unsubscribe(id) PROVE IsFiniteSet(subs)'
  <2>1. subs' \in SUBSET subs
    BY <1>4 DEF Unsubscribe
  <2> QED BY <2>1, <1>1
<1>5. ASSUME NEW f, subs' = {f[s] : s \in subs} PROVE IsFiniteSet(subs)'
  <2>1. PICK T : T = {f[s] : s \in subs}
    OBVIOUS
  <2>2. [s \in subs |-> f[s]] \in Surjection(subs, T)
    BY <2>1 DEF Surjection
  <2>3. IsFiniteSet(T)
    BY <2>2, FS_Surjection
  <2> QED BY <2>1, <2>3, <1>5
<1>6. ASSUME NEW id, NEW raw, SetRawMessageDelivery(id, raw) PROVE IsFiniteSet(subs)'
  <2>1. PICK f : f = [s \in subs |-> IF s.id = id THEN [s EXCEPT !.raw = raw] ELSE s]
    OBVIOUS
  <2>2. subs' = {f[s] : s \in subs}
    BY <2>1, <1>6 DEF SetRawMessageDelivery, SetSubscription
  <2> QED BY <2>2, <1>5
<1>7. ASSUME NEW id, NEW policy, SetFilterPolicy(id, policy) PROVE IsFiniteSet(subs)'
  <2>1. PICK f : f = [s \in subs |-> IF s.id = id THEN [s EXCEPT !.filter = policy] ELSE s]
    OBVIOUS
  <2>2. subs' = {f[s] : s \in subs}
    BY <2>1, <1>7 DEF SetFilterPolicy, SetSubscription
  <2> QED BY <2>2, <1>5
<1> QED BY <1>2, <1>3, <1>4, <1>6, <1>7 DEF SnsChange

LEMMA ChangeKeeps ==
    ASSUME IInv, Change
    PROVE  IInv'
<1>1. UNCHANGED <<queues, tasks, guard, sources>>
  BY DEF Change
<1>2. IsFiniteSet(subs) /\ IsSeq(configs) /\ IsSeq(sources)
  BY DEF IInv, StoresInv
<1>3. CASE UNCHANGED <<subs, configs>>
  <2>1. StoresInv'
    BY <1>1, <1>2, <1>3 DEF StoresInv
  <2> QED BY <2>1, <1>1, <1>3, TasksRest
<1>4. CASE subs' = subs /\ \E new \in Configs : configs' = new
  <2>1. IsSeq(configs')
    BY <1>4, FanoutAssumption, SequenceIs
  <2>2. StoresInv'
    BY <2>1, <1>1, <1>2, <1>4 DEF StoresInv
  <2> QED BY <2>2, <1>1, <1>4, TasksRest
<1> QED BY <1>3, <1>4 DEF Change, snsVars, PutBucketNotification

\* A task goes on, and no other task is in its way.
LEMMA TaskGoes ==
    ASSUME IInv, NEW t \in DOMAIN tasks, NEW u, GoesOn(t, u),
           SourcesGrow, configs' = configs, subs' = subs \/ IsFiniteSet(subs'),
           (NoPublish /\ guard' = guard /\ subs' = subs) \/ guard \in {0, t},
           TaskInv(t)', QueuesInv', \A n \in DOMAIN sources', q \in Queues : Accounted(n, q)'
    PROVE  IInv'
<1>1. IsSeq(tasks)
  BY DEF IInv, TasksInv
<1>2. StoresInv'
  BY DEF IInv, StoresInv, SourcesGrow
<1>3. IsSeq(tasks') /\ DOMAIN tasks' = DOMAIN tasks /\ \A s \in DOMAIN tasks : s # t => tasks'[s] = tasks[s]
  BY <1>1, TaskChanges
<1>4. ASSUME NEW s \in DOMAIN tasks, s # t PROVE TaskInv(s)'
  <2>1. TaskInv(s) /\ tasks'[s] = tasks[s] /\ (guard # s => tasks[s].out = <<>>) /\ s # 0
    BY <1>3, <1>4, WithoutGuard DEF IInv, TasksInv
  <2> QED BY <2>1, <1>4, TaskStays
<1>5. TasksInv'
  BY <1>3, <1>4 DEF TasksInv
<1> QED BY <1>2, <1>5 DEF IInv, Accounts

LEMMA NothingGoes ==
    ASSUME IInv, UNCHANGED <<subs, configs, queues, tasks, guard, sources>>
    PROVE  IInv'
<1>1. StoresInv'
  BY DEF IInv, StoresInv
<1> QED BY <1>1, TasksRest

LEMMA YieldKeeps ==
    ASSUME IInv, NEW t \in DOMAIN tasks, Yield(t)
    PROVE  IInv'
<1>1. PICK task, u : task = tasks[t] /\ u = [task EXCEPT !.waits = TRUE]
  OBVIOUS
<1>2. GoesOn(t, u) /\ UNCHANGED <<subs, configs, queues, guard, sources>>
  BY <1>1 DEF Yield, snsVars, GoesOn
<1>3. TaskInv(t) /\ IsTask(task) /\ IsSeq(tasks) /\ IsSeq(sources)
  BY <1>1 DEF IInv, TasksInv, TaskInv, StoresInv
<1>4. /\ IsTask(u) /\ u.rest = task.rest /\ u.out = task.out /\ u.pub = task.pub /\ u.attributes = task.attributes
      /\ u.client = task.client
  BY <1>1, <1>3 DEF IsTask
<1>5. SourcesGrow /\ NoPublish
  BY <1>2, <1>3, SourcesSame
<1>6. tasks'[t] = u
  BY <1>2, <1>3, TaskChanges
<1>7. TaskInv(t)'
  <2>1. /\ ClientInv(u) /\ IsSeq(u.rest) /\ IsSeq(u.out) /\ \A i \in DOMAIN u.rest : CallInv(u.rest[i])'
    BY <1>1, <1>3, <1>4, <1>5, CallStays DEF TaskInv, ClientInv
  <2>2. PublishInv(t)'
    BY <1>1, <1>2, <1>3, <1>4, <1>6 DEF TaskInv, PublishInv, IsPublish
  <2> QED BY <2>1, <2>2, <1>4, <1>6 DEF TaskInv
<1>8. QueuesInv' /\ \A n, q : Arrived(n, q)' = Arrived(n, q)
  BY <1>2, <1>5, QueuesStay DEF IInv
<1>9. ASSUME NEW n \in DOMAIN sources, NEW q \in Queues PROVE Accounted(n, q)'
  <2>1. CallsLeft(u, n, q) = CallsLeft(task, n, q) /\ OutsLeft(u, n, q) = OutsLeft(task, n, q)
    BY <1>4 DEF CallsLeft, OutsLeft
  <2>2. Calls(n, q)' = Calls(n, q) /\ Outs(n, q)' = Outs(n, q)
    BY <2>1, <1>1, <1>2, CallsStay, OutsStay
  <2>3. Accounted(n, q) /\ sources'[n] = sources[n]
    BY <1>2 DEF IInv, Accounts
  <2> QED BY <2>2, <2>3, <1>8, AccountStays
<1>10. \A n \in DOMAIN sources', q \in Queues : Accounted(n, q)'
  BY <1>2, <1>9
<1> QED BY <1>2, <1>5, <1>7, <1>8, <1>10, TaskGoes

\* The calls after the next one are as the calls were.
LEMMA RestOfCalls ==
    ASSUME SourcesGrow, NEW r, IsSeq(r), r # <<>>, \A i \in DOMAIN r : CallInv(r[i])
    PROVE  IsSeq(Tail(r)) /\ \A i \in DOMAIN Tail(r) : CallInv(Tail(r)[i])'
<1>1. PICK s, k : s = Tail(r) /\ k = Len(r)
  OBVIOUS
<1>2. /\ IsSeq(s) /\ k \in Nat \ {0} /\ DOMAIN s = 1..(k - 1) /\ DOMAIN r = 1..k
      /\ \A i \in 1..(k - 1) : s[i] = r[i + 1]
  BY <1>1, TailIs
<1>3. ASSUME NEW i \in DOMAIN s PROVE CallInv(s[i])'
  <2>1. PICK call : call = s[i]
    OBVIOUS
  <2>2. i + 1 \in DOMAIN r /\ call = r[i + 1]
    BY <2>1, <1>2
  <2>3. CallInv(call)
    BY <2>2
  <2> QED BY <2>1, <2>3, CallStays
<1> QED BY <1>1, <1>2, <1>3

LEMMA RestOfRequest ==
    ASSUME NEW task, NEW u, IsSeq(task.rest), task.rest # <<>>, ClientInv(task),
           u.rest = Tail(task.rest), u.client = task.client
    PROVE  ClientInv(u)
<1>1. PICK r, s, k : r = task.rest /\ s = Tail(r) /\ k = Len(r)
  OBVIOUS
<1>2. k \in Nat \ {0} /\ DOMAIN s = 1..(k - 1) /\ DOMAIN r = 1..k /\ \A i \in 1..(k - 1) : s[i] = r[i + 1]
  BY <1>1, TailIs
<1>3. \A i \in 1..(k - 1) : i + 1 \in 1..k
  BY <1>2
<1> QED BY <1>1, <1>2, <1>3 DEF ClientInv

\* What a task that is at a call and does not publish is like.
LEMMA AtCall ==
    ASSUME IInv, NEW t \in DOMAIN tasks, tasks[t].rest # <<>>,
           tasks[t].out = <<>> \/ Head(tasks[t].rest).to \notin Topics
    PROVE  /\ IsTask(tasks[t]) /\ ClientInv(tasks[t]) /\ tasks[t].out = <<>> /\ tasks[t].pub = 0
           /\ IsSeq(tasks[t].rest) /\ \A i \in DOMAIN tasks[t].rest : CallInv(tasks[t].rest[i])
           /\ CallInv(Head(tasks[t].rest))
<1>1. TaskInv(t)
  BY DEF IInv, TasksInv
<1>2. 1 \in DOMAIN tasks[t].rest /\ Head(tasks[t].rest) = tasks[t].rest[1]
  BY <1>1, TailIs DEF TaskInv
<1> QED BY <1>1, <1>2 DEF TaskInv, PublishInv

\* A task that does not publish before or after a step.
LEMMA TaskIsQuiet ==
    ASSUME NEW t, NEW u, tasks'[t] = u, IsTask(u), ClientInv(u), u.out = <<>>, u.pub = 0, IsSeq(u.rest),
           \A i \in DOMAIN u.rest : CallInv(u.rest[i])'
    PROVE  TaskInv(t)'
BY EmptyIs DEF TaskInv, PublishInv

LEMMA SendDirectKeeps ==
    ASSUME IInv, NEW t \in DOMAIN tasks, SendDirect(t)
    PROVE  IInv'
<1>1. PICK task, call, m : task = tasks[t] /\ call = Head(task.rest) /\ m = [source |-> call.source, raw |-> TRUE]
  OBVIOUS
<1>2. PICK u : u = [[task EXCEPT !.rest = Tail(@)] EXCEPT !.waits = FALSE]
  OBVIOUS
<1>3. /\ GoesOn(t, u) /\ queues' = Sent(call.to, m) /\ UNCHANGED <<subs, configs, guard, sources>>
      /\ call.to \notin Topics \cup {"emit", "sns"} /\ task.rest # <<>> /\ task.out = <<>>
  BY <1>1, <1>2 DEF SendDirect, Advance, OnWorker, snsVars, GoesOn
<1>4. /\ IsTask(task) /\ ClientInv(task) /\ task.out = <<>> /\ task.pub = 0 /\ IsSeq(task.rest)
      /\ (\A i \in DOMAIN task.rest : CallInv(task.rest[i])) /\ CallInv(call)
      /\ IsSeq(tasks) /\ IsSeq(sources) /\ QueuesInv
  BY <1>1, <1>3, AtCall DEF IInv, TasksInv, StoresInv
<1>5. /\ IsTask(u) /\ u.rest = Tail(task.rest) /\ u.out = task.out /\ u.pub = task.pub /\ u.attributes = task.attributes
      /\ u.client = task.client
  BY <1>2, <1>4 DEF IsTask
<1>6. SourcesGrow /\ NoPublish
  BY <1>3, <1>4, SourcesSame
<1>7. m.source = call.source /\ call.source \in DOMAIN sources /\ ~IsPublish(call.source)
  <2>1. DOMAIN sources = 1..Len(sources) /\ Len(sources) \in Nat
    BY <1>4, SequenceHas
  <2> QED BY <2>1, <1>1, <1>3, <1>4 DEF CallInv
<1>8. tasks'[t] = u
  BY <1>3, <1>4, TaskChanges
<1>9. TaskInv(t)'
  <2>1. IsSeq(u.rest) /\ \A i \in DOMAIN u.rest : CallInv(u.rest[i])'
    BY <1>3, <1>4, <1>5, <1>6, RestOfCalls
  <2>2. ClientInv(u)
    BY <1>3, <1>4, <1>5, RestOfRequest
  <2> QED BY <2>1, <2>2, <1>4, <1>5, <1>8, TaskIsQuiet
<1>10. /\ QueuesInv'
       /\ \A n, q : q # call.to \/ n # call.source \/ q \notin Queues => Arrived(n, q)' = Arrived(n, q)
       /\ call.to \in Queues => \E i : /\ i \notin Arrived(call.source, call.to)
                                       /\ Arrived(call.source, call.to)' = Arrived(call.source, call.to) \cup {i}
  <2>1. m.source \in DOMAIN sources /\ ~IsPublish(m.source)
    BY <1>7
  <2>2. /\ QueuesInv'
        /\ \A n, q : q # call.to \/ n # m.source \/ q \notin Queues => Arrived(n, q)' = Arrived(n, q)
        /\ call.to \in Queues => \E i : /\ i \notin Arrived(m.source, call.to)
                                        /\ Arrived(m.source, call.to)' = Arrived(m.source, call.to) \cup {i}
    BY <2>1, <1>3, <1>4, MessageSent
  <2> QED BY <2>2, <1>7
<1>11. ASSUME NEW n \in DOMAIN sources, NEW q \in Queues PROVE Accounted(n, q)'
  <2>1. OutsLeft(u, n, q) = OutsLeft(task, n, q)
    BY <1>5 DEF OutsLeft
  <2>2. Outs(n, q)' = Outs(n, q)
    BY <2>1, <1>1, <1>3, OutsStay
  <2>3. Accounted(n, q) /\ sources'[n] = sources[n]
    BY <1>3 DEF IInv, Accounts
  <2>4. CASE call.source = n /\ call.to = q
    <3>1. PICK i : i \notin Arrived(n, q) /\ Arrived(n, q)' = Arrived(n, q) \cup {i}
      BY <2>4, <1>10
    <3>2. CallIsLess(n, q)
      BY <2>4, <1>1, <1>3, <1>4, <1>5, CallGoes
    <3> QED BY <3>1, <3>2, <2>2, <2>3, AccountMoves
  <2>5. CASE ~(call.source = n /\ call.to = q)
    <3>1. Arrived(n, q)' = Arrived(n, q)
      BY <2>5, <1>10
    <3>2. Calls(n, q)' = Calls(n, q)
      BY <2>5, <1>1, <1>3, <1>4, <1>5, CallGoes
    <3> QED BY <3>1, <3>2, <2>2, <2>3, AccountStays
  <2> QED BY <2>4, <2>5
<1>12. \A n \in DOMAIN sources', q \in Queues : Accounted(n, q)'
  BY <1>3, <1>11
<1> QED BY <1>3, <1>6, <1>9, <1>10, <1>12, TaskGoes

\* What is left of something new is left of one task.
LEMMA CallsNamed ==
    ASSUME NEW t \in DOMAIN tasks, NEW u, GoesOn(t, u), NEW n, NEW q, NothingLeft(n, q), IsFiniteSet(CallsLeft(u, n, q))
    PROVE  IsFiniteSet(Calls(n, q)') /\ Cardinality(Calls(n, q)') = Cardinality(CallsLeft(u, n, q))
<1>1. /\ DOMAIN tasks' = DOMAIN tasks /\ tasks'[t] = u
      /\ \A s \in DOMAIN tasks : s # t => tasks'[s] = tasks[s]
  BY DEF GoesOn
<1>2. PICK D : D = CallsLeft(u, n, q)
  OBVIOUS
<1>3. \A d \in D : d \in Nat
  BY <1>2 DEF CallsLeft
<1>4. PICK g : g = [d \in D |-> <<t, d>>]
  OBVIOUS
<1>5. Calls(n, q)' = {g[d] : d \in D}
  <2>1. ASSUME NEW x \in Calls(n, q)' PROVE x \in {g[d] : d \in D}
    <3>1. x \in (DOMAIN tasks') \X Nat /\ x[2] \in CallsLeft(tasks'[x[1]], n, q)
      BY <2>1 DEF Calls
    <3>2. x[1] = t
      BY <3>1, <1>1 DEF NothingLeft
    <3>3. x[2] \in D /\ x = <<t, x[2]>>
      BY <3>1, <3>2, <1>1, <1>2
    <3> QED BY <3>3, <1>4
  <2>2. ASSUME NEW d \in D PROVE g[d] \in Calls(n, q)'
    BY <2>2, <1>1, <1>2, <1>3, <1>4 DEF Calls
  <2> QED BY <2>1, <2>2
<1>6. \A x, y \in D : g[x] = g[y] => x = y
  BY <1>4
<1>7. IsFiniteSet(D)
  BY <1>2
<1>8. IsFiniteSet({g[d] : d \in D}) /\ Cardinality({g[d] : d \in D}) = Cardinality(D)
  BY ONLY <1>6, <1>7, SameNumber, Zenon
<1> QED BY <1>2, <1>5, <1>8

LEMMA OutsNamed ==
    ASSUME NEW t \in DOMAIN tasks, NEW u, GoesOn(t, u), NEW n, NEW q, NothingLeft(n, q), IsFiniteSet(OutsLeft(u, n, q))
    PROVE  IsFiniteSet(Outs(n, q)') /\ Cardinality(Outs(n, q)') = Cardinality(OutsLeft(u, n, q))
<1>1. /\ DOMAIN tasks' = DOMAIN tasks /\ tasks'[t] = u
      /\ \A s \in DOMAIN tasks : s # t => tasks'[s] = tasks[s]
  BY DEF GoesOn
<1>2. PICK D : D = OutsLeft(u, n, q)
  OBVIOUS
<1>3. \A d \in D : d \in Nat
  BY <1>2 DEF OutsLeft
<1>4. PICK g : g = [d \in D |-> <<t, d>>]
  OBVIOUS
<1>5. Outs(n, q)' = {g[d] : d \in D}
  <2>1. ASSUME NEW x \in Outs(n, q)' PROVE x \in {g[d] : d \in D}
    <3>1. x \in (DOMAIN tasks') \X Nat /\ x[2] \in OutsLeft(tasks'[x[1]], n, q)
      BY <2>1 DEF Outs
    <3>2. x[1] = t
      BY <3>1, <1>1 DEF NothingLeft
    <3>3. x[2] \in D /\ x = <<t, x[2]>>
      BY <3>1, <3>2, <1>1, <1>2
    <3> QED BY <3>3, <1>4
  <2>2. ASSUME NEW d \in D PROVE g[d] \in Outs(n, q)'
    BY <2>2, <1>1, <1>2, <1>3, <1>4 DEF Outs
  <2> QED BY <2>1, <2>2
<1>6. \A x, y \in D : g[x] = g[y] => x = y
  BY <1>4
<1>7. IsFiniteSet(D)
  BY <1>2
<1>8. IsFiniteSet({g[d] : d \in D}) /\ Cardinality({g[d] : d \in D}) = Cardinality(D)
  BY ONLY <1>6, <1>7, SameNumber, Zenon
<1> QED BY <1>2, <1>5, <1>8

\* Counted from the end or from the beginning, it is as many.
LEMMA FromTheEnd ==
    ASSUME NEW L \in Int, NEW I, IsFiniteSet(I), \A i \in I : i \in Int
    PROVE  IsFiniteSet({L - i : i \in I}) /\ Cardinality({L - i : i \in I}) = Cardinality(I)
<1>1. PICK g : g = [i \in I |-> L - i]
  OBVIOUS
<1>2. \A x, y \in I : g[x] = g[y] => x = y
  BY <1>1
<1>3. IsFiniteSet({g[i] : i \in I}) /\ Cardinality({g[i] : i \in I}) = Cardinality(I)
  BY ONLY <1>2, IsFiniteSet(I), SameNumber, Zenon
<1>4. {g[i] : i \in I} = {L - i : i \in I}
  BY <1>1
<1> QED BY <1>3, <1>4

\* A call that goes to no queue may be made, and nothing is left out.
LEMMA CallToNoQueue ==
    ASSUME NEW t \in DOMAIN tasks, NEW u, GoesOn(t, u), NEW n, NEW q,
           IsSeq(tasks[t].rest), tasks[t].rest # <<>>, Head(tasks[t].rest).to # q,
           u.rest = Tail(tasks[t].rest)
    PROVE  Calls(n, q)' = Calls(n, q)
BY CallGoes

\* A publish to a topic without subscriptions, or another operation of SNS.
LEMMA NothingToCollect ==
    ASSUME IInv, NEW t \in DOMAIN tasks, NEW u, GoesOn(t, u), UNCHANGED <<configs, queues, guard, sources>>,
           subs' = subs \/ (guard = 0 /\ IsFiniteSet(subs')),
           tasks[t].rest # <<>>, tasks[t].out = <<>>, Head(tasks[t].rest).to \in Topics \cup {"sns"},
           IsTask(u), u.rest = Tail(tasks[t].rest), u.out = <<>>, u.pub = 0, u.client = tasks[t].client
    PROVE  IInv'
<1>1. PICK task : task = tasks[t]
  OBVIOUS
<1>2. /\ IsTask(task) /\ ClientInv(task) /\ task.out = <<>> /\ task.pub = 0 /\ IsSeq(task.rest)
      /\ \A i \in DOMAIN task.rest : CallInv(task.rest[i])
      /\ IsSeq(tasks) /\ IsSeq(sources)
  BY <1>1, AtCall DEF IInv, TasksInv, StoresInv
<1>3. u.rest = Tail(task.rest)
  BY <1>1
<1>4. SourcesGrow /\ NoPublish /\ tasks'[t] = u
  BY <1>2, SourcesSame, TaskChanges
<1>5. TaskInv(t)'
  <2>1. IsSeq(u.rest) /\ \A i \in DOMAIN u.rest : CallInv(u.rest[i])'
    BY <1>1, <1>2, <1>3, <1>4, RestOfCalls
  <2>2. ClientInv(u)
    BY <1>1, <1>2, RestOfRequest
  <2> QED BY <2>1, <2>2, <1>3, <1>4, TaskIsQuiet
<1>6. QueuesInv' /\ \A n, q : Arrived(n, q)' = Arrived(n, q)
  BY <1>4, QueuesStay DEF IInv
<1>7. ASSUME NEW n \in DOMAIN sources, NEW q \in Queues PROVE Accounted(n, q)'
  <2>1. Head(task.rest).to # q
    BY <1>1, FanoutAssumption
  <2>2. Calls(n, q)' = Calls(n, q)
    BY <2>1, <1>1, <1>2, <1>3, CallToNoQueue
  <2>3. OutsLeft(u, n, q) = OutsLeft(task, n, q)
    <3>1. Len(<<>>) = 0 /\ 0..(0 - 1) = {}
      BY EmptyIs
    <3> QED BY <3>1, <1>2, <1>3 DEF OutsLeft
  <2>4. Outs(n, q)' = Outs(n, q)
    BY <2>3, <1>1, OutsStay
  <2>5. Accounted(n, q) /\ sources'[n] = sources[n]
    BY DEF IInv, Accounts
  <2> QED BY <2>2, <2>4, <2>5, <1>6, AccountStays
<1>8. \A n \in DOMAIN sources', q \in Queues : Accounted(n, q)'
  BY <1>7
<1> QED BY <1>4, <1>5, <1>6, <1>8, TaskGoes

LEMMA ConfigureKeeps ==
    ASSUME IInv, NEW t \in DOMAIN tasks, Configure(t)
    PROVE  IInv'
<1>1. PICK task, u : task = tasks[t] /\ u = [[task EXCEPT !.rest = Tail(@)] EXCEPT !.waits = FALSE]
  OBVIOUS
<1>2. /\ task.rest # <<>> /\ task.out = <<>> /\ Head(task.rest).to = "sns" /\ guard = 0
      /\ UNCHANGED <<configs, queues, guard, sources>> /\ GoesOn(t, u)
  BY <1>1 DEF Configure, OnWorker, Advance, GoesOn
<1>3. subs' = subs \/ IsFiniteSet(subs')
  <2>1. IsFiniteSet(subs)
    BY DEF IInv, StoresInv
  <2> QED BY <2>1, SubscriptionsStayFinite DEF Configure, snsVars
<1>4. IsTask(task) /\ task.pub = 0
  BY <1>1, <1>2, AtCall
<1>5. IsTask(u) /\ u.rest = Tail(task.rest) /\ u.out = <<>> /\ u.pub = 0 /\ u.client = task.client
  BY <1>1, <1>2, <1>4 DEF IsTask
<1> QED BY <1>1, <1>2, <1>3, <1>5, NothingToCollect

Passing(all, attributes, q) == {s \in all : Passes(s, attributes) /\ s.endpoint = q}

\* The subscriptions that are collected are as many as those wanted to pass the message on.
LEMMA OutsCollected ==
    ASSUME NEW all, IsFiniteSet(all), NEW order \in SetToSeqs(all), NEW q,
           NEW u, u.out = order
    PROVE  /\ IsFiniteSet(OutsLeft(u, u.pub, q))
           /\ Cardinality(OutsLeft(u, u.pub, q)) = Cardinality(Passing(all, u.attributes, q))
<1> PICK T : T = Passing(all, u.attributes, q)
  OBVIOUS
<1>1. PICK len, a : len = Len(order) /\ a = u.attributes
  OBVIOUS
<1>2. PICK I : I = {i \in DOMAIN order : order[i] \in T}
  OBVIOUS
<1>3. IsSeq(order) /\ ToSet(order) = all /\ IsFiniteSet(I) /\ Cardinality(I) = Cardinality(T)
  <2>1. T \in SUBSET all
    BY DEF Passing
  <2> QED BY <2>1, <1>2, Enumerates
<1>4. len \in Nat /\ DOMAIN order = 1..len
  BY <1>1, <1>3, SequenceHas
<1>5. I = {i \in 1..len : Passes(order[i], a) /\ order[i].endpoint = q}
  BY <1>1, <1>2, <1>3, <1>4 DEF ToSet, Passing
<1>6. OutsLeft(u, u.pub, q) = {d \in 0..(len - 1) : Passes(order[len - d], a) /\ order[len - d].endpoint = q}
  BY <1>1 DEF OutsLeft
<1>7. OutsLeft(u, u.pub, q) = {len - i : i \in I}
  <2>1. ASSUME NEW d \in 0..(len - 1), Passes(order[len - d], a), order[len - d].endpoint = q
        PROVE  d \in {len - i : i \in I}
    <3>1. len - d \in I /\ d = len - (len - d)
      BY <2>1, <1>4, <1>5
    <3> QED BY <3>1
  <2>2. ASSUME NEW i \in I
        PROVE  len - i \in {d \in 0..(len - 1) : Passes(order[len - d], a) /\ order[len - d].endpoint = q}
    <3>1. i \in 1..len /\ Passes(order[i], a) /\ order[i].endpoint = q
      BY <2>2, <1>5
    <3>2. len - i \in 0..(len - 1) /\ len - (len - i) = i
      BY <3>1, <1>4
    <3> QED BY <3>1, <3>2
  <2> QED BY <2>1, <2>2, <1>6
<1>8. IsFiniteSet({len - i : i \in I}) /\ Cardinality({len - i : i \in I}) = Cardinality(I)
  <2>1. len \in Int /\ \A i \in I : i \in Int
    BY <1>4, <1>5
  <2> QED BY ONLY <2>1, <1>3, FromTheEnd
<1> QED BY <1>3, <1>7, <1>8

LEMMA SubscriptionsCollected ==
    ASSUME IInv, NEW t \in DOMAIN tasks, NEW u, GoesOn(t, u), UNCHANGED <<subs, configs, queues>>, guard = 0, guard' = t,
           tasks[t].rest # <<>>, tasks[t].out = <<>>, Head(tasks[t].rest).to \in Topics,
           NEW all, all \subseteq subs, all # {}, NEW order \in SetToSeqs(all),
           IsTask(u), u.rest = tasks[t].rest, u.out = order, u.pub = Len(sources) + 1, u.client = tasks[t].client,
           NEW source, sources' = Append(sources, source), source.kind = "publish",
           \A q \in Queues : source.want[q] = Cardinality(Passing(all, u.attributes, q))
    PROVE  IInv'
<1>1. PICK task, m : task = tasks[t] /\ m = Len(sources) + 1
  OBVIOUS
<1>2. /\ IsTask(task) /\ ClientInv(task) /\ task.out = <<>> /\ task.pub = 0 /\ IsSeq(task.rest)
      /\ \A i \in DOMAIN task.rest : CallInv(task.rest[i])
      /\ IsSeq(tasks) /\ IsSeq(sources) /\ IsFiniteSet(subs)
  BY <1>1, AtCall DEF IInv, TasksInv, StoresInv
<1>3. IsFiniteSet(all)
  BY <1>2, FS_Subset
<1>4. /\ SourcesGrow /\ SourcesStay /\ m \in Nat \ {0} /\ DOMAIN sources = 1..(m - 1) /\ Len(sources') = m
      /\ DOMAIN sources' = 1..m /\ sources'[m] = source
  BY <1>1, <1>2, SourceAdded
<1>5. IsSeq(order) /\ ToSet(order) = all
  BY <1>3, Enumerates
<1>6. order # <<>>
  BY <1>5, EmptyIs DEF ToSet
<1>7. tasks'[t] = u
  BY <1>2, TaskChanges
<1>8. TaskInv(t)'
  <2>1. ClientInv(u) /\ IsSeq(u.rest) /\ \A i \in DOMAIN u.rest : CallInv(u.rest[i])'
    BY <1>1, <1>2, <1>4, CallStays DEF ClientInv
  <2>2. m \in DOMAIN sources' /\ IsPublish(m)' /\ \A n \in DOMAIN sources' : n <= m
    BY <1>4 DEF IsPublish
  <2>3. u.pub = m /\ ToSet(u.out) \subseteq subs'
    BY <1>1, <1>5
  <2>4. PublishInv(t)'
    BY <2>2, <2>3, <1>6, <1>7 DEF PublishInv
  <2> QED BY <2>1, <2>4, <1>5, <1>7 DEF TaskInv
<1>9. QueuesInv' /\ \A n, q : Arrived(n, q)' = Arrived(n, q)
  BY <1>4, QueuesStay DEF IInv
<1>10. ASSUME NEW n, NEW q PROVE Calls(n, q)' = Calls(n, q)
  <2>1. CallsLeft(u, n, q) = CallsLeft(tasks[t], n, q)
    BY DEF CallsLeft
  <2> QED BY <2>1, CallsStay
<1>11. ASSUME NEW n \in DOMAIN sources, NEW q \in Queues PROVE Accounted(n, q)'
  <2>1. OutsLeft(u, n, q) = {}
    <3>1. u.pub # n
      BY <1>1, <1>4, <1>11
    <3> QED BY <3>1 DEF OutsLeft
  <2>2. OutsLeft(task, n, q) = {}
    <3>1. Len(<<>>) = 0 /\ 0..(0 - 1) = {}
      BY EmptyIs
    <3> QED BY <3>1, <1>2 DEF OutsLeft
  <2>3. Outs(n, q)' = Outs(n, q)
    <3>1. OutsLeft(u, n, q) = OutsLeft(tasks[t], n, q)
      BY <2>1, <2>2, <1>1
    <3> QED BY <3>1, OutsStay
  <2>4. Accounted(n, q) /\ sources'[n] = sources[n]
    BY <1>4 DEF IInv, Accounts, SourcesStay
  <2> QED BY <2>3, <2>4, <1>9, <1>10, AccountStays
<1>12. ASSUME NEW q \in Queues PROVE Accounted(m, q)'
  <2>1. Arrived(m, q) = {} /\ Calls(m, q) = {} /\ NothingLeft(m, q)
    <3>1. m \notin 0..Len(sources)
      BY <1>1, <1>4
    <3> QED BY <3>1, NothingYet DEF NothingLeft
  <2>2. PICK T : T = Passing(all, u.attributes, q)
    OBVIOUS
  <2>3. PICK D : D = OutsLeft(u, u.pub, q)
    OBVIOUS
  <2>4. IsFiniteSet(D) /\ Cardinality(D) = Cardinality(T)
    BY <2>2, <2>3, <1>3, OutsCollected
  <2>5. D = OutsLeft(u, m, q)
    BY <2>3, <1>1
  <2>6. IsFiniteSet(Outs(m, q)') /\ Cardinality(Outs(m, q)') = Cardinality(D)
    BY <2>1, <2>4, <2>5, OutsNamed
  <2>7. sources'[m].want[q] = Cardinality(T)
    BY <2>2, <1>4
  <2>8. Arrived(m, q)' = {} /\ Calls(m, q)' = {}
    BY <2>1, <1>9, <1>10
  <2>9. IsFiniteSet({}) /\ Cardinality({}) = 0 /\ Cardinality(D) \in Nat
    BY <2>4, FS_EmptySet, FS_CardinalityType
  <2> QED BY <2>4, <2>6, <2>7, <2>8, <2>9 DEF Accounted, AddsUp
<1>13. \A n \in DOMAIN sources', q \in Queues : Accounted(n, q)'
  <2>1. \A n \in DOMAIN sources' : n = m \/ n \in DOMAIN sources
    BY <1>4
  <2> QED BY <2>1, <1>11, <1>12
<1> QED BY <1>4, <1>8, <1>9, <1>13, TaskGoes

LEMMA CollectSubscriptionsKeeps ==
    ASSUME IInv, NEW t \in DOMAIN tasks, CollectSubscriptions(t)
    PROVE  IInv'
<1>1. PICK task, all : task = tasks[t] /\ all = ListSubscriptionsByTopic(Head(task.rest).to)
  OBVIOUS
<1>2. /\ task.rest # <<>> /\ task.out = <<>> /\ Head(task.rest).to \in Topics
      /\ UNCHANGED <<subs, configs, queues>>
  BY <1>1 DEF CollectSubscriptions, OnWorker, snsVars
<1>3. IsTask(task) /\ task.pub = 0
  BY <1>1, <1>2, AtCall
<1>4. \/ /\ all # {} /\ guard = 0 /\ guard' = t
         /\ \E order \in SetToSeqs(all) : Advance(t, [task EXCEPT !.out = order, !.pub = Len(sources) + 1])
         /\ sources' = Append(sources, Source("publish",
                [q \in Queues |-> Cardinality({s \in {s \in all : Passes(s, task.attributes)} : s.endpoint = q})]))
      \/ UNCHANGED <<guard, sources>> /\ Advance(t, [task EXCEPT !.rest = Tail(@)])
  BY <1>1 DEF CollectSubscriptions, HoldGuard, Wanted, Passes
<1>5. CASE /\ all # {} /\ guard = 0 /\ guard' = t
           /\ \E order \in SetToSeqs(all) : Advance(t, [task EXCEPT !.out = order, !.pub = Len(sources) + 1])
           /\ sources' = Append(sources, Source("publish",
                  [q \in Queues |-> Cardinality({s \in {s \in all : Passes(s, task.attributes)} : s.endpoint = q})]))
  <2>1. PICK order \in SetToSeqs(all) : Advance(t, [task EXCEPT !.out = order, !.pub = Len(sources) + 1])
    BY <1>5
  <2>2. PICK u : u = [[task EXCEPT !.out = order, !.pub = Len(sources) + 1] EXCEPT !.waits = FALSE]
    OBVIOUS
  <2>3. GoesOn(t, u)
    BY <2>1, <2>2, <1>1 DEF Advance, GoesOn
  <2>4. /\ IsTask(u) /\ u.rest = task.rest /\ u.out = order /\ u.pub = Len(sources) + 1
        /\ u.attributes = task.attributes /\ u.client = task.client
    BY <2>2, <1>3 DEF IsTask
  <2>5. PICK source : /\ sources' = Append(sources, source) /\ source.kind = "publish"
                      /\ \A q \in Queues : source.want[q] = Cardinality({s \in all : Passes(s, task.attributes) /\ s.endpoint = q})
    <3>1. \A q \in Queues : {s \in {s \in all : Passes(s, task.attributes)} : s.endpoint = q} = {s \in all : Passes(s, task.attributes) /\ s.endpoint = q}
      OBVIOUS
    <3> QED BY <3>1, <1>5 DEF Source
  <2>6. all \subseteq subs
    BY <1>1 DEF ListSubscriptionsByTopic
  <2>7. \A q \in Queues : source.want[q] = Cardinality(Passing(all, u.attributes, q))
    BY <2>4, <2>5 DEF Passing
  <2>8. all # {} /\ guard = 0 /\ guard' = t
    BY <1>5
  <2>9. /\ tasks[t].rest # <<>> /\ tasks[t].out = <<>> /\ Head(tasks[t].rest).to \in Topics /\ u.rest = tasks[t].rest
        /\ u.client = tasks[t].client
    BY <2>4, <1>1, <1>2
  <2>10. sources' = Append(sources, source) /\ source.kind = "publish"
    BY <2>5
  <2> QED BY <2>3, <2>4, <2>6, <2>7, <2>8, <2>9, <2>10, <1>2, SubscriptionsCollected
<1>6. CASE UNCHANGED <<guard, sources>> /\ Advance(t, [task EXCEPT !.rest = Tail(@)])
  <2>1. PICK u : u = [[task EXCEPT !.rest = Tail(@)] EXCEPT !.waits = FALSE]
    OBVIOUS
  <2>2. GoesOn(t, u)
    BY <2>1, <1>1, <1>6 DEF Advance, GoesOn
  <2>3. IsTask(u) /\ u.rest = Tail(task.rest) /\ u.out = <<>> /\ u.pub = 0 /\ u.client = task.client
    BY <2>1, <1>2, <1>3 DEF IsTask
  <2> QED BY <2>2, <2>3, <1>1, <1>2, <1>6, NothingToCollect
<1> QED BY <1>4, <1>5, <1>6

\* One delivery is behind the task, and nothing else changes of what is left.
LEMMA DeliveryIsDone ==
    ASSUME IInv, NEW t \in DOMAIN tasks, tasks[t].out # <<>>, Delivered(t, Tail(tasks[t].out)),
           UNCHANGED <<subs, sources>>
    PROVE  /\ guard = t /\ TaskInv(t)' /\ \E u : GoesOn(t, u)
           /\ \A n, q : q \in Queues => Calls(n, q)' = Calls(n, q)
           /\ \A n, q : IF /\ tasks[t].pub = n /\ Passes(Head(tasks[t].out), tasks[t].attributes)
                           /\ Head(tasks[t].out).endpoint = q
                        THEN OutIsLess(n, q)
                        ELSE Outs(n, q)' = Outs(n, q)
<1>1. PICK task, out : task = tasks[t] /\ out = Tail(task.out)
  OBVIOUS
<1>2. PICK next : next = IF out # <<>> THEN [task EXCEPT !.out = out]
                         ELSE [task EXCEPT !.out = <<>>, !.pub = 0, !.rest = Tail(@)]
  OBVIOUS
<1>3. PICK u : u = [next EXCEPT !.waits = FALSE]
  OBVIOUS
<1>4. TaskInv(t) /\ IsSeq(tasks) /\ IsSeq(sources)
  BY DEF IInv, TasksInv, StoresInv
<1>5. /\ IsTask(task) /\ ClientInv(task) /\ IsSeq(task.rest) /\ IsSeq(task.out) /\ (\A i \in DOMAIN task.rest : CallInv(task.rest[i]))
      /\ PublishInv(t)
  BY <1>1, <1>4 DEF TaskInv
<1>6. /\ guard = t /\ task.rest # <<>> /\ Head(task.rest).to \in Topics
      /\ task.pub \in DOMAIN sources /\ IsPublish(task.pub)
      /\ (\A n \in DOMAIN sources : IsPublish(n) => n <= task.pub)
      /\ ToSet(task.out) \subseteq subs
  BY <1>1, <1>5 DEF PublishInv
<1>7. GoesOn(t, u) /\ guard' = IF out = <<>> THEN 0 ELSE t
  BY <1>1, <1>2, <1>3, <1>6 DEF Delivered, Advance, GoesOn
<1>8. IsTask(u) /\ u.out = out /\ u.attributes = task.attributes /\ u.client = task.client
  BY <1>2, <1>3, <1>5 DEF IsTask
<1>9. CASE out # <<>>
  <2>1. u.rest = task.rest /\ u.pub = task.pub
    BY <1>2, <1>3, <1>5, <1>9 DEF IsTask
  <2>2. SourcesGrow /\ tasks'[t] = u
    BY <1>4, <1>7, SourcesSame, TaskChanges
  <2>3. ClientInv(u) /\ IsSeq(u.rest) /\ \A i \in DOMAIN u.rest : CallInv(u.rest[i])'
    BY <2>1, <2>2, <1>5, <1>8, CallStays DEF ClientInv
  <2>4. IsSeq(out) /\ ToSet(out) \subseteq ToSet(task.out)
    <3>1. PICK k : k = Len(task.out)
      OBVIOUS
    <3>2. /\ IsSeq(out) /\ k \in Nat \ {0} /\ DOMAIN task.out = 1..k /\ DOMAIN out = 1..(k - 1)
          /\ \A i \in 1..(k - 1) : out[i] = task.out[i + 1]
      BY <3>1, <1>1, <1>5, TailIs
    <3>3. \A i \in 1..(k - 1) : i + 1 \in 1..k
      BY <3>2
    <3> QED BY <3>2, <3>3 DEF ToSet
  <2>5. PublishInv(t)'
    BY <2>1, <2>2, <2>4, <1>6, <1>7, <1>8, <1>9 DEF PublishInv, IsPublish
  <2>6. TaskInv(t)'
    BY <2>2, <2>3, <2>4, <2>5, <1>8 DEF TaskInv
  <2>7. ASSUME NEW n, NEW q PROVE Calls(n, q)' = Calls(n, q)
    <3>1. CallsLeft(u, n, q) = CallsLeft(tasks[t], n, q)
      BY <2>1, <1>1 DEF CallsLeft
    <3> QED BY <3>1, <1>7, CallsStay
  <2>8. u.pub = tasks[t].pub /\ u.attributes = tasks[t].attributes /\ IsSeq(tasks[t].out) /\ u.out = Tail(tasks[t].out)
    BY <2>1, <1>1, <1>5, <1>8
  <2>9. \A n, q : IF /\ tasks[t].pub = n /\ Passes(Head(tasks[t].out), tasks[t].attributes)
                     /\ Head(tasks[t].out).endpoint = q
                  THEN OutIsLess(n, q)
                  ELSE Outs(n, q)' = Outs(n, q)
    BY <2>8, <1>7, OutGoes
  <2> QED BY <2>6, <2>7, <2>9, <1>6, <1>7
<1>10. CASE out = <<>>
  <2>1. u.rest = Tail(task.rest) /\ u.pub = 0
    BY <1>2, <1>3, <1>5, <1>10 DEF IsTask
  <2>2. SourcesGrow /\ tasks'[t] = u
    BY <1>4, <1>7, SourcesSame, TaskChanges
  <2>3. ClientInv(u) /\ IsSeq(u.rest) /\ \A i \in DOMAIN u.rest : CallInv(u.rest[i])'
    BY <2>1, <2>2, <1>5, <1>6, <1>8, RestOfCalls, RestOfRequest
  <2>4. TaskInv(t)'
    BY <2>1, <2>2, <2>3, <1>8, <1>10, TaskIsQuiet
  <2>5. ASSUME NEW n, NEW q \in Queues PROVE Calls(n, q)' = Calls(n, q)
    <3>1. Head(tasks[t].rest).to # q /\ IsSeq(tasks[t].rest) /\ tasks[t].rest # <<>> /\ u.rest = Tail(tasks[t].rest)
      BY <2>1, <1>1, <1>5, <1>6, FanoutAssumption
    <3> QED BY <3>1, <1>7, CallToNoQueue
  <2>6. Tail(tasks[t].out) = <<>> /\ u.attributes = tasks[t].attributes /\ IsSeq(tasks[t].out) /\ u.out = Tail(tasks[t].out)
    BY <1>1, <1>5, <1>8, <1>10
  <2>7. \A n, q : IF /\ tasks[t].pub = n /\ Passes(Head(tasks[t].out), tasks[t].attributes)
                     /\ Head(tasks[t].out).endpoint = q
                  THEN OutIsLess(n, q)
                  ELSE Outs(n, q)' = Outs(n, q)
    BY <2>6, <1>7, OutGoes
  <2> QED BY <2>4, <2>5, <2>7, <1>6, <1>7
<1> QED BY <1>9, <1>10

LEMMA SkipDeliveryKeeps ==
    ASSUME IInv, NEW t \in DOMAIN tasks, SkipDelivery(t)
    PROVE  IInv'
<1>1. /\ tasks[t].out # <<>> /\ ~Passes(Head(tasks[t].out), tasks[t].attributes)
      /\ Delivered(t, Tail(tasks[t].out)) /\ UNCHANGED <<subs, configs, queues, sources>>
  BY DEF SkipDelivery, Skip, AtQueue, Passes, snsVars
<1>2. /\ guard = t /\ TaskInv(t)' /\ (\E u : GoesOn(t, u))
      /\ \A n, q : q \in Queues => Calls(n, q)' = Calls(n, q)
      /\ \A n, q : Outs(n, q)' = Outs(n, q)
  BY <1>1, DeliveryIsDone
<1>3. PICK u : GoesOn(t, u)
  BY <1>2
<1>4. SourcesGrow
  BY <1>1, SourcesSame DEF IInv, StoresInv
<1>5. QueuesInv' /\ \A n, q : Arrived(n, q)' = Arrived(n, q)
  BY <1>1, <1>4, QueuesStay DEF IInv
<1>6. ASSUME NEW n \in DOMAIN sources, NEW q \in Queues PROVE Accounted(n, q)'
  <2>1. Accounted(n, q) /\ sources'[n] = sources[n]
    BY <1>1 DEF IInv, Accounts
  <2> QED BY <2>1, <1>2, <1>5, AccountStays
<1>7. \A n \in DOMAIN sources', q \in Queues : Accounted(n, q)'
  BY <1>1, <1>6
<1> QED BY <1>1, <1>2, <1>3, <1>4, <1>5, <1>7, TaskGoes

LEMMA DeliverKeeps ==
    ASSUME IInv, NEW t \in DOMAIN tasks, Deliver(t)
    PROVE  IInv'
<1>1. PICK s, m : s = Head(tasks[t].out) /\ m = [source |-> tasks[t].pub, raw |-> s.raw]
  OBVIOUS
<1>2. /\ tasks[t].out # <<>> /\ Passes(s, tasks[t].attributes)
      /\ Delivered(t, Tail(tasks[t].out)) /\ UNCHANGED <<subs, configs, sources>>
      /\ queues' = Sent(s.endpoint, m)
  BY <1>1 DEF Deliver, AtQueue, Passes, snsVars
<1>3. /\ guard = t /\ TaskInv(t)' /\ (\E u : GoesOn(t, u))
      /\ \A n, q : q \in Queues => Calls(n, q)' = Calls(n, q)
      /\ \A n, q : IF tasks[t].pub = n /\ s.endpoint = q THEN OutIsLess(n, q) ELSE Outs(n, q)' = Outs(n, q)
  BY <1>1, <1>2, DeliveryIsDone
<1>4. PICK u : GoesOn(t, u)
  BY <1>3
<1>5. SourcesGrow /\ IsSeq(sources) /\ QueuesInv
  BY <1>2, SourcesSame DEF IInv, StoresInv
<1>6. m.source = tasks[t].pub
  BY <1>1
<1>7. m.source \in DOMAIN sources /\ \A n \in DOMAIN sources : IsPublish(n) => n <= m.source
  BY <1>2, <1>6 DEF IInv, TasksInv, TaskInv, PublishInv
<1>8. /\ QueuesInv'
      /\ \A n, q : q # s.endpoint \/ n # m.source \/ q \notin Queues => Arrived(n, q)' = Arrived(n, q)
      /\ s.endpoint \in Queues => \E i : /\ i \notin Arrived(m.source, s.endpoint)
                                         /\ Arrived(m.source, s.endpoint)' = Arrived(m.source, s.endpoint) \cup {i}
  BY <1>2, <1>5, <1>7, MessageSent
<1>9. ASSUME NEW n \in DOMAIN sources, NEW q \in Queues PROVE Accounted(n, q)'
  <2>1. Accounted(n, q) /\ sources'[n] = sources[n] /\ Calls(n, q)' = Calls(n, q)
    BY <1>2, <1>3 DEF IInv, Accounts
  <2>2. CASE tasks[t].pub = n /\ s.endpoint = q
    <3>1. PICK i : i \notin Arrived(n, q) /\ Arrived(n, q)' = Arrived(n, q) \cup {i}
      BY <2>2, <1>6, <1>8
    <3>2. OutIsLess(n, q)
      BY <2>2, <1>3
    <3> QED BY <3>1, <3>2, <2>1, AccountMoves
  <2>3. CASE ~(tasks[t].pub = n /\ s.endpoint = q)
    <3>1. Arrived(n, q)' = Arrived(n, q)
      BY <2>3, <1>6, <1>8
    <3>2. Outs(n, q)' = Outs(n, q)
      BY <2>3, <1>3
    <3> QED BY <3>1, <3>2, <2>1, AccountStays
  <2> QED BY <2>2, <2>3
<1>10. \A n \in DOMAIN sources', q \in Queues : Accounted(n, q)'
  BY <1>2, <1>9
<1> QED BY <1>2, <1>3, <1>4, <1>5, <1>8, <1>10, TaskGoes

CallsToQueue(calls, q) == {i \in DOMAIN calls : calls[i].to = q}

AllFor(calls, n) == \A i \in DOMAIN calls : calls[i].source = n

NoneFor(calls, n) == \A i \in DOMAIN calls : calls[i].source # n

Replaces(u, task, pre) == IsSeq(pre) /\ IsSeq(task.rest) /\ task.rest # <<>> /\ u.rest = pre \o Tail(task.rest)

\* Calls put in place of the next one, when that goes elsewhere.
LEMMA CallsPrefixed ==
    ASSUME NEW task, NEW u, NEW pre, Replaces(u, task, pre), NEW n, NEW q, Head(task.rest).to # q
    PROVE  /\ NoneFor(pre, n) => CallsLeft(u, n, q) = CallsLeft(task, n, q)
           /\ (CallsLeft(task, n, q) = {} /\ AllFor(pre, n)) =>
                  CallsLeft(u, n, q) = {Len(u.rest) - i : i \in CallsToQueue(pre, q)}
<1> USE DEF NoneFor, AllFor, Replaces
<1>1. PICK r, s, w, k, len, L : /\ r = task.rest /\ s = Tail(r) /\ w = pre \o s /\ k = Len(pre) /\ len = Len(r)
                                /\ L = Len(w)
  OBVIOUS
<1>2. /\ IsSeq(s) /\ len \in Nat \ {0} /\ Head(r) = r[1] /\ Len(s) = len - 1
      /\ \A i \in 1..(len - 1) : s[i] = r[i + 1]
  BY <1>1, TailIs
<1>3. /\ L = k + (len - 1) /\ k \in Nat /\ DOMAIN pre = 1..k
      /\ \A i \in 1..k : w[i] = pre[i]
      /\ \A i \in (k + 1)..(k + (len - 1)) : w[i] = s[i - k]
  BY <1>1, <1>2, ConcatIs
<1>4. CallsLeft(task, n, q) = {d \in 0..(len - 1) : r[len - d].source = n /\ r[len - d].to = q}
  BY <1>1 DEF CallsLeft
<1>5. CallsLeft(u, n, q) = {d \in 0..(L - 1) : w[L - d].source = n /\ w[L - d].to = q}
  BY <1>1 DEF CallsLeft
<1>6. \A d \in 0..(len - 2) : w[L - d] = r[len - d]
  <2> TAKE d \in 0..(len - 2)
  <2>1. /\ L - d \in (k + 1)..(k + (len - 1)) /\ (L - d) - k = len - 1 - d
        /\ len - 1 - d \in 1..(len - 1) /\ (len - 1 - d) + 1 = len - d
    <3>1. k \in Nat /\ len \in Nat /\ d \in Nat /\ d <= len - 2 /\ L = k + (len - 1)
      BY <1>2, <1>3
    <3> QED BY ONLY <3>1
  <2> QED BY <2>1, <1>2, <1>3
<1>7. \A d \in (len - 1)..(L - 1) : L - d \in 1..k /\ w[L - d] = pre[L - d]
  <2> TAKE d \in (len - 1)..(L - 1)
  <2>1. L - d \in 1..k
    BY <1>2, <1>3
  <2> QED BY <2>1, <1>3
<1>8. len - 1 \notin CallsLeft(task, n, q)
  <2>1. len - (len - 1) = 1
    BY <1>2
  <2> QED BY <2>1, <1>1, <1>2, <1>4
<1>9. /\ 0..(len - 1) = 0..(len - 2) \cup {len - 1}
      /\ 0..(L - 1) = 0..(len - 2) \cup (len - 1)..(L - 1)
  <2>1. len \in Nat /\ L \in Int /\ len >= 1 /\ L - 1 >= len - 2
    BY <1>2, <1>3
  <2>2. 0..(len - 1) = 0..(len - 2) \cup {len - 1}
    BY <2>1
  <2>3. ASSUME NEW d PROVE d \in 0..(L - 1) <=> d \in 0..(len - 2) \/ d \in (len - 1)..(L - 1)
    BY <2>1
  <2> QED BY <2>2, <2>3
<1>10. CallsLeft(task, n, q) = {d \in 0..(len - 2) : r[len - d].source = n /\ r[len - d].to = q}
  BY <1>4, <1>8, <1>9
<1>11. CallsLeft(u, n, q) = CallsLeft(task, n, q) \cup
           {d \in (len - 1)..(L - 1) : pre[L - d].source = n /\ pre[L - d].to = q}
  <2>1. CallsLeft(u, n, q) = {d \in 0..(len - 2) : w[L - d].source = n /\ w[L - d].to = q} \cup
            {d \in (len - 1)..(L - 1) : w[L - d].source = n /\ w[L - d].to = q}
    BY <1>5, <1>9
  <2> QED BY <2>1, <1>6, <1>7, <1>10
<1>12. ASSUME \A i \in DOMAIN pre : pre[i].source # n PROVE CallsLeft(u, n, q) = CallsLeft(task, n, q)
  BY <1>3, <1>7, <1>11, <1>12
<1>13. ASSUME CallsLeft(task, n, q) = {}, \A i \in DOMAIN pre : pre[i].source = n
       PROVE  CallsLeft(u, n, q) = {L - i : i \in CallsToQueue(pre, q)}
  <2>1. PICK I : I = CallsToQueue(pre, q)
    OBVIOUS
  <2>2. I = {i \in 1..k : pre[i].to = q}
    BY <2>1, <1>3 DEF CallsToQueue
  <2>3. CallsLeft(u, n, q) = {d \in (len - 1)..(L - 1) : pre[L - d].to = q}
    BY <1>3, <1>7, <1>11, <1>13
  <2>4. ASSUME NEW d \in (len - 1)..(L - 1), pre[L - d].to = q PROVE d \in {L - i : i \in I}
    <3>1. L - d \in I /\ d = L - (L - d)
      BY <2>2, <2>4, <1>2, <1>3, <1>7
    <3> QED BY <3>1
  <2>5. ASSUME NEW i \in I PROVE L - i \in (len - 1)..(L - 1) /\ pre[L - (L - i)].to = q
    <3>1. i \in 1..k /\ pre[i].to = q
      BY <2>2, <2>5
    <3>2. L - i \in (len - 1)..(L - 1) /\ L - (L - i) = i
      BY <3>1, <1>2, <1>3
    <3> QED BY <3>1, <3>2
  <2> QED BY <2>1, <2>3, <2>4, <2>5
<1> QED BY <1>1, <1>12, <1>13

\* The calls of a notification are as many as the configurations that match.
LEMMA EmitNotificationKeeps ==
    ASSUME IInv, NEW t \in DOMAIN tasks, EmitNotification(t)
    PROVE  IInv'
<1>1. PICK task, m : task = tasks[t] /\ m = Len(sources) + 1
  OBVIOUS
<1>2. PICK matching : matching = {i \in DOMAIN configs : NotificationMatches(configs[i], Head(task.rest).event)}
  OBVIOUS
<1>3. PICK order \in SetToSeqs(matching) :
          Advance(t, [task EXCEPT !.rest = [i \in DOMAIN order |-> Call(configs[order[i]].to, m)] \o Tail(@)])
  BY <1>1, <1>2 DEF EmitNotification
<1>4. /\ UNCHANGED <<subs, configs, queues, guard>> /\ task.rest # <<>> /\ Head(task.rest).to = "emit"
  BY <1>1 DEF EmitNotification, OnWorker, snsVars
<1>5. PICK source : /\ sources' = Append(sources, source) /\ source.kind = "object"
                    /\ \A q \in Queues : source.want[q] = Cardinality({i \in matching : configs[i].to = q})
  <2>1. sources' = Append(sources, Source("object", [q \in Queues |-> Cardinality({i \in matching : configs[i].to = q})]))
    BY <1>1, <1>2 DEF EmitNotification, Wanted
  <2> QED BY <2>1 DEF Source
<1>6. PICK pre : pre = [i \in DOMAIN order |-> Call(configs[order[i]].to, m)]
  OBVIOUS
<1>7. PICK u : u = [[task EXCEPT !.rest = pre \o Tail(@)] EXCEPT !.waits = FALSE]
  OBVIOUS
<1>8. GoesOn(t, u)
  BY <1>1, <1>3, <1>6, <1>7 DEF Advance, GoesOn
<1>9. Head(task.rest).to \notin Topics /\ Head(task.rest).to \notin Queues
  BY <1>4, FanoutAssumption
<1>10. /\ IsTask(task) /\ ClientInv(task) /\ task.out = <<>> /\ task.pub = 0 /\ IsSeq(task.rest)
       /\ \A i \in DOMAIN task.rest : CallInv(task.rest[i])
       /\ IsSeq(tasks) /\ IsSeq(sources) /\ IsSeq(configs)
  BY <1>1, <1>4, <1>9, AtCall DEF IInv, TasksInv, StoresInv
<1>11. IsTask(u) /\ u.rest = pre \o Tail(task.rest) /\ u.out = <<>> /\ u.pub = 0 /\ u.client = task.client
  BY <1>7, <1>10 DEF IsTask
<1>12. IsFiniteSet(matching)
  <2>1. PICK k \in Nat : DOMAIN configs = 1..k
    BY <1>10, SequenceHas
  <2>2. IsFiniteSet(1..k) /\ matching \in SUBSET (1..k)
    BY <2>1, <1>2, FS_Interval
  <2> QED BY <2>2, FS_Subset
<1>13. IsSeq(order) /\ Len(order) \in Nat /\ DOMAIN order = 1..Len(order) /\ ToSet(order) = matching
  BY <1>12, Enumerates, SequenceHas
<1>14. /\ IsSeq(pre) /\ DOMAIN pre = DOMAIN order
       /\ \A i \in DOMAIN pre : pre[i].source = m /\ pre[i].to = configs[order[i]].to
  <2>1. pre = [i \in 1..Len(order) |-> pre[i]]
    BY <1>6, <1>13
  <2> QED BY <2>1, <1>6, <1>13, FunctionIs DEF Call
<1>15. /\ SourcesGrow /\ SourcesStay /\ NoPublish /\ m \in Nat \ {0} /\ DOMAIN sources = 1..(m - 1) /\ Len(sources') = m
       /\ DOMAIN sources' = 1..m /\ sources'[m] = source
  BY <1>1, <1>5, <1>10, SourceAdded
<1>16. tasks'[t] = u
  BY <1>8, <1>10, TaskChanges
<1>17. TaskInv(t)'
  <2>1. PICK s : s = Tail(task.rest)
    OBVIOUS
  <2>2. IsSeq(s) /\ \A i \in DOMAIN s : CallInv(s[i])'
    BY <2>1, <1>4, <1>10, <1>15, RestOfCalls
  <2>3. \A i \in DOMAIN pre : CallInv(pre[i])'
    <3>1. ASSUME NEW call, call.source = m PROVE CallInv(call)'
      BY <3>1, <1>5, <1>15 DEF CallInv, IsPublish
    <3> QED BY <3>1, <1>14
  <2>4. PICK w, k : w = pre \o s /\ k = Len(pre)
    OBVIOUS
  <2>5. /\ IsSeq(w) /\ k \in Nat /\ Len(s) \in Nat /\ DOMAIN w = 1..(k + Len(s)) /\ DOMAIN pre = 1..k /\ DOMAIN s = 1..Len(s)
        /\ \A i \in 1..k : w[i] = pre[i]
        /\ \A i \in (k + 1)..(k + Len(s)) : w[i] = s[i - k]
    BY <2>2, <2>4, <1>14, ConcatIs
  <2>6. ASSUME NEW i \in DOMAIN w PROVE CallInv(w[i])'
    <3>1. CASE i \in 1..k
      <4>1. CallInv(pre[i])' /\ w[i] = pre[i]
        BY <3>1, <2>3, <2>5
      <4> QED BY <4>1
    <3>2. CASE i \notin 1..k
      <4>1. PICK j : j = i - k
        OBVIOUS
      <4>2. i \in (k + 1)..(k + Len(s)) /\ j \in DOMAIN s
        BY <4>1, <3>2, <2>5, <2>6
      <4>3. CallInv(s[j])' /\ w[i] = s[j]
        BY <4>1, <4>2, <2>2, <2>5
      <4> QED BY <4>3
    <3> QED BY <3>1, <3>2
  <2>7. u.rest = w
    BY <2>1, <2>4, <1>11
  <2>8. ClientInv(u)
    <3>1. 1 \in DOMAIN task.rest /\ Head(task.rest) = task.rest[1]
      BY <1>4, <1>10, TailIs
    <3>2. task.rest[1].to \notin Topics \cup {"sns"}
      BY <3>1, <1>4, <1>9
    <3>3. ~task.client
      BY <3>1, <3>2, <1>10 DEF ClientInv
    <3> QED BY <3>3, <1>11 DEF ClientInv
  <2> QED BY <2>5, <2>6, <2>7, <2>8, <1>11, <1>16, TaskIsQuiet
<1>18. QueuesInv' /\ \A n, q : Arrived(n, q)' = Arrived(n, q)
  BY <1>4, <1>15, QueuesStay DEF IInv
<1>19. ASSUME NEW n, NEW q PROVE Outs(n, q)' = Outs(n, q)
  <2>1. OutsLeft(u, n, q) = OutsLeft(tasks[t], n, q)
    <3>1. Len(<<>>) = 0 /\ 0..(0 - 1) = {}
      BY EmptyIs
    <3> QED BY <3>1, <1>1, <1>10, <1>11 DEF OutsLeft
  <2> QED BY <2>1, <1>8, OutsStay
<1>20. ASSUME NEW n \in DOMAIN sources, NEW q \in Queues PROVE Accounted(n, q)'
  <2>1. \A i \in DOMAIN pre : pre[i].source # n
    BY <1>14, <1>15, <1>20
  <2>2. Head(task.rest).to # q
    BY <1>9
  <2>3. CallsLeft(u, n, q) = CallsLeft(task, n, q)
    <3>1. NoneFor(pre, n) /\ Replaces(u, task, pre)
      BY <2>1, <1>4, <1>10, <1>11, <1>14 DEF NoneFor, Replaces
    <3> QED BY <3>1, <2>2, CallsPrefixed
  <2>4. Calls(n, q)' = Calls(n, q)
    BY <2>3, <1>1, <1>8, CallsStay
  <2>5. Accounted(n, q) /\ sources'[n] = sources[n]
    BY <1>15 DEF IInv, Accounts, SourcesStay
  <2> QED BY <2>4, <2>5, <1>18, <1>19, AccountStays
<1>21. ASSUME NEW q \in Queues PROVE Accounted(m, q)'
  <2>1. Arrived(m, q) = {} /\ Outs(m, q) = {} /\ NothingLeft(m, q)
    <3>1. m \notin 0..Len(sources)
      BY <1>1, <1>15
    <3> QED BY <3>1, NothingYet DEF NothingLeft
  <2>2. PICK T, I : T = {i \in matching : configs[i].to = q} /\ I = CallsToQueue(pre, q)
    OBVIOUS
  <2>3. IsFiniteSet(I) /\ Cardinality(I) = Cardinality(T)
    <3>1. T \in SUBSET matching
      BY <2>2
    <3>2. I = {i \in DOMAIN order : order[i] \in T}
      BY <2>2, <1>13, <1>14 DEF CallsToQueue, ToSet
    <3> QED BY <3>1, <3>2, <1>12, Enumerates
  <2>4. PICK D, L : D = CallsLeft(u, m, q) /\ L = Len(u.rest)
    OBVIOUS
  <2>5. D = {L - i : i \in I}
    <3>1. CallsLeft(task, m, q) = {} /\ AllFor(pre, m) /\ Head(task.rest).to # q
      BY <2>1, <1>1, <1>9, <1>14 DEF NothingLeft, AllFor
    <3>2. Replaces(u, task, pre)
      BY <1>4, <1>10, <1>11, <1>14 DEF Replaces
    <3>3. CallsLeft(u, m, q) = {Len(u.rest) - i : i \in CallsToQueue(pre, q)}
      BY <3>1, <3>2, CallsPrefixed
    <3> QED BY <3>3, <2>2, <2>4
  <2>6. L \in Int /\ \A i \in I : i \in Int
    <3>1. L \in Nat
      BY <2>4, <1>16, <1>17, SequenceHas DEF TaskInv
    <3> QED BY <3>1, <2>2, <1>13, <1>14 DEF CallsToQueue
  <2>7. IsFiniteSet(D) /\ Cardinality(D) = Cardinality(I)
    BY <2>3, <2>5, <2>6, FromTheEnd
  <2>8. IsFiniteSet(Calls(m, q)') /\ Cardinality(Calls(m, q)') = Cardinality(D)
    BY <2>1, <2>4, <2>7, <1>8, CallsNamed
  <2>9. sources'[m].want[q] = Cardinality(T)
    BY <2>2, <1>5, <1>15
  <2>10. Arrived(m, q)' = {} /\ Outs(m, q)' = {}
    BY <2>1, <1>18, <1>19
  <2>11. IsFiniteSet({}) /\ Cardinality({}) = 0 /\ Cardinality(D) \in Nat
    BY <2>7, FS_EmptySet, FS_CardinalityType
  <2> QED BY <2>3, <2>7, <2>8, <2>9, <2>10, <2>11 DEF Accounted, AddsUp
<1>22. \A n \in DOMAIN sources', q \in Queues : Accounted(n, q)'
  <2>1. \A n \in DOMAIN sources' : n = m \/ n \in DOMAIN sources
    BY <1>15
  <2> QED BY <2>1, <1>20, <1>21
<1> QED BY <1>4, <1>8, <1>15, <1>17, <1>18, <1>22, TaskGoes

\* Of what a task does not owe it has nothing left.
LEMMA OwesNothing ==
    ASSUME IInv, NEW t \in DOMAIN tasks, NEW n, ~Owes(t, n), NEW q
    PROVE  CallsLeft(tasks[t], n, q) = {} /\ OutsLeft(tasks[t], n, q) = {}
<1>1. PICK r, len : r = tasks[t].rest /\ len = Len(r)
  OBVIOUS
<1>2. tasks[t].pub # n /\ \A i \in DOMAIN r : r[i].source # n
  BY <1>1 DEF Owes
<1>3. len \in Nat /\ DOMAIN r = 1..len
  BY <1>1, SequenceHas DEF IInv, TasksInv, TaskInv
<1>4. \A d \in 0..(len - 1) : len - d \in 1..len
  BY <1>3
<1>5. CallsLeft(tasks[t], n, q) = {}
  BY <1>1, <1>2, <1>3, <1>4 DEF CallsLeft
<1> QED BY <1>2, <1>5 DEF OutsLeft

\* A request owes publishes only.
LEMMA RequestOwes ==
    ASSUME IInv, NEW t \in DOMAIN tasks, tasks[t].client, NEW n \in DOMAIN sources, Owes(t, n)
    PROVE  IsPublish(n)
<1>1. n # 0
  BY SequenceHas DEF IInv, StoresInv
<1>2. TaskInv(t)
  BY DEF IInv, TasksInv
<1>3. tasks[t].pub = n
  BY <1>1, <1>2 DEF Owes, TaskInv, ClientInv
<1> QED BY <1>1, <1>2, <1>3 DEF TaskInv, PublishInv

LEMMA DisconnectKeeps ==
    ASSUME IInv, NEW t \in DOMAIN tasks, Disconnect(t)
    PROVE  IInv'
<1>1. PICK u : u = Task(<<>>, NoAttributes, TRUE)
  OBVIOUS
<1>2. /\ GoesOn(t, u) /\ tasks[t].client /\ UNCHANGED <<subs, configs, queues>>
      /\ guard' = IF guard = t THEN 0 ELSE guard
  BY <1>1 DEF Disconnect, GoesOn, snsVars
<1>3. sources' = [n \in DOMAIN sources |->
                     [kind |-> sources[n].kind, want |-> sources[n].want, cut |-> sources[n].cut \/ Owes(t, n)]]
  BY DEF Disconnect
<1>4. IsTask(u) /\ u.rest = <<>> /\ u.out = <<>> /\ u.pub = 0
  BY <1>1 DEF Task, IsTask
<1>5. IsSeq(tasks) /\ IsSeq(sources)
  BY DEF IInv, TasksInv, StoresInv
<1>6. /\ DOMAIN sources' = DOMAIN sources
      /\ \A n \in DOMAIN sources : sources'[n].kind = sources[n].kind
      /\ \A n \in DOMAIN sources : sources'[n].want = sources[n].want
      /\ \A n \in DOMAIN sources : sources'[n].cut <=> sources[n].cut \/ Owes(t, n)
  BY <1>3
<1>7. SourcesGrow /\ NoPublish
  <2>1. PICK k \in Nat : DOMAIN sources = 1..k
    BY <1>5, SequenceHas
  <2>2. sources' = [n \in 1..k |-> sources'[n]]
    BY <2>1, <1>3
  <2>3. IsSeq(sources')
    BY <2>2, FunctionIs
  <2>4. SourcesGrow
    BY <2>3, <1>5, <1>6 DEF SourcesGrow
  <2>5. NoPublish
    BY <1>6 DEF NoPublish
  <2> QED BY <2>4, <2>5
<1>8. tasks'[t] = u
  BY <1>2, <1>5, TaskChanges
<1>9. TaskInv(t)'
  <2>1. DOMAIN u.rest = {} /\ IsSeq(u.rest)
    BY <1>4, EmptyIs
  <2>2. ClientInv(u)
    BY <2>1 DEF ClientInv
  <2> QED BY <2>1, <2>2, <1>4, <1>8, TaskIsQuiet
<1>10. QueuesInv' /\ \A n, q : Arrived(n, q)' = Arrived(n, q)
  BY <1>2, <1>7, QueuesStay DEF IInv
<1>11. ASSUME NEW n \in DOMAIN sources, NEW q \in Queues PROVE Accounted(n, q)'
  <2>1. CallsLeft(u, n, q) = {} /\ OutsLeft(u, n, q) = {}
    <3>1. Len(<<>>) = 0 /\ 0..(0 - 1) = {}
      BY EmptyIs
    <3> QED BY <3>1, <1>4 DEF CallsLeft, OutsLeft
  <2>2. Accounted(n, q)
    BY DEF IInv, Accounts
  <2>3. CASE Owes(t, n)
    <3>1. Calls(n, q)' \subseteq Calls(n, q) /\ Outs(n, q)' \subseteq Outs(n, q)
      <4>1. /\ DOMAIN tasks' = DOMAIN tasks /\ tasks'[t] = u
            /\ \A s \in DOMAIN tasks : s # t => tasks'[s] = tasks[s]
        BY <1>2, <1>5, TaskChanges
      <4> QED BY <4>1, <2>1 DEF Calls, Outs
    <3>2. IsPublish(n)
      BY <2>3, <1>2, RequestOwes
    <3>3. sources'[n].kind = "publish" /\ sources'[n].cut /\ sources'[n].want = sources[n].want
      BY <3>2, <2>3, <1>6 DEF IsPublish
    <3> QED BY <3>1, <3>3, <2>2, <1>10, AccountShrinks
  <2>4. CASE ~Owes(t, n)
    <3>1. CallsLeft(u, n, q) = CallsLeft(tasks[t], n, q) /\ OutsLeft(u, n, q) = OutsLeft(tasks[t], n, q)
      BY <2>1, <2>4, OwesNothing
    <3>2. Calls(n, q)' = Calls(n, q) /\ Outs(n, q)' = Outs(n, q)
      BY <3>1, <1>2, CallsStay, OutsStay
    <3>3. Arrived(n, q)' = Arrived(n, q)
      BY <1>10
    <3>4. \A total, want : AddsUp(n, total, want) => AddsUp(n, total, want)'
      BY <1>6 DEF AddsUp, IsPublish
    <3>5. sources'[n].want[q] = sources[n].want[q]
      <4>1. PICK old, new : old = sources[n].want /\ new = sources'[n].want
        OBVIOUS
      <4>2. old = new
        BY <4>1, <1>6
      <4> QED BY <4>1, <4>2
    <3> QED BY <3>2, <3>3, <3>4, <3>5, <2>2 DEF Accounted
  <2> QED BY <2>3, <2>4
<1>12. \A n \in DOMAIN sources', q \in Queues : Accounted(n, q)'
  BY <1>6, <1>11
<1> QED BY <1>2, <1>7, <1>9, <1>10, <1>12, TaskGoes

LEMMA InitHolds ==
    ASSUME Init
    PROVE  IInv
<1>1. StoresInv
  <2>1. IsFiniteSet(subs) /\ configs \in InitConfigs /\ sources = <<>>
    BY FanoutAssumption DEF Init
  <2>2. IsSeq(configs)
    BY <2>1, FanoutAssumption, SequenceIs
  <2> QED BY <2>1, <2>2, EmptyIs DEF StoresInv
<1>2. TasksInv
  BY EmptyIs DEF Init, TasksInv
<1>3. QueuesInv
  BY EmptyIs DEF Init, QueuesInv, QueueInv
<1>4. Accounts
  BY EmptyIs DEF Init, Accounts
<1> QED BY <1>1, <1>2, <1>3, <1>4 DEF IInv

LEMMA NextKeeps ==
    ASSUME IInv, [Next]_vars
    PROVE  IInv'
<1>1. CASE UNCHANGED vars
  <2>1. UNCHANGED <<subs, configs, queues, tasks, guard, sources>>
    BY <1>1 DEF vars, snsVars, fanoutVars
  <2> QED BY <2>1, NothingGoes
<1>2. ASSUME NEW topic \in Topics, NEW a \in Attributes, Publish(topic, a) PROVE IInv'
  BY <1>2, PublishKeeps
<1>3. ASSUME NEW e \in Events, NEW b \in Buses \cup {"default"}, PutEvents(e, b) PROVE IInv'
  BY <1>3, PutEventsKeeps
<1>4. ASSUME NEW events \in ObjectEvents, ObjectsChanged(events) PROVE IInv'
  BY <1>4, ObjectsChangedKeeps
<1>5. CASE SqsStarts \/ SqsStarted
  <2>1. UNCHANGED <<subs, configs, queues, tasks, guard, sources>>
    BY <1>5 DEF SqsStarts, SqsStarted, snsVars
  <2> QED BY <2>1, NothingGoes
<1>6. CASE Change \/ SnsRequest
  BY <1>6, ChangeKeeps, SnsRequestKeeps
<1>7. ASSUME NEW t \in DOMAIN tasks, Step(t) PROVE IInv'
  <2>1. CASE Block(t)
    <3>1. UNCHANGED <<subs, configs, queues, tasks, guard, sources>>
      BY <2>1 DEF Block, snsVars
    <3> QED BY <3>1, NothingGoes
  <2> QED BY <2>1, <1>7, YieldKeeps, EmitNotificationKeeps, SendDirectKeeps, ConfigureKeeps,
             CollectSubscriptionsKeeps, SkipDeliveryKeeps, DeliverKeeps DEF Step
<1>8. ASSUME NEW t \in DOMAIN tasks, Disconnect(t) PROVE IInv'
  BY <1>8, DisconnectKeeps
<1> QED BY <1>1, <1>2, <1>3, <1>4, <1>5, <1>6, <1>7, <1>8 DEF Next

-----------------------------------------------------------------------------
\* Whatever is published, put and notified, whichever clients disconnect, and whatever tasks,
\* workers and changes of the configuration come between: of every source, what has arrived at a
\* queue and what the tasks have still to deliver to it are together what was wanted, or less than
\* that for a publish whose client disconnected; a request never owes anything but its publish;
\* and a task that publishes holds the guard of the SNS store.
THEOREM Invariant == Spec => []IInv
<1>1. Init => IInv
  BY InitHolds
<1>2. IInv /\ [Next]_vars => IInv'
  BY NextKeeps
<1> QED BY <1>1, <1>2, PTL DEF Spec

LEMMA AccountsAreSettled ==
    ASSUME IInv
    PROVE  DeliveredOnce
<1> SUFFICES ASSUME NEW n \in DOMAIN sources, NEW q \in Queues
             PROVE  /\ Count(q, n) <= sources[n].want[q]
                    /\ Count(q, n) < sources[n].want[q] => Pending(n) \/ (sources[n].cut /\ sources[n].kind = "publish")
  BY DEF DeliveredOnce
<1>1. PICK A, C, O, want : /\ A = Cardinality(Arrived(n, q)) /\ C = Cardinality(Calls(n, q))
                           /\ O = Cardinality(Outs(n, q)) /\ want = sources[n].want[q]
  OBVIOUS
<1>2. Count(q, n) = A
  BY <1>1 DEF Count, Arrived
<1>3. /\ IsFiniteSet(Arrived(n, q)) /\ IsFiniteSet(Calls(n, q)) /\ IsFiniteSet(Outs(n, q))
      /\ AddsUp(n, A + C + O, want)
  BY <1>1 DEF IInv, Accounts, Accounted
<1>4. A \in Nat /\ C \in Nat /\ O \in Nat
  BY <1>1, <1>3, FS_CardinalityType
<1>5. A <= want
  BY <1>3, <1>4 DEF AddsUp
<1>6. ASSUME ~Pending(n), ~(sources[n].cut /\ sources[n].kind = "publish") PROVE A = want
  <2>1. \A t \in DOMAIN tasks : CallsLeft(tasks[t], n, q) = {} /\ OutsLeft(tasks[t], n, q) = {}
    BY <1>6, OwesNothing DEF Pending
  <2>2. Calls(n, q) = {} /\ Outs(n, q) = {}
    BY <2>1 DEF Calls, Outs
  <2>3. C = 0 /\ O = 0
    BY <2>2, <1>1, FS_EmptySet
  <2>4. A + C + O = want
    BY <1>3, <1>6 DEF AddsUp, IsPublish
  <2> QED BY <2>3, <2>4, <1>4
<1>7. A < want => Pending(n) \/ (sources[n].cut /\ sources[n].kind = "publish")
  BY <1>4, <1>6
<1> QED BY <1>1, <1>2, <1>5, <1>7

\* dispatch_publish_deliveries, dispatch_to_target and emit_s3_notification: nobody who is
\* concerned by a publish, an event or an object is told twice, ever, or left out once its tasks
\* are done, unless it was a publish whose client disconnected before it was through.
THEOREM Deliveries == Spec => []DeliveredOnce
<1>1. IInv => DeliveredOnce
  BY AccountsAreSettled
<1> QED BY <1>1, Invariant, PTL

\* handle_publish keeps the guard of the store to its last delivery: all queues get publishes in
\* one order, and nothing is delivered to a subscription that is gone.
THEOREM Serial == Spec => []PublishesAreSerial
<1>1. ASSUME IInv PROVE PublishesAreSerial
  <2>1. ASSUME NEW q \in Queues, NEW i \in DOMAIN queues[q], NEW j \in DOMAIN queues[q], i < j,
               sources[queues[q][i].source].kind = "publish", sources[queues[q][j].source].kind = "publish"
        PROVE  queues[q][i].source <= queues[q][j].source
    BY <1>1, <2>1 DEF IInv, QueuesInv, QueueInv, IsPublish
  <2>2. ASSUME NEW t \in DOMAIN tasks PROVE ToSet(tasks[t].out) \subseteq subs
    <3>1. CASE tasks[t].out = <<>>
      BY <3>1, EmptyIs DEF ToSet
    <3>2. CASE tasks[t].out # <<>>
      BY <3>2, <1>1 DEF IInv, TasksInv, TaskInv, PublishInv
    <3> QED BY <3>1, <3>2
  <2> QED BY <2>1, <2>2 DEF PublishesAreSerial
<1> QED BY <1>1, Invariant, PTL
=============================================================================
