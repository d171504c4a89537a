------------------------------ MODULE SqsProofs ------------------------------
(***************************************************************************)
(* For any queues, consumers and timeouts: messages are not lost, leases   *)
(* are kept, handles identify deliveries, and FIFO queues deduplicate.     *)
(***************************************************************************)
EXTENDS Sqs, FiniteSetTheorems, WellFoundedInduction, TLAPS

\* The deliveries of a message.
Of(id) == {g \in DOMAIN deliveries : deliveries[g].id = id}

\* No two messages share an id or a handle.
Distinct(s) ==
    \A i, j \in DOMAIN s : s[i].id = s[j].id \/ s[i].receipt_handle = s[j].receipt_handle => i = j

\* FirstDeliveryInOrder, for one queue.
Ordered(s) ==
    \A i, j \in DOMAIN s :
        (i < j /\ s[j].receive_count > 0 /\ ~s[i].delayed) => s[i].receive_count > 0

Handles(name) == {Live(name)[i].receipt_handle : i \in DOMAIN Live(name)}

\* A message in a queue was accepted there and is not settled; without a delay it
\* can be received until it is.
Placed(name, i) ==
    LET m == Live(name)[i]
    IN  /\ m.id \in DOMAIN accepted \ settled
        /\ accepted[m.id].queue = name /\ ~accepted[m.id].former
        /\ m.receipt_handle \in 1..(nextId - 1)
        /\ ~m.delayed /\ m.receive_count = 0 => m.visible_after = 0

\* Its deliveries are counted, its handle is the latest of them, and it is that
\* one whose lease may not have run out; the redrive policy left it there.
Leased(name, i) ==
    LET m == Live(name)[i]
        h == m.receipt_handle
    IN  /\ m.receive_count = Cardinality(Of(m.id))
        /\ h \in DOMAIN deliveries => h \in Of(m.id)
        /\ m.receive_count > 0 =>
               h \in DOMAIN deliveries /\ (deliveries[h].limit # None => m.receive_count < deliveries[h].limit)
        /\ \A g \in Of(m.id) :
               g <= h /\ (deliveries[g].until <= now \/ (g = h /\ deliveries[g].until = m.visible_after))

MessagesInv ==
    /\ \A name \in QueueNames :
           /\ Distinct(Live(name)) /\ Ordered(Live(name))
           /\ \A i \in DOMAIN Live(name) : Placed(name, i) /\ Leased(name, i)
    /\ \A n1, n2 \in QueueNames : n1 # n2 => Handles(n1) \cap Handles(n2) = {}

\* What was accepted is still there unless something was done with it.
Present ==
    \A id \in DOMAIN accepted \ (acked \cup discarded \cup redriven) :
        \E i \in DOMAIN Live(accepted[id].queue) : Live(accepted[id].queue)[i].id = id

\* A delivery is one of an accepted message, from the queue it was sent to.
DeliveriesInv ==
    \A g \in DOMAIN deliveries :
        deliveries[g].id \in DOMAIN accepted /\ deliveries[g].queue = accepted[deliveries[g].id].queue

\* A queue that has not been deleted since knows the dedup ids it accepted.
DedupInv ==
    \A id \in DOMAIN accepted : ~accepted[id].former =>
        LET a == accepted[id]
        IN  /\ queues[a.queue] # None
            /\ a.queue \in FifoNames /\ a.dedup # None => a.dedup \in queues[a.queue].dedup_ids

IInv == TypeOK /\ MessagesInv /\ Present /\ DeliveriesInv /\ DedupInv /\ FifoDeduplicates

-----------------------------------------------------------------------------
(* Numbers *)

\* Every set of numbers that is not empty has a least one.  What a recursive function gives is
\* shown with it: there is no least argument for which it gives anything else.
LEMMA LeastNat ==
    ASSUME NEW T \in SUBSET Nat, T # {}
    PROVE  \E x \in T : \A y \in T : x <= y
<1> DEFINE R == {ss \in Nat \X Nat : ss[1] < ss[2]}
<1>1. IsWellFoundedOn(R, Nat)
  BY NatLessThanWellFounded DEF OpToRel
<1>2. PICK x \in T : \A y \in T : <<y, x>> \notin R
  BY <1>1, WFMin
<1>3. ASSUME NEW y \in T PROVE x <= y
  <2>1. x \in Nat /\ y \in Nat
    OBVIOUS
  <2>2. <<y, x>> \notin R
    BY <1>2
  <2> QED BY <2>1, <2>2
<1> QED BY <1>3

\* f is what step after step makes of base.
Iterates(f, base, G, n) == f[0] = base /\ \A i \in 1..n : f[i] = G[i][f[i - 1]]

\* There is such a function, so that the recursive definitions below are of one.
LEMMA Iteration ==
    ASSUME NEW S, NEW base \in S, NEW n \in Nat, NEW G \in [1..n -> [S -> S]]
    PROVE  \E f \in [0..n -> S] : Iterates(f, base, G, n)
<1> DEFINE Fails == {m \in 0..n : ~\E f \in [0..m -> S] : Iterates(f, base, G, m)}
<1>1. CASE Fails = {}
  <2>1. n \in 0..n /\ n \notin Fails
    BY <1>1
  <2> QED BY <2>1
<1>2. CASE Fails # {}
  <2>1. PICK m \in Fails : \A y \in Fails : m <= y
    <3>1. Fails \in SUBSET Nat
      OBVIOUS
    <3> QED BY <3>1, <1>2, LeastNat
  <2>2. m \in 0..n /\ ~\E f \in [0..m -> S] : Iterates(f, base, G, m)
    BY <2>1
  <2> HIDE DEF Fails
  <2>3. m # 0
    <3>1. ASSUME m = 0 PROVE FALSE
      <4> DEFINE f == [i \in 0..0 |-> base]
      <4>1. f \in [0..0 -> S] /\ f[0] = base
        OBVIOUS
      <4>2. Iterates(f, base, G, 0)
        BY <4>1 DEF Iterates
      <4> QED BY <3>1, <2>2, <4>1, <4>2
    <3> QED BY <3>1
  <2>4. PICK f \in [0..(m - 1) -> S] : Iterates(f, base, G, m - 1)
    <3>1. m - 1 \in 0..n /\ ~(m <= m - 1)
      BY <2>2, <2>3
    <3>2. m - 1 \notin Fails
      BY <3>1, <2>1
    <3> QED BY <3>1, <3>2 DEF Fails
  <2> DEFINE g == [i \in 0..m |-> IF i = m THEN G[m][f[m - 1]] ELSE f[i]]
  <2>5. m - 1 \in 0..(m - 1) /\ m \in 1..n /\ f[m - 1] \in S
    BY <2>2, <2>3
  <2>6. G[m][f[m - 1]] \in S
    BY <2>5
  <2>7. \A i \in 0..(m - 1) : g[i] = f[i] /\ f[i] \in S
    BY <2>2, <2>3
  <2>8. g \in [0..m -> S]
    <3>1. \A i \in 0..m : i = m \/ i \in 0..(m - 1)
      BY <2>2
    <3> QED BY <3>1, <2>6, <2>7
  <2>9. g[m] = G[m][f[m - 1]]
    BY <2>2
  <2> HIDE DEF g
  <2>10. ASSUME NEW i \in 1..m PROVE g[i] = G[i][g[i - 1]]
    <3>1. i - 1 \in 0..(m - 1)
      BY <2>2
    <3>2. CASE i = m
      BY <3>2, <3>1, <2>9, <2>7
    <3>3. CASE i # m
      <4>1. i \in 1..(m - 1) /\ i \in 0..(m - 1)
        BY <3>3, <2>2
      <4> QED BY <4>1, <3>1, <2>7, <2>4 DEF Iterates
    <3> QED BY <3>2, <3>3
  <2>11. g[0] = base
    <3>1. 0 \in 0..(m - 1)
      BY <2>2, <2>3
    <3> QED BY <3>1, <2>7, <2>4 DEF Iterates
  <2>12. Iterates(g, base, G, m)
    BY <2>10, <2>11 DEF Iterates
  <2> QED BY <2>12, <2>8, <2>2
<1> QED BY <1>1, <1>2

-----------------------------------------------------------------------------
(* What is left of a queue *)

\* f finds each message of r in s, in the same order, at the places keep.
PicksBy(f, r, s, keep) ==
    /\ f \in [DOMAIN r -> keep]
    /\ \A k \in DOMAIN r : r[k] = s[f[k]]
    /\ \A k, l \in DOMAIN r : k < l => f[k] < f[l]
    /\ \A i \in keep : \E k \in DOMAIN r : f[k] = i

Picks(r, s, keep) == \E f : PicksBy(f, r, s, keep)

LEMMA PicksAppend ==
    ASSUME NEW M, NEW s \in Seq(M), NEW r \in Seq(M), NEW keep, NEW i \in DOMAIN s,
           Picks(r, s, keep), keep \subseteq 1..(i - 1)
    PROVE  Picks(Append(r, s[i]), s, keep \cup {i})
<1>1. PICK f : PicksBy(f, r, s, keep)
  BY DEF Picks
<1>2. i \in Nat \ {0} /\ DOMAIN r = 1..Len(r) /\ Len(r) \in Nat /\ DOMAIN s = 1..Len(s)
  OBVIOUS
<1> DEFINE n == Len(r)
           t == Append(r, s[i])
           g == [k \in 1..(n + 1) |-> IF k = n + 1 THEN i ELSE f[k]]
<1>3. /\ DOMAIN t = 1..(n + 1) /\ t[n + 1] = s[i]
      /\ \A k \in 1..n : t[k] = r[k]
  BY <1>2
<1>4. \A k \in 1..n : k \in 1..(n + 1) /\ g[k] = f[k] /\ f[k] \in keep /\ f[k] < i /\ f[k] \in Int
  <2>1. \A k \in 1..n : f[k] \in keep
    BY <1>1, <1>2 DEF PicksBy
  <2>2. \A j \in keep : j \in 1..(i - 1)
    OBVIOUS
  <2>3. \A j \in 1..(i - 1) : j < i /\ j \in Int
    BY <1>2
  <2>4. \A k \in 1..n : k \in 1..(n + 1) /\ k # n + 1
    BY <1>2
  <2> QED BY <2>1, <2>2, <2>3, <2>4
<1>5. g[n + 1] = i /\ n + 1 \in 1..(n + 1)
  BY <1>2
<1>6. \A k \in 1..(n + 1) : k = n + 1 \/ k \in 1..n
  BY <1>2
<1>7. g \in [1..(n + 1) -> keep \cup {i}]
  BY <1>4, <1>5, <1>6
<1> HIDE DEF g, t
<1>8. \A k \in DOMAIN t : t[k] = s[g[k]]
  BY <1>1, <1>2, <1>3, <1>4, <1>5, <1>6 DEF PicksBy
<1>9. ASSUME NEW k \in DOMAIN t, NEW l \in DOMAIN t, k < l PROVE g[k] < g[l]
  <2>1. k \in 1..n
    BY <1>9, <1>3, <1>2
  <2>2. CASE l = n + 1
    BY <2>1, <2>2, <1>4, <1>5
  <2>3. CASE l \in 1..n
    BY <2>1, <2>3, <1>9, <1>1, <1>2, <1>4 DEF PicksBy
  <2> QED BY <2>2, <2>3, <1>3, <1>6
<1>10. ASSUME NEW j \in keep \cup {i} PROVE \E k \in DOMAIN t : g[k] = j
  <2>1. CASE j = i
    BY <2>1, <1>3, <1>5
  <2>2. CASE j \in keep
    <3>1. PICK k \in DOMAIN r : f[k] = j
      BY <2>2, <1>1 DEF PicksBy
    <3> QED BY <3>1, <1>2, <1>3, <1>4
  <2> QED BY <2>1, <2>2
<1>11. PicksBy(g, t, s, keep \cup {i})
  BY <1>3, <1>7, <1>8, <1>9, <1>10 DEF PicksBy
<1> QED BY <1>11 DEF Picks, t

\* Without keeps what is not dropped, in order.
LEMMA WithoutPicks ==
    ASSUME NEW M, NEW s \in Seq(M), NEW drop
    PROVE  Without(s, drop) \in Seq(M) /\ Picks(Without(s, drop), s, DOMAIN s \ drop)
<1> DEFINE n == Len(s)
           Step(kept, i) == IF i = 0 THEN <<>>
                            ELSE IF i \in drop THEN kept[i - 1] ELSE Append(kept[i - 1], s[i])
           Is(kept) == kept = [i \in 0..n |-> Step(kept, i)]
           G == [i \in 1..n |-> [t \in Seq(M) |-> IF i \in drop THEN t ELSE Append(t, s[i])]]
<1>1. n \in Nat /\ DOMAIN s = 1..n /\ \A i \in 1..n : s[i] \in M
  OBVIOUS
<1>2. <<>> \in Seq(M) /\ G \in [1..n -> [Seq(M) -> Seq(M)]]
  <2>1. ASSUME NEW i \in 1..n, NEW t \in Seq(M)
        PROVE  (IF i \in drop THEN t ELSE Append(t, s[i])) \in Seq(M)
    BY <1>1
  <2>2. <<>> \in Seq(M)
    OBVIOUS
  <2> QED BY <2>1, <2>2
<1>3. PICK f \in [0..n -> Seq(M)] : Iterates(f, <<>>, G, n)
  <2> HIDE DEF G, n
  <2> QED BY <1>1, <1>2, Iteration
<1>4. Is(f)
  <2>1. ASSUME NEW i \in 0..n PROVE f[i] = Step(f, i)
    <3>1. CASE i = 0
      BY <3>1, <1>3 DEF Iterates
    <3>2. CASE i # 0
      <4>1. i \in 1..n /\ i - 1 \in 0..n
        BY <3>2, <1>1
      <4>2. f[i] = G[i][f[i - 1]] /\ f[i - 1] \in Seq(M)
        BY <4>1, <1>3 DEF Iterates
      <4>3. G[i][f[i - 1]] = IF i \in drop THEN f[i - 1] ELSE Append(f[i - 1], s[i])
        BY <4>1, <4>2
      <4> QED BY <3>2, <4>2, <4>3
    <3> QED BY <3>1, <3>2
  <2>2. f = [i \in 0..n |-> f[i]]
    BY <1>3
  <2> QED BY <2>1, <2>2
<1> DEFINE kept == CHOOSE k : Is(k)
<1>5. Is(kept)
  BY <1>4
<1>6. Without(s, drop) = kept[n]
  BY DEF Without
<1>7. \A i \in 0..n : kept[i] = Step(kept, i)
  BY <1>5
<1> HIDE DEF kept, Step, Is
<1> DEFINE Wrong == {i \in 0..n : ~(kept[i] \in Seq(M) /\ Picks(kept[i], s, (1..i) \ drop))}
<1>8. Wrong = {}
  <2> SUFFICES ASSUME Wrong # {} PROVE FALSE
    OBVIOUS
  <2>1. PICK i \in Wrong : \A y \in Wrong : i <= y
    <3>1. Wrong \in SUBSET Nat
      BY <1>1
    <3> HIDE DEF Wrong
    <3> QED BY <3>1, LeastNat
  <2>2. i \in 0..n
    OBVIOUS
  <2>3. CASE i = 0
    <3>1. kept[i] = <<>>
      BY <2>2, <2>3, <1>7 DEF Step
    <3>2. PicksBy(<<>>, <<>>, s, {})
      BY DEF PicksBy
    <3>3. (1..i) \ drop = {}
      BY <2>3
    <3> QED BY <3>1, <3>2, <3>3, <1>2 DEF Picks
  <2>4. CASE i # 0
    <3>1. i - 1 \in 0..n /\ ~(i <= i - 1) /\ i \in 1..n
      BY <2>2, <2>4, <1>1
    <3>2. kept[i - 1] \in Seq(M) /\ Picks(kept[i - 1], s, (1..(i - 1)) \ drop)
      BY <3>1, <2>1
    <3>3. kept[i] = IF i \in drop THEN kept[i - 1] ELSE Append(kept[i - 1], s[i])
      BY <2>2, <2>4, <1>7 DEF Step
    <3>4. CASE i \in drop
      <4>1. (1..i) \ drop = (1..(i - 1)) \ drop
        BY <3>1, <3>4, <1>1
      <4> QED BY <4>1, <3>2, <3>3, <3>4
    <3>5. CASE i \notin drop
      <4>1. (1..i) \ drop = ((1..(i - 1)) \ drop) \cup {i}
        BY <3>1, <3>5, <1>1
      <4>2. Picks(Append(kept[i - 1], s[i]), s, ((1..(i - 1)) \ drop) \cup {i})
        BY <3>1, <3>2, <1>1, PicksAppend
      <4>3. kept[i] \in Seq(M)
        BY <3>1, <3>2, <3>3, <3>5, <1>1
      <4> QED BY <4>1, <4>2, <4>3, <3>3, <3>5
    <3> QED BY <3>4, <3>5
  <2> QED BY <2>3, <2>4
<1>9. n \in 0..n
  BY <1>1
<1> QED BY <1>1, <1>6, <1>8, <1>9

\* Places keep their order, so that what holds of any two messages of s holds of those of r.
LEMMA PicksKeeps ==
    ASSUME NEW M, NEW s \in Seq(M), NEW r \in Seq(M), NEW keep, Picks(r, s, keep), keep \subseteq DOMAIN s
    PROVE  /\ Distinct(s) => Distinct(r)
           /\ Ordered(s) => Ordered(r)
           /\ \A k \in DOMAIN r : \E i \in keep : r[k] = s[i]
           /\ \A i \in keep : \E k \in DOMAIN r : r[k] = s[i]
<1>1. PICK f : PicksBy(f, r, s, keep)
  BY DEF Picks
<1>2. DOMAIN r \subseteq Int /\ DOMAIN s \subseteq Int
  OBVIOUS
<1>3. \A k \in DOMAIN r : f[k] \in keep /\ f[k] \in DOMAIN s /\ r[k] = s[f[k]]
  BY <1>1 DEF PicksBy
<1>4. \A k, l \in DOMAIN r : k < l => f[k] < f[l]
  BY <1>1 DEF PicksBy
<1>5. \A k, l \in DOMAIN r : f[k] = f[l] => k = l
  <2>1. \A k, l \in DOMAIN r : k < l \/ l < k \/ k = l
    BY <1>2
  <2>2. \A k, l \in DOMAIN r : f[k] < f[l] => f[k] # f[l]
    BY <1>2, <1>3
  <2> QED BY <2>1, <2>2, <1>4
<1>6. Distinct(s) => Distinct(r)
  BY <1>3, <1>5 DEF Distinct
<1>7. Ordered(s) => Ordered(r)
  <2> SUFFICES ASSUME Ordered(s), NEW k \in DOMAIN r, NEW l \in DOMAIN r,
                      k < l, r[l].receive_count > 0, ~r[k].delayed
               PROVE  r[k].receive_count > 0
    BY DEF Ordered
  <2>1. f[k] < f[l] /\ f[k] \in DOMAIN s /\ f[l] \in DOMAIN s /\ r[k] = s[f[k]] /\ r[l] = s[f[l]]
    BY <1>3, <1>4
  <2> QED BY <2>1 DEF Ordered
<1>8. \A i \in keep : \E k \in DOMAIN r : r[k] = s[i]
  BY <1>1 DEF PicksBy
<1> QED BY <1>3, <1>6, <1>7, <1>8

LEMMA PicksAll ==
    ASSUME NEW M, NEW s \in Seq(M)
    PROVE  Picks(s, s, DOMAIN s)
<1> DEFINE f == [i \in DOMAIN s |-> i]
<1>1. PicksBy(f, s, s, DOMAIN s)
  BY DEF PicksBy
<1> QED BY <1>1 DEF Picks

LEMMA PicksNone ==
    ASSUME NEW s
    PROVE  Picks(<<>>, s, {})
<1>1. PicksBy(<<>>, <<>>, s, {})
  BY DEF PicksBy
<1> QED BY <1>1 DEF Picks

\* The places of the messages whose handle is not among these.
Outside(s, H) == {i \in DOMAIN s : s[i].receipt_handle \notin H}

LEMMA PicksTwice ==
    ASSUME NEW M, NEW s \in Seq(M), NEW r \in Seq(M), NEW t \in Seq(M), NEW H, NEW h,
           Picks(r, s, Outside(s, H)), Picks(t, r, Outside(r, {h}))
    PROVE  Picks(t, s, Outside(s, H \cup {h}))
<1>1. PICK f : PicksBy(f, r, s, Outside(s, H))
  BY DEF Picks
<1>2. PICK g : PicksBy(g, t, r, Outside(r, {h}))
  BY DEF Picks
<1> DEFINE c == [k \in DOMAIN t |-> f[g[k]]]
<1>3. \A k \in DOMAIN r : f[k] \in Outside(s, H) /\ r[k] = s[f[k]]
  BY <1>1 DEF PicksBy
<1>4. \A k \in DOMAIN t : g[k] \in Outside(r, {h}) /\ t[k] = r[g[k]]
  BY <1>2 DEF PicksBy
<1>5. \A k \in DOMAIN t : c[k] \in Outside(s, H \cup {h}) /\ t[k] = s[c[k]]
  BY <1>3, <1>4 DEF Outside
<1>6. \A k, l \in DOMAIN t : k < l => c[k] < c[l]
  <2>1. \A k \in DOMAIN t : g[k] \in DOMAIN r
    BY <1>4 DEF Outside
  <2>2. \A k, l \in DOMAIN t : k < l => g[k] < g[l]
    BY <1>2 DEF PicksBy
  <2>3. \A k, l \in DOMAIN r : k < l => f[k] < f[l]
    BY <1>1 DEF PicksBy
  <2> QED BY <2>1, <2>2, <2>3
<1>7. ASSUME NEW i \in Outside(s, H \cup {h}) PROVE \E k \in DOMAIN t : c[k] = i
  <2>1. PICK l \in DOMAIN r : f[l] = i
    <3>1. i \in Outside(s, H)
      BY DEF Outside
    <3> QED BY <3>1, <1>1 DEF PicksBy
  <2>2. l \in Outside(r, {h})
    <3>1. r[l] = s[i]
      BY <2>1, <1>3
    <3> QED BY <3>1 DEF Outside
  <2>3. PICK k \in DOMAIN t : g[k] = l
    BY <2>2, <1>2 DEF PicksBy
  <2> QED BY <2>1, <2>3
<1>8. c \in [DOMAIN t -> Outside(s, H \cup {h})]
  BY <1>5
<1> HIDE DEF c
<1>9. PicksBy(c, t, s, Outside(s, H \cup {h}))
  BY <1>5, <1>6, <1>7, <1>8 DEF PicksBy
<1> QED BY <1>9 DEF Picks

-----------------------------------------------------------------------------
(* Queues *)

\* The fields of a message and of a queue have their types.
LEMMA MessageTypes ==
    ASSUME NEW m \in MessageRecords
    PROVE  /\ m.id \in Nat /\ m.receipt_handle \in Nat /\ m.visible_after \in Nat /\ m.receive_count \in Nat
           /\ m.dedup \in DedupIds \cup {None} /\ m.delayed \in BOOLEAN /\ m.sequence_number \in Nat
  BY DEF MessageRecords

LEMMA QueueTypes ==
    ASSUME NEW q \in QueueRecords
    PROVE  /\ q.visibility_timeout \in Nat /\ q.delay_seconds \in Nat /\ q.max_receive_count \in Nat \cup {None}
           /\ q.messages \in Seq(MessageRecords) /\ q.sequence_counter \in Nat /\ q.dedup_ids \in SUBSET DedupIds
  BY DEF QueueRecords

\* Other messages in the same queue.
Holding(q, s) == [q EXCEPT !.messages = s]

LEMMA HoldingTypes ==
    ASSUME NEW q \in QueueRecords, NEW s \in Seq(MessageRecords)
    PROVE  /\ Holding(q, s) \in QueueRecords /\ Holding(q, s).messages = s
           /\ Holding(q, s).dedup_ids = q.dedup_ids /\ Holding(q, s).max_receive_count = q.max_receive_count
           /\ Holding(q, s).visibility_timeout = q.visibility_timeout
           /\ \A r \in Seq(MessageRecords) : Holding(Holding(q, s), r) = Holding(q, r)
  BY DEF QueueRecords, Holding

LEMMA HoldingItsOwn ==
    ASSUME NEW q \in QueueRecords
    PROVE  Holding(q, q.messages) = q
  BY DEF QueueRecords, Holding

\* The least of a set of places.
LEMMA FirstPlace ==
    ASSUME NEW hits \in SUBSET Nat, hits # {}
    PROVE  (CHOOSE i \in hits : \A j \in hits : i <= j) \in hits
  BY LeastNat

\* A delete removes the message that has the handle, if there is one.
LEMMA OneDeleted ==
    ASSUME NEW q \in QueueRecords, Distinct(q.messages), NEW h
    PROVE  \E r \in Seq(MessageRecords) :
               DeleteMessage(q, h) = Holding(q, r) /\ Picks(r, q.messages, Outside(q.messages, {h}))
<1> DEFINE s == q.messages
           hits == {i \in DOMAIN s : s[i].receipt_handle = h}
           first == CHOOSE i \in hits : \A j \in hits : i <= j
<1>1. s \in Seq(MessageRecords) /\ DOMAIN s \subseteq Nat
  BY QueueTypes
<1>2. CASE hits = {}
  <2>1. DeleteMessage(q, h) = q
    BY <1>2 DEF DeleteMessage
  <2>2. Outside(s, {h}) = DOMAIN s
    BY <1>2 DEF Outside
  <2>3. Picks(s, s, Outside(s, {h}))
    BY <2>2, <1>1, PicksAll
  <2> QED BY <1>1, <2>1, <2>3, HoldingItsOwn
<1>3. CASE hits # {}
  <2>1. first \in hits
    <3>1. hits \in SUBSET Nat
      BY <1>1
    <3> HIDE DEF hits
    <3> QED BY <1>3, <3>1, FirstPlace
  <2>2. DeleteMessage(q, h) = Holding(q, Without(s, {first}))
    BY <1>3 DEF DeleteMessage, Holding
  <2>3. DOMAIN s \ {first} = Outside(s, {h})
    <3> HIDE DEF first
    <3> QED BY <2>1 DEF Outside, Distinct
  <2>4. Without(s, {first}) \in Seq(MessageRecords) /\ Picks(Without(s, {first}), s, DOMAIN s \ {first})
    <3> HIDE DEF first, s
    <3> QED BY <1>1, WithoutPicks
  <2> HIDE DEF first, hits
  <2> QED BY <2>2, <2>3, <2>4
<1> QED BY <1>2, <1>3

\* The handles of the first entries of a batch.
UpTo(handles, n) == {handles[i] : i \in 1..n}

LEMMA UpToNext ==
    ASSUME NEW handles, NEW n \in Nat
    PROVE  UpTo(handles, n + 1) = UpTo(handles, n) \cup {handles[n + 1]}
<1>1. 1..(n + 1) = (1..n) \cup {n + 1}
  OBVIOUS
<1> QED BY <1>1 DEF UpTo

\* Entries by entries, what is left is what has none of the handles.
LEMMA AllDeletedPicks ==
    ASSUME NEW q \in QueueRecords, Distinct(q.messages), NEW V, NEW handles \in Seq(V)
    PROVE  \E r \in Seq(MessageRecords) :
               /\ AllDeleted(q, handles) = Holding(q, r)
               /\ Picks(r, q.messages, Outside(q.messages, UpTo(handles, Len(handles))))
<1> DEFINE n == Len(handles)
           s == q.messages
           Step(after, i) == IF i = 0 THEN q ELSE DeleteMessage(after[i - 1], handles[i])
           Is(after) == after = [i \in 0..n |-> Step(after, i)]
           S == {p \in QueueRecords : Distinct(p.messages)}
           G == [i \in 1..n |-> [p \in S |-> DeleteMessage(p, handles[i])]]
<1>1. n \in Nat /\ s \in Seq(MessageRecords) /\ q \in S
  BY QueueTypes
<1>2. ASSUME NEW p \in S, NEW h PROVE DeleteMessage(p, h) \in S
  <2>1. p.messages \in Seq(MessageRecords) /\ Distinct(p.messages)
    BY QueueTypes
  <2>2. PICK r \in Seq(MessageRecords) :
               DeleteMessage(p, h) = Holding(p, r) /\ Picks(r, p.messages, Outside(p.messages, {h}))
    BY OneDeleted
  <2>3. Distinct(r)
    <3>1. Outside(p.messages, {h}) \subseteq DOMAIN p.messages
      BY DEF Outside
    <3>2. Picks(r, p.messages, Outside(p.messages, {h}))
      BY <2>2
    <3>3. Distinct(p.messages) => Distinct(r)
      <4> HIDE DEF S, G, n, s
      <4> QED BY ONLY <2>1, <3>1, <3>2, PicksKeeps
    <3> QED BY <2>1, <3>3
  <2> QED BY <2>2, <2>3, HoldingTypes
<1>3. G \in [1..n -> [S -> S]]
  BY <1>2
<1>4. PICK f \in [0..n -> S] : Iterates(f, q, G, n)
  <2> HIDE DEF G, n, S
  <2> QED BY <1>1, <1>3, Iteration
<1>5. Is(f)
  <2>1. ASSUME NEW i \in 0..n PROVE f[i] = Step(f, i)
    <3>1. CASE i = 0
      BY <3>1, <1>4 DEF Iterates
    <3>2. CASE i # 0
      <4>1. i \in 1..n /\ i - 1 \in 0..n
        BY <3>2, <1>1
      <4>2. f[i] = G[i][f[i - 1]] /\ f[i - 1] \in S
        <5> HIDE DEF S, G
        <5> QED BY <4>1, <1>4 DEF Iterates
      <4>3. G[i][f[i - 1]] = DeleteMessage(f[i - 1], handles[i])
        <5> HIDE DEF S
        <5> QED BY <4>1, <4>2
      <4> QED BY <3>2, <4>2, <4>3
    <3> QED BY <3>1, <3>2
  <2>2. f = [i \in 0..n |-> f[i]]
    BY <1>4
  <2> QED BY <2>1, <2>2
<1> DEFINE after == CHOOSE a : Is(a)
<1>6. Is(after)
  BY <1>5
<1>7. AllDeleted(q, handles) = after[n]
  BY DEF AllDeleted
<1>8. \A i \in 0..n : after[i] = Step(after, i)
  BY <1>6
<1> HIDE DEF after, Is, S, G
<1> DEFINE Right(p, i) == \E r \in Seq(MessageRecords) :
               p = Holding(q, r) /\ Picks(r, s, Outside(s, UpTo(handles, i)))
           Wrong == {i \in 0..n : ~Right(after[i], i)}
<1>9. Wrong = {}
  <2> SUFFICES ASSUME Wrong # {} PROVE FALSE
    OBVIOUS
  <2>1. PICK i \in Wrong : \A y \in Wrong : i <= y
    <3>1. Wrong \in SUBSET Nat
      BY <1>1
    <3> HIDE DEF Wrong
    <3> QED BY <3>1, LeastNat
  <2>2. i \in 0..n /\ ~Right(after[i], i)
    OBVIOUS
  <2>3. CASE i = 0
    <3>1. after[i] = q
      BY <2>2, <2>3, <1>8
    <3>2. Outside(s, UpTo(handles, i)) = DOMAIN s
      BY <2>3 DEF Outside, UpTo
    <3>3. Picks(s, s, Outside(s, UpTo(handles, i)))
      BY <3>2, <1>1, PicksAll
    <3> QED BY <2>2, <3>1, <3>3, <1>1, HoldingItsOwn
  <2>4. CASE i # 0
    <3>1. i - 1 \in 0..n /\ ~(i <= i - 1) /\ i - 1 \in Nat /\ (i - 1) + 1 = i
      BY <2>2, <2>4, <1>1
    <3>2. PICK r \in Seq(MessageRecords) :
                 after[i - 1] = Holding(q, r) /\ Picks(r, s, Outside(s, UpTo(handles, i - 1)))
      <4>1. i - 1 \notin Wrong
        BY <3>1, <2>1
      <4> QED BY <4>1, <3>1
    <3> DEFINE p == Holding(q, r)
    <3>3. p \in QueueRecords /\ p.messages = r /\ \A t \in Seq(MessageRecords) : Holding(p, t) = Holding(q, t)
      BY HoldingTypes
    <3>4. Distinct(r)
      <4>1. Outside(s, UpTo(handles, i - 1)) \subseteq DOMAIN s
        BY DEF Outside
      <4> QED BY <1>1, <3>2, <4>1, PicksKeeps
    <3> HIDE DEF p
    <3>5. PICK t \in Seq(MessageRecords) :
                 DeleteMessage(p, handles[i]) = Holding(p, t) /\ Picks(t, r, Outside(r, {handles[i]}))
      BY <3>3, <3>4, OneDeleted
    <3>6. after[i] = Holding(q, t)
      BY <2>2, <2>4, <1>8, <3>2, <3>3, <3>5 DEF p
    <3>7. UpTo(handles, i) = UpTo(handles, i - 1) \cup {handles[i]}
      BY <3>1, UpToNext
    <3>8. Picks(t, s, Outside(s, UpTo(handles, i)))
      BY <1>1, <3>2, <3>5, <3>7, PicksTwice
    <3> QED BY <2>2, <3>6, <3>8
  <2> QED BY <2>3, <2>4
<1>10. n \in 0..n
  BY <1>1
<1>11. Right(after[n], n)
  BY <1>9, <1>10
<1> QED BY <1>7, <1>11

\* The messages with these handles get another deadline.
Redated(m, v) == [m EXCEPT !.visible_after = v]
Changed(s, H, v) == [i \in DOMAIN s |-> IF s[i].receipt_handle \in H THEN Redated(s[i], v) ELSE s[i]]

LEMMA RedatedTypes ==
    ASSUME NEW m \in MessageRecords, NEW v \in Nat
    PROVE  /\ Redated(m, v) \in MessageRecords /\ Redated(m, v).visible_after = v
           /\ Redated(m, v).id = m.id /\ Redated(m, v).receipt_handle = m.receipt_handle
           /\ Redated(m, v).receive_count = m.receive_count /\ Redated(m, v).delayed = m.delayed
           /\ Redated(Redated(m, v), v) = Redated(m, v)
  BY DEF MessageRecords, Redated

LEMMA ChangedTypes ==
    ASSUME NEW s \in Seq(MessageRecords), NEW H, NEW v \in Nat
    PROVE  /\ Changed(s, H, v) \in Seq(MessageRecords) /\ DOMAIN Changed(s, H, v) = DOMAIN s
           /\ \A i \in DOMAIN s :
                  /\ Changed(s, H, v)[i].id = s[i].id
                  /\ Changed(s, H, v)[i].receipt_handle = s[i].receipt_handle
                  /\ Changed(s, H, v)[i].receive_count = s[i].receive_count
                  /\ Changed(s, H, v)[i].delayed = s[i].delayed
                  /\ Changed(s, H, v)[i].visible_after = IF s[i].receipt_handle \in H THEN v ELSE s[i].visible_after
           /\ Distinct(s) => Distinct(Changed(s, H, v))
           /\ Ordered(s) => Ordered(Changed(s, H, v))
<1> DEFINE t == Changed(s, H, v)
<1>1. DOMAIN s = 1..Len(s) /\ Len(s) \in Nat /\ \A i \in DOMAIN s : s[i] \in MessageRecords
  OBVIOUS
<1>2. DOMAIN t = DOMAIN s /\ \A i \in DOMAIN s : t[i] = IF s[i].receipt_handle \in H THEN Redated(s[i], v) ELSE s[i]
  BY DEF Changed
<1> HIDE DEF t
<1>3. ASSUME NEW i \in DOMAIN s
      PROVE  /\ t[i] \in MessageRecords /\ t[i].id = s[i].id /\ t[i].receipt_handle = s[i].receipt_handle
             /\ t[i].receive_count = s[i].receive_count /\ t[i].delayed = s[i].delayed
             /\ t[i].visible_after = IF s[i].receipt_handle \in H THEN v ELSE s[i].visible_after
  <2>1. s[i] \in MessageRecords
    BY <1>1
  <2>2. /\ Redated(s[i], v) \in MessageRecords /\ Redated(s[i], v).visible_after = v
        /\ Redated(s[i], v).id = s[i].id /\ Redated(s[i], v).receipt_handle = s[i].receipt_handle
        /\ Redated(s[i], v).receive_count = s[i].receive_count /\ Redated(s[i], v).delayed = s[i].delayed
    BY <2>1, RedatedTypes
  <2> QED BY <2>1, <2>2, <1>2
<1>4. t \in Seq(MessageRecords)
  <2>1. t = [i \in 1..Len(s) |-> t[i]]
    BY <1>1, <1>2 DEF t, Changed
  <2> QED BY <2>1, <1>1, <1>3
<1>5. Distinct(s) => Distinct(t)
  BY <1>2, <1>3 DEF Distinct
<1>6. Ordered(s) => Ordered(t)
  BY <1>2, <1>3 DEF Ordered
<1> QED BY <1>2, <1>3, <1>4, <1>5, <1>6 DEF t

LEMMA ChangedTwice ==
    ASSUME NEW s \in Seq(MessageRecords), NEW H, NEW K, NEW v \in Nat
    PROVE  Changed(Changed(s, H, v), K, v) = Changed(s, H \cup K, v)
<1>1. \A i \in DOMAIN s : s[i] \in MessageRecords
  OBVIOUS
<1> DEFINE t == Changed(s, H, v)
<1>2. DOMAIN t = DOMAIN s /\ \A i \in DOMAIN s : t[i].receipt_handle = s[i].receipt_handle
  BY ChangedTypes
<1>3. \A i \in DOMAIN s : t[i] = IF s[i].receipt_handle \in H THEN Redated(s[i], v) ELSE s[i]
  BY DEF Changed
<1>4. \A i \in DOMAIN s : Redated(Redated(s[i], v), v) = Redated(s[i], v)
  BY <1>1, RedatedTypes
<1> HIDE DEF t
<1>5. ASSUME NEW i \in DOMAIN s
      PROVE  (IF t[i].receipt_handle \in K THEN Redated(t[i], v) ELSE t[i])
             = (IF s[i].receipt_handle \in H \cup K THEN Redated(s[i], v) ELSE s[i])
  <2>1. CASE s[i].receipt_handle \in K
    BY <2>1, <1>2, <1>3, <1>4
  <2>2. CASE s[i].receipt_handle \notin K
    BY <2>2, <1>2, <1>3
  <2> QED BY <2>1, <2>2
<1> QED BY <1>2, <1>5 DEF Changed, t

\* A change of visibility redates the message that has the handle, if there is one.
LEMMA OneChanged ==
    ASSUME NEW q \in QueueRecords, Distinct(q.messages), NEW h, NEW v \in Nat, NEW timeout,
           VisibleAfter(timeout) = v
    PROVE  ChangeVisibility(q, h, timeout) = Holding(q, Changed(q.messages, {h}, v))
<1> DEFINE s == q.messages
           hits == {i \in DOMAIN s : s[i].receipt_handle = h}
           first == CHOOSE i \in hits : \A j \in hits : i <= j
<1>1. s \in Seq(MessageRecords) /\ DOMAIN s \subseteq Nat
  BY QueueTypes
<1>2. CASE hits = {}
  <2>1. ChangeVisibility(q, h, timeout) = q
    BY <1>2 DEF ChangeVisibility
  <2>2. Changed(s, {h}, v) = [i \in DOMAIN s |-> s[i]]
    BY <1>2 DEF Changed
  <2>3. [i \in DOMAIN s |-> s[i]] = s
    BY <1>1
  <2> QED BY <2>1, <2>2, <2>3, HoldingItsOwn
<1>3. CASE hits # {}
  <2>1. first \in hits
    <3>1. hits \in SUBSET Nat
      BY <1>1
    <3> HIDE DEF hits
    <3> QED BY <1>3, <3>1, FirstPlace
  <2>2. ChangeVisibility(q, h, timeout) = Holding(q, [s EXCEPT ![first].visible_after = v])
    BY <1>3 DEF ChangeVisibility, Holding
  <2> HIDE DEF first
  <2>3. \A i \in DOMAIN s : s[i].receipt_handle \in {h} <=> i = first
    BY <2>1 DEF Distinct
  <2>4. [s EXCEPT ![first].visible_after = v] = [i \in DOMAIN s |-> IF i = first THEN Redated(s[i], v) ELSE s[i]]
    BY DEF Redated
  <2>5. Changed(s, {h}, v) = [i \in DOMAIN s |-> IF i = first THEN Redated(s[i], v) ELSE s[i]]
    BY <2>3 DEF Changed
  <2> QED BY <2>2, <2>4, <2>5
<1> QED BY <1>2, <1>3

LEMMA AllChangedIs ==
    ASSUME NEW q \in QueueRecords, Distinct(q.messages), NEW V, NEW handles \in Seq(V),
           NEW v \in Nat, NEW timeout, VisibleAfter(timeout) = v
    PROVE  AllChanged(q, handles, timeout) = Holding(q, Changed(q.messages, UpTo(handles, Len(handles)), v))
<1> DEFINE n == Len(handles)
           s == q.messages
           Step(after, i) == IF i = 0 THEN q ELSE ChangeVisibility(after[i - 1], handles[i], timeout)
           Is(after) == after = [i \in 0..n |-> Step(after, i)]
           f == [i \in 0..n |-> Holding(q, Changed(s, UpTo(handles, i), v))]
<1>1. n \in Nat /\ s \in Seq(MessageRecords)
  BY QueueTypes
<1>2. ASSUME NEW i \in 0..n PROVE f[i] = Step(f, i)
  <2>1. CASE i = 0
    <3>1. UpTo(handles, i) = {}
      BY <2>1 DEF UpTo
    <3>2. Changed(s, {}, v) = [k \in DOMAIN s |-> s[k]]
      BY DEF Changed
    <3>3. [k \in DOMAIN s |-> s[k]] = s
      BY <1>1
    <3> QED BY <2>1, <3>1, <3>2, <3>3, HoldingItsOwn
  <2>2. CASE i # 0
    <3>1. i - 1 \in 0..n /\ i - 1 \in Nat /\ (i - 1) + 1 = i
      BY <2>2, <1>1
    <3> DEFINE t == Changed(s, UpTo(handles, i - 1), v)
               p == Holding(q, t)
    <3>2. t \in Seq(MessageRecords) /\ Distinct(t)
      BY <1>1, ChangedTypes
    <3>3. f[i - 1] = p
      BY <3>1
    <3>4. p \in QueueRecords /\ p.messages = t /\ \A r \in Seq(MessageRecords) : Holding(p, r) = Holding(q, r)
      <4> HIDE DEF t
      <4> QED BY <3>2, HoldingTypes
    <3>5. Changed(t, {handles[i]}, v) = Changed(s, UpTo(handles, i), v)
      <4>1. UpTo(handles, i) = UpTo(handles, i - 1) \cup {handles[i]}
        BY <3>1, UpToNext
      <4>2. Changed(Changed(s, UpTo(handles, i - 1), v), {handles[i]}, v)
            = Changed(s, UpTo(handles, i - 1) \cup {handles[i]}, v)
        <5> HIDE DEF s, n, f
        <5> QED BY <1>1, ChangedTwice
      <4> QED BY <4>1, <4>2
    <3>6. Changed(t, {handles[i]}, v) \in Seq(MessageRecords)
      <4> HIDE DEF t
      <4> QED BY <3>2, ChangedTypes
    <3> HIDE DEF p, t, f
    <3>7. ChangeVisibility(p, handles[i], timeout) = Holding(p, Changed(t, {handles[i]}, v))
      BY <3>2, <3>4, OneChanged
    <3>8. f[i] = Holding(q, Changed(s, UpTo(handles, i), v))
      BY DEF f
    <3> QED BY <2>2, <3>3, <3>4, <3>5, <3>6, <3>7, <3>8
  <2> QED BY <2>1, <2>2
<1>3. Is(f)
  BY <1>2
<1> DEFINE after == CHOOSE a : Is(a)
<1>4. Is(after)
  <2> HIDE DEF f, Is
  <2> QED BY <1>3
<1>5. AllChanged(q, handles, timeout) = after[n]
  BY DEF AllChanged
<1>6. \A i \in 0..n : after[i] = Step(after, i)
  BY <1>4
<1> HIDE DEF after, Is
<1> DEFINE Wrong == {i \in 0..n : after[i] # f[i]}
<1>7. Wrong = {}
  <2> SUFFICES ASSUME Wrong # {} PROVE FALSE
    OBVIOUS
  <2>1. PICK i \in Wrong : \A y \in Wrong : i <= y
    <3>1. Wrong \in SUBSET Nat
      BY <1>1
    <3> HIDE DEF Wrong
    <3> QED BY <3>1, LeastNat
  <2>2. i \in 0..n /\ after[i] # f[i]
    OBVIOUS
  <2>3. after[i] = Step(after, i) /\ f[i] = Step(f, i)
    BY <2>2, <1>2, <1>6
  <2> HIDE DEF f
  <2>4. i # 0
    BY <2>2, <2>3
  <2>5. i - 1 \in 0..n /\ ~(i <= i - 1)
    BY <2>2, <2>4, <1>1
  <2>6. after[i - 1] = f[i - 1]
    BY <2>5, <2>1
  <2> QED BY <2>2, <2>3, <2>4, <2>6
<1>8. n \in 0..n
  BY <1>1
<1>9. f[n] = Holding(q, Changed(s, UpTo(handles, n), v))
  BY <1>8
<1> HIDE DEF f
<1> QED BY <1>5, <1>7, <1>8, <1>9

-----------------------------------------------------------------------------
(* Sending *)

LEMMA VisibleAfterTypes ==
    ASSUME NEW n \in Nat, now \in Nat
    PROVE  VisibleAfter(n) \in Nat /\ (n = 0 => VisibleAfter(n) = 0)
  BY DEF VisibleAfter

\* A message is added at the end, as sent but not received.
Appended(r, q, id, dedup) ==
    /\ r \in QueueRecords
    /\ r.dedup_ids = IF dedup = None THEN q.dedup_ids ELSE q.dedup_ids \cup {dedup}
    /\ \E m \in MessageRecords :
           /\ r.messages = Append(q.messages, m)
           /\ m.id = id /\ m.receipt_handle = id + 1 /\ m.receive_count = 0
           /\ ~m.delayed => m.visible_after = 0

LEMMA MessageSent ==
    ASSUME NEW name, NEW q \in QueueRecords, NEW id \in Nat, NEW delay \in Delays \cup {None},
           NEW dedup \in DedupIds \cup {None}, now \in Nat, ~IsDuplicate(name, q, dedup),
           NEW r, r = SendMessage(name, q, id, delay, dedup)
    PROVE  Appended(r, q, id, dedup)
<1> DEFINE d == IF delay = None THEN q.delay_seconds ELSE delay
           m == [id |-> id, receipt_handle |-> id + 1, visible_after |-> VisibleAfter(d), receive_count |-> 0,
                 dedup |-> dedup, delayed |-> d > 0, sequence_number |-> q.sequence_counter + 1]
           ids == IF dedup = None THEN q.dedup_ids ELSE q.dedup_ids \cup {dedup}
           n == q.sequence_counter + 1
           s == Append(q.messages, m)
<1>1. r = [q EXCEPT !.sequence_counter = n, !.dedup_ids = ids, !.messages = s]
  BY DEF SendMessage
<1>2. d \in Nat
  BY QueueTypes, SqsAssumption
<1>3. VisibleAfter(d) \in Nat /\ (~(d > 0) => VisibleAfter(d) = 0)
  BY <1>2 DEF VisibleAfter
<1>4. m \in MessageRecords
  <2> HIDE DEF d
  <2>1. n \in Nat
    BY QueueTypes
  <2> QED BY <2>1, <1>2, <1>3 DEF MessageRecords
<1>5. /\ m.id = id /\ m.receipt_handle = id + 1 /\ m.receive_count = 0
      /\ ~m.delayed => m.visible_after = 0
  <2> HIDE DEF d
  <2> QED BY <1>3
<1> HIDE DEF m
<1>6. n \in Nat /\ ids \in SUBSET DedupIds /\ s \in Seq(MessageRecords)
  BY <1>4, QueueTypes
<1> HIDE DEF n, ids
<1>7. r \in QueueRecords /\ r.dedup_ids = ids /\ r.messages = s
  <2> HIDE DEF s
  <2> QED BY <1>1, <1>6 DEF QueueRecords
<1>8. \E x \in MessageRecords :
          /\ r.messages = Append(q.messages, x)
          /\ x.id = id /\ x.receipt_handle = id + 1 /\ x.receive_count = 0
          /\ ~x.delayed => x.visible_after = 0
  BY <1>4, <1>5, <1>7
<1> QED BY <1>7, <1>8 DEF ids, Appended

\* A client's entry as the handlers parse it, and what they pass along.
PartialAccepted == UNION {[D -> AcceptedRecords] : D \in SUBSET Nat}
SendRecords == [q : QueueRecords, next : Nat, accepted : PartialAccepted]

LEMMA PartialTypes ==
    ASSUME NEW a
    PROVE  a \in PartialAccepted <=> a \in [DOMAIN a -> AcceptedRecords] /\ DOMAIN a \subseteq Nat
  BY DEF PartialAccepted

LEMMA SendTypes ==
    ASSUME NEW at \in SendRecords
    PROVE  at.q \in QueueRecords /\ at.next \in Nat /\ at.accepted \in PartialAccepted
  BY DEF SendRecords

\* Sending adds messages: at the end of the queue, with ids and handles the counter had not given
\* before, and under dedup ids the queue had not seen.
SentPlaces(name, at) ==
    LET s == Live(name)
        t == at.q.messages
    IN  /\ Len(s) <= Len(t)
        /\ \A i \in DOMAIN s : t[i] = s[i]
        /\ \A i \in DOMAIN t \ DOMAIN s :
               /\ t[i].id \in DOMAIN at.accepted \ DOMAIN accepted
               /\ nextId <= t[i].receipt_handle
               /\ t[i].receive_count = 0
               /\ ~t[i].delayed => t[i].visible_after = 0
        /\ \A i \in DOMAIN t : t[i].id < at.next /\ t[i].receipt_handle < at.next
        /\ Distinct(t)

SentAccepted(name, at) ==
    /\ nextId <= at.next
    /\ DOMAIN accepted \subseteq DOMAIN at.accepted /\ DOMAIN at.accepted \subseteq 1..(at.next - 1)
    /\ \A id \in DOMAIN accepted : at.accepted[id] = accepted[id]
    /\ \A id \in DOMAIN at.accepted \ DOMAIN accepted :
           /\ nextId <= id /\ at.accepted[id].queue = name /\ ~at.accepted[id].former
           /\ \E i \in DOMAIN at.q.messages : at.q.messages[i].id = id

SentDedups(name, at) ==
    name \in FifoNames =>
        /\ \A id \in DOMAIN at.accepted :
               (at.accepted[id].queue = name /\ ~at.accepted[id].former /\ at.accepted[id].dedup # None)
               => at.accepted[id].dedup \in at.q.dedup_ids
        /\ \A i, j \in DOMAIN at.accepted :
               (/\ at.accepted[i].queue = name /\ at.accepted[j].queue = name
                /\ at.accepted[i].dedup = at.accepted[j].dedup /\ at.accepted[i].dedup # None
                /\ ~at.accepted[i].former /\ ~at.accepted[j].former)
               => i = j

Sending(name, at) == SentPlaces(name, at) /\ SentAccepted(name, at) /\ SentDedups(name, at)

LEMMA EntrySent ==
    ASSUME NEW name \in QueueNames, NEW at \in SendRecords, NEW e \in Entries, now \in Nat, nextId \in Nat \ {0}
    PROVE  LET to == SendEntry(name, at, e)
           IN  /\ to \in SendRecords /\ to.next <= at.next + 2
               /\ Live(name) \in Seq(MessageRecords) /\ Sending(name, at) => Sending(name, to)
<1> DEFINE to == SendEntry(name, at, e)
           q == at.q
           id == at.next
<1>1. e.delay \in Delays \cup {None} /\ e.dedup \in DedupIds \cup {None}
  BY DEF Entries
<1>2. q \in QueueRecords /\ id \in Nat /\ at.accepted \in PartialAccepted
  BY SendTypes
<1>3. CASE IsDuplicate(name, q, e.dedup)
  <2>1. to = at
    BY <1>3 DEF SendEntry
  <2> HIDE DEF to
  <2>2. to.next <= at.next + 2
    BY <1>2, <2>1
  <2> QED BY <2>1, <2>2 DEF to
<1>4. CASE ~IsDuplicate(name, q, e.dedup)
  <2> DEFINE r == SendMessage(name, q, id, e.delay, e.dedup)
             rec == [queue |-> name, dedup |-> e.dedup, former |-> FALSE]
             acc == [x \in DOMAIN at.accepted \cup {id} |-> IF x = id THEN rec ELSE at.accepted[x]]
  <2>1. to = [q |-> r, next |-> id + 2, accepted |-> acc]
    BY <1>4 DEF SendEntry
  <2>2. /\ r \in QueueRecords
        /\ r.dedup_ids = IF e.dedup = None THEN q.dedup_ids ELSE q.dedup_ids \cup {e.dedup}
        /\ \E m \in MessageRecords :
               /\ r.messages = Append(q.messages, m)
               /\ m.id = id /\ m.receipt_handle = id + 1 /\ m.receive_count = 0
               /\ ~m.delayed => m.visible_after = 0
    <3>1. r = SendMessage(name, q, id, e.delay, e.dedup)
      OBVIOUS
    <3> HIDE DEF q, id, r
    <3>2. Appended(r, q, id, e.dedup)
      BY <1>1, <1>2, <1>4, <3>1, MessageSent
    <3> QED BY <3>2 DEF Appended
  <2>3. PICK m \in MessageRecords :
               /\ r.messages = Append(q.messages, m)
               /\ m.id = id /\ m.receipt_handle = id + 1 /\ m.receive_count = 0
               /\ ~m.delayed => m.visible_after = 0
    BY <2>2
  <2>4. rec \in AcceptedRecords /\ rec.queue = name /\ rec.dedup = e.dedup /\ rec.former = FALSE
    BY <1>1 DEF AcceptedRecords
  <2> HIDE DEF r, rec
  <2>5. /\ DOMAIN acc = DOMAIN at.accepted \cup {id} /\ acc[id] = rec
        /\ \A x \in DOMAIN at.accepted : x # id => acc[x] = at.accepted[x]
    OBVIOUS
  <2>6. acc \in PartialAccepted
    <3>1. at.accepted \in [DOMAIN at.accepted -> AcceptedRecords] /\ DOMAIN at.accepted \subseteq Nat
      BY <1>2, PartialTypes
    <3>2. acc \in [DOMAIN acc -> AcceptedRecords] /\ DOMAIN acc \subseteq Nat
      BY <3>1, <2>4, <2>5, <1>2
    <3> HIDE DEF acc
    <3> QED BY <3>2, PartialTypes
  <2> HIDE DEF acc
  <2>7. to \in SendRecords /\ to.q = r /\ to.next = id + 2 /\ to.accepted = acc
    <3> HIDE DEF to
    <3> QED BY <2>1, <2>2, <2>6, <1>2 DEF SendRecords
  <2> HIDE DEF to
  <2>8. to.next <= at.next + 2
    BY <1>2, <2>7
  <2>9. ASSUME Live(name) \in Seq(MessageRecords), Sending(name, at) PROVE Sending(name, to)
    <3> DEFINE s == Live(name)
               t == q.messages
               u == r.messages
               n == Len(t)
    <3>1. t \in Seq(MessageRecords) /\ DOMAIN t = 1..n /\ n \in Nat
      BY <1>2, QueueTypes
    <3>2. DOMAIN s = 1..Len(s) /\ Len(s) \in Nat /\ Len(s) <= n
      BY <2>9 DEF Sending, SentPlaces
    <3>3. /\ u \in Seq(MessageRecords) /\ Len(u) = n + 1 /\ DOMAIN u = 1..(n + 1) /\ u[n + 1] = m
          /\ \A i \in 1..n : u[i] = t[i]
      BY <2>3, <3>1
    <3>4. \A i \in 1..(n + 1) : i = n + 1 \/ i \in 1..n
      BY <3>1
    <3>5. id \notin DOMAIN at.accepted /\ nextId <= id /\ id \notin DOMAIN accepted
      <4>1. DOMAIN accepted \subseteq DOMAIN at.accepted /\ DOMAIN at.accepted \subseteq 1..(id - 1) /\ nextId <= id
        BY <2>9 DEF Sending, SentAccepted
      <4> QED BY <4>1, <1>2
    <3>6. \A i \in DOMAIN t : t[i] \in MessageRecords /\ t[i].id < id /\ t[i].receipt_handle < id
      BY <2>9, <3>1 DEF Sending, SentPlaces
    <3>7. \A i \in DOMAIN t : t[i].id \in Nat /\ t[i].receipt_handle \in Nat
      BY <3>6, MessageTypes
    <3>8. SentPlaces(name, to)
      <4> HIDE DEF s, t, u, n
      <4>1. Len(s) <= Len(u) /\ \A i \in DOMAIN s : u[i] = s[i]
        <5>1. \A i \in DOMAIN s : t[i] = s[i] /\ i \in 1..n
          BY <2>9, <3>2, <3>1 DEF Sending, SentPlaces, s, t
        <5>2. Len(s) <= Len(u)
          BY <3>2, <3>3, <3>1
        <5> QED BY <5>1, <5>2, <3>3
      <4>2. ASSUME NEW i \in DOMAIN u \ DOMAIN s
            PROVE  /\ u[i].id \in DOMAIN acc \ DOMAIN accepted
                   /\ nextId <= u[i].receipt_handle
                   /\ u[i].receive_count = 0
                   /\ ~u[i].delayed => u[i].visible_after = 0
        <5>1. CASE i = n + 1
          <6>1. u[i] = m /\ id \in DOMAIN acc
            BY <5>1, <3>3, <2>5
          <6>2. nextId <= id + 1
            BY <3>5, <1>2
          <6> QED BY <6>1, <6>2, <2>3, <3>5
        <5>2. CASE i \in 1..n
          <6>1. i \in DOMAIN t \ DOMAIN s /\ u[i] = t[i]
            BY <5>2, <3>1, <3>3
          <6>2. /\ t[i].id \in DOMAIN at.accepted \ DOMAIN accepted
                /\ nextId <= t[i].receipt_handle
                /\ t[i].receive_count = 0
                /\ ~t[i].delayed => t[i].visible_after = 0
            BY <6>1, <2>9 DEF Sending, SentPlaces, s, t
          <6> QED BY <6>1, <6>2, <2>5
        <5> QED BY <5>1, <5>2, <3>3, <3>4
      <4>3. ASSUME NEW i \in DOMAIN u PROVE u[i].id < id + 2 /\ u[i].receipt_handle < id + 2
        <5>1. CASE i = n + 1
          BY <5>1, <3>3, <2>3, <1>2
        <5>2. CASE i \in 1..n
          BY <5>2, <3>1, <3>3, <3>6, <3>7, <1>2
        <5> QED BY <5>1, <5>2, <3>3, <3>4
      <4>4. Distinct(u)
        <5> SUFFICES ASSUME NEW i \in DOMAIN u, NEW j \in DOMAIN u,
                            u[i].id = u[j].id \/ u[i].receipt_handle = u[j].receipt_handle
                     PROVE  i = j
          BY DEF Distinct
        <5>1. \A k \in 1..n : u[k].id # id /\ u[k].receipt_handle # id + 1
          <6>1. \A k \in 1..n : u[k] = t[k] /\ t[k].id \in Nat /\ t[k].receipt_handle \in Nat
                               /\ t[k].id < id /\ t[k].receipt_handle < id
            BY <3>1, <3>3, <3>6, <3>7
          <6>2. \A x \in Nat : x < id => x # id /\ x # id + 1
            BY <1>2
          <6> QED BY <6>1, <6>2
        <5>2. u[n + 1].id = id /\ u[n + 1].receipt_handle = id + 1
          BY <3>3, <2>3
        <5>3. CASE i \in 1..n /\ j \in 1..n
          <6>1. u[i] = t[i] /\ u[j] = t[j] /\ i \in DOMAIN t /\ j \in DOMAIN t
            BY <5>3, <3>1, <3>3
          <6>2. Distinct(t)
            BY <2>9 DEF Sending, SentPlaces, t
          <6> QED BY <6>1, <6>2 DEF Distinct
        <5> QED BY <5>1, <5>2, <5>3, <3>3, <3>4
      <4> QED BY <4>1, <4>2, <4>3, <4>4, <2>7 DEF SentPlaces, s, u
    <3>9. SentAccepted(name, to)
      <4> HIDE DEF s, t, u, n
      <4>1. nextId <= id + 2
        BY <3>5, <1>2
      <4>2. DOMAIN accepted \subseteq DOMAIN acc /\ DOMAIN acc \subseteq 1..((id + 2) - 1)
        <5>1. DOMAIN accepted \subseteq DOMAIN at.accepted /\ DOMAIN at.accepted \subseteq 1..(id - 1)
          BY <2>9 DEF Sending, SentAccepted
        <5>2. 1..(id - 1) \subseteq 1..((id + 2) - 1) /\ id \in 1..((id + 2) - 1)
          BY <1>2, <3>5
        <5> QED BY <5>1, <5>2, <2>5
      <4>3. \A x \in DOMAIN accepted : acc[x] = accepted[x]
        BY <2>9, <2>5, <3>5 DEF Sending, SentAccepted
      <4>4. ASSUME NEW x \in DOMAIN acc \ DOMAIN accepted
            PROVE  /\ nextId <= x /\ acc[x].queue = name /\ ~acc[x].former
                   /\ \E i \in DOMAIN u : u[i].id = x
        <5>1. CASE x = id
          <6>1. n + 1 \in DOMAIN u /\ u[n + 1].id = id
            BY <3>1, <3>3, <2>3
          <6> QED BY <5>1, <6>1, <2>4, <2>5, <3>5
        <5>2. CASE x # id
          <6>1. x \in DOMAIN at.accepted \ DOMAIN accepted /\ acc[x] = at.accepted[x]
            BY <5>2, <2>5
          <6>2. /\ nextId <= x /\ at.accepted[x].queue = name /\ ~at.accepted[x].former
                /\ \E i \in DOMAIN t : t[i].id = x
            BY <6>1, <2>9 DEF Sending, SentAccepted, t
          <6>3. \A i \in DOMAIN t : i \in DOMAIN u /\ u[i] = t[i]
            BY <3>1, <3>3
          <6> QED BY <6>1, <6>2, <6>3
        <5> QED BY <5>1, <5>2
      <4> QED BY <4>1, <4>2, <4>3, <4>4, <2>7 DEF SentAccepted, u
    <3>10. SentDedups(name, to)
      <4> SUFFICES ASSUME name \in FifoNames
                   PROVE  /\ \A x \in DOMAIN acc :
                              (acc[x].queue = name /\ ~acc[x].former /\ acc[x].dedup # None)
                              => acc[x].dedup \in r.dedup_ids
                          /\ \A x, y \in DOMAIN acc :
                              (/\ acc[x].queue = name /\ acc[y].queue = name
                               /\ acc[x].dedup = acc[y].dedup /\ acc[x].dedup # None
                               /\ ~acc[x].former /\ ~acc[y].former)
                              => x = y
        BY <2>7 DEF SentDedups
      <4>1. e.dedup # None => e.dedup \notin q.dedup_ids /\ e.dedup \in r.dedup_ids
        BY <1>4, <2>2 DEF IsDuplicate
      <4>2. q.dedup_ids \subseteq r.dedup_ids
        BY <2>2
      <4>3. \A x \in DOMAIN at.accepted :
                (at.accepted[x].queue = name /\ ~at.accepted[x].former /\ at.accepted[x].dedup # None)
                => at.accepted[x].dedup \in q.dedup_ids
        BY <2>9 DEF Sending, SentDedups
      <4>4. \A x \in DOMAIN acc : (x = id /\ acc[x] = rec) \/ (x \in DOMAIN at.accepted /\ acc[x] = at.accepted[x])
        BY <2>5, <3>5
      <4>5. \A x \in DOMAIN at.accepted :
                (at.accepted[x].queue = name /\ ~at.accepted[x].former /\ at.accepted[x].dedup # None)
                => at.accepted[x].dedup # e.dedup
        BY <4>1, <4>3
      <4>6. \A x \in DOMAIN acc :
                (acc[x].queue = name /\ ~acc[x].former /\ acc[x].dedup # None) => acc[x].dedup \in r.dedup_ids
        BY <4>1, <4>2, <4>3, <4>4, <2>4
      <4>7. ASSUME NEW x \in DOMAIN acc, NEW y \in DOMAIN acc,
                   acc[x].queue = name, acc[y].queue = name,
                   acc[x].dedup = acc[y].dedup, acc[x].dedup # None,
                   ~acc[x].former, ~acc[y].former
            PROVE  x = y
        <5>1. CASE x = id /\ y = id
          BY <5>1
        <5>2. CASE x # id /\ y # id
          <6>1. x \in DOMAIN at.accepted /\ acc[x] = at.accepted[x] /\ y \in DOMAIN at.accepted /\ acc[y] = at.accepted[y]
            BY <5>2, <4>4
          <6> QED BY <6>1, <4>7, <2>9 DEF Sending, SentDedups
        <5>3. CASE x = id /\ y # id
          BY <5>3, <4>4, <4>5, <4>7, <2>4, <2>5
        <5>4. CASE x # id /\ y = id
          BY <5>4, <4>4, <4>5, <4>7, <2>4, <2>5
        <5> QED BY <5>1, <5>2, <5>3, <5>4
      <4> QED BY <4>6, <4>7
    <3> QED BY <3>8, <3>9, <3>10 DEF Sending
  <2> QED BY <2>7, <2>8, <2>9 DEF to
<1> QED BY <1>3, <1>4

\* ... and so does a batch.
LEMMA AllSent ==
    ASSUME NEW name \in QueueNames, NEW entries \in Seq(Entries), now \in Nat, nextId \in Nat \ {0},
           Live(name) \in Seq(MessageRecords), NEW base \in SendRecords,
           base = [q |-> queues[name], next |-> nextId, accepted |-> accepted], Sending(name, base)
    PROVE  /\ Sent(name, entries) \in SendRecords /\ Sending(name, Sent(name, entries))
           /\ Sent(name, entries).next <= nextId + 2 * Len(entries)
<1> DEFINE n == Len(entries)
           Step(after, i) == IF i = 0 THEN base ELSE SendEntry(name, after[i - 1], entries[i])
           Is(after) == after = [i \in 0..n |-> Step(after, i)]
           G == [i \in 1..n |-> [at \in SendRecords |-> SendEntry(name, at, entries[i])]]
<1>1. n \in Nat /\ \A i \in 1..n : entries[i] \in Entries
  OBVIOUS
<1>2. \A i \in 1..n, at \in SendRecords : SendEntry(name, at, entries[i]) \in SendRecords
  BY <1>1, EntrySent
<1>3. G \in [1..n -> [SendRecords -> SendRecords]]
  BY <1>2
<1>4. PICK f \in [0..n -> SendRecords] : Iterates(f, base, G, n)
  <2> HIDE DEF G, n
  <2> QED BY <1>1, <1>3, Iteration
<1>5. Is(f)
  <2>1. ASSUME NEW i \in 0..n PROVE f[i] = Step(f, i)
    <3>1. CASE i = 0
      BY <3>1, <1>4 DEF Iterates
    <3>2. CASE i # 0
      <4>1. i \in 1..n /\ i - 1 \in 0..n
        BY <3>2, <1>1
      <4>2. f[i] = G[i][f[i - 1]] /\ f[i - 1] \in SendRecords
        <5> HIDE DEF G
        <5> QED BY <4>1, <1>4 DEF Iterates
      <4>3. G[i][f[i - 1]] = SendEntry(name, f[i - 1], entries[i])
        BY <4>1, <4>2
      <4> QED BY <3>2, <4>2, <4>3
    <3> QED BY <3>1, <3>2
  <2>2. f = [i \in 0..n |-> f[i]]
    BY <1>4
  <2> QED BY <2>1, <2>2
<1> DEFINE after == CHOOSE a : Is(a)
<1>6. Is(after)
  BY <1>5
<1>7. Sent(name, entries) = after[n]
  BY DEF Sent
<1>8. \A i \in 0..n : after[i] = Step(after, i)
  BY <1>6
<1> HIDE DEF after, Is, G
<1> DEFINE Right(at, i) == at \in SendRecords /\ Sending(name, at) /\ at.next <= nextId + 2 * i
           Wrong == {i \in 0..n : ~Right(after[i], i)}
<1>9. Wrong = {}
  <2> SUFFICES ASSUME Wrong # {} PROVE FALSE
    OBVIOUS
  <2>1. PICK i \in Wrong : \A y \in Wrong : i <= y
    <3>1. Wrong \in SUBSET Nat
      BY <1>1
    <3> HIDE DEF Wrong
    <3> QED BY <3>1, LeastNat
  <2>2. i \in 0..n /\ ~Right(after[i], i)
    OBVIOUS
  <2>3. CASE i = 0
    <3>1. after[i] = base
      BY <2>2, <2>3, <1>8
    <3>2. base.next = nextId
      OBVIOUS
    <3>3. base.next <= nextId + 2 * i
      BY <2>3, <3>2
    <3> QED BY <2>2, <3>1, <3>3
  <2>4. CASE i # 0
    <3>1. i - 1 \in 0..n /\ ~(i <= i - 1) /\ i \in 1..n
      BY <2>2, <2>4, <1>1
    <3> DEFINE at == after[i - 1]
               to == after[i]
    <3>2. at \in SendRecords /\ Sending(name, at) /\ at.next <= nextId + 2 * (i - 1)
      BY <3>1, <2>1
    <3>3. to = SendEntry(name, at, entries[i])
      BY <2>2, <2>4, <1>8
    <3> HIDE DEF at, to
    <3>4. to \in SendRecords /\ to.next <= at.next + 2 /\ Sending(name, to)
      BY <3>1, <3>2, <3>3, <1>1, EntrySent
    <3>5. to.next <= nextId + 2 * i
      <4>1. at.next \in Nat /\ to.next \in Nat
        BY <3>2, <3>4, SendTypes
      <4> QED BY <4>1, <3>1, <3>2, <3>4
    <3>6. ~Right(to, i)
      BY <2>2 DEF to
    <3> QED BY <3>4, <3>5, <3>6
  <2> QED BY <2>3, <2>4
<1>10. n \in 0..n
  BY <1>1
<1>11. Right(after[n], n)
  BY <1>9, <1>10
<1> QED BY <1>7, <1>11

-----------------------------------------------------------------------------
(* Receiving *)

Below(S, i) == {j \in S : j < i}

LEMMA BelowTypes ==
    ASSUME NEW S \in SUBSET Nat, IsFiniteSet(S), NEW i \in Nat
    PROVE  /\ IsFiniteSet(Below(S, i)) /\ Cardinality(Below(S, i)) \in Nat
           /\ \A j \in S : i < j => Cardinality(Below(S, i)) <= Cardinality(Below(S, j))
           /\ \A j \in S : i \in S /\ i < j => Cardinality(Below(S, i)) < Cardinality(Below(S, j))
           /\ i \in S => Cardinality(Below(S, i)) < Cardinality(S)
<1>1. \A j \in Nat : Below(S, j) \subseteq S /\ IsFiniteSet(Below(S, j)) /\ Cardinality(Below(S, j)) \in Nat
  <2>1. \A j : Below(S, j) \subseteq S
    BY DEF Below
  <2> QED BY <2>1, FS_Subset, FS_CardinalityType
<1>2. ASSUME NEW T, IsFiniteSet(T), Below(S, i) \subseteq T PROVE Cardinality(Below(S, i)) <= Cardinality(T)
  BY <1>2, FS_Subset
<1>3. ASSUME NEW T, IsFiniteSet(T), Below(S, i) \subseteq T, i \in T PROVE Cardinality(Below(S, i)) < Cardinality(T)
  <2>1. i \notin Below(S, i)
    BY DEF Below
  <2>2. Below(S, i) # T
    BY <2>1, <1>3
  <2>3. Cardinality(Below(S, i)) <= Cardinality(T) /\ Cardinality(Below(S, i)) # Cardinality(T)
    BY <1>3, <2>2, FS_Subset
  <2>4. Cardinality(T) \in Nat
    BY <1>3, FS_CardinalityType
  <2> QED BY <2>3, <2>4, <1>1
<1>4. ASSUME NEW j \in S, i < j PROVE Below(S, i) \subseteq Below(S, j) /\ (i \in S => i \in Below(S, j))
  <2>1. \A k \in S : k \in Nat
    OBVIOUS
  <2>2. \A k \in S : k < i => k < j
    BY <2>1, <1>4
  <2> QED BY <2>2, <1>4 DEF Below
<1>5. ASSUME NEW j \in S, i < j PROVE Cardinality(Below(S, i)) <= Cardinality(Below(S, j))
  BY <1>1, <1>2, <1>4, <1>5
<1>6. ASSUME NEW j \in S, i \in S, i < j PROVE Cardinality(Below(S, i)) < Cardinality(Below(S, j))
  BY <1>1, <1>3, <1>4, <1>6
<1>7. i \in S => Cardinality(Below(S, i)) < Cardinality(S)
  BY <1>1, <1>3
<1> QED BY <1>1, <1>5, <1>6, <1>7

\* The ranks of what is chosen are different, and less than its number.
LEMMA Ranks ==
    ASSUME NEW S \in SUBSET Nat, IsFiniteSet(S)
    PROVE  /\ \A i \in S : Rank(S, i) \in Nat /\ Rank(S, i) < Cardinality(S)
           /\ \A i, j \in S : Rank(S, i) = Rank(S, j) => i = j
<1>1. \A i : Rank(S, i) = Cardinality(Below(S, i))
  BY DEF Rank, Below
<1>2. \A i \in S : Rank(S, i) \in Nat /\ Rank(S, i) < Cardinality(S)
  BY <1>1, BelowTypes
<1>3. \A i, j \in S : i < j => Rank(S, i) < Rank(S, j)
  BY <1>1, BelowTypes
<1>4. ASSUME NEW i \in S, NEW j \in S, Rank(S, i) = Rank(S, j) PROVE i = j
  <2>1. i \in Nat /\ j \in Nat
    OBVIOUS
  <2>2. ~(i < j) /\ ~(j < i)
    BY <1>2, <1>3, <1>4
  <2> QED BY <2>1, <2>2
<1> QED BY <1>2, <1>4

\* What is chosen is visible, and so chosen is what is visible before it.
LEMMA ChosenFirst ==
    ASSUME NEW q \in QueueRecords, NEW max \in Nat
    PROVE  /\ Chosen(q, max) \subseteq DOMAIN q.messages /\ DOMAIN q.messages \subseteq Nat
           /\ IsFiniteSet(Chosen(q, max)) /\ Cardinality(Chosen(q, max)) \in Nat
           /\ \A i \in Chosen(q, max) : IsVisible(q.messages[i])
           /\ \A j \in Chosen(q, max), i \in DOMAIN q.messages :
                  i < j /\ IsVisible(q.messages[i]) => i \in Chosen(q, max)
<1> DEFINE s == q.messages
           visible == {i \in DOMAIN s : IsVisible(s[i])}
           chosen == Chosen(q, max)
<1>1. s \in Seq(MessageRecords) /\ DOMAIN s = 1..Len(s) /\ Len(s) \in Nat
  BY QueueTypes
<1>2. IsFiniteSet(DOMAIN s)
  <2>1. 1 \in Int /\ Len(s) \in Int
    BY <1>1
  <2> QED BY <1>1, <2>1, FS_Interval
<1>3. visible \subseteq DOMAIN s /\ IsFiniteSet(visible) /\ visible \in SUBSET Nat
  <2>1. visible \subseteq DOMAIN s /\ visible \in SUBSET Nat
    BY <1>1
  <2> HIDE DEF visible
  <2> QED BY <2>1, <1>2, FS_Subset
<1>4. chosen = {i \in visible : Cardinality(Below(visible, i)) < max}
  BY DEF Chosen, Below
<1>5. \A i \in chosen : i \in visible
  BY <1>4
<1>6. IsFiniteSet(chosen) /\ Cardinality(chosen) \in Nat
  <2>1. chosen \subseteq visible
    BY <1>5
  <2> HIDE DEF chosen, visible
  <2> QED BY <1>3, <2>1, FS_Subset, FS_CardinalityType
<1>7. ASSUME NEW j \in chosen, NEW i \in visible, i < j PROVE i \in chosen
  <2>1. j \in visible /\ Cardinality(Below(visible, j)) < max
    BY <1>4
  <2>2. i \in Nat /\ j \in Nat
    BY <2>1, <1>3
  <2> HIDE DEF visible, chosen
  <2>3. Cardinality(Below(visible, i)) <= Cardinality(Below(visible, j))
    BY <2>1, <2>2, <1>3, <1>7, BelowTypes
  <2>4. Cardinality(Below(visible, i)) \in Nat /\ Cardinality(Below(visible, j)) \in Nat
    BY <2>2, <1>3, BelowTypes
  <2>5. Cardinality(Below(visible, i)) < max
    BY <2>1, <2>3, <2>4
  <2> QED BY <2>5, <1>4
<1> QED BY <1>1, <1>5, <1>6, <1>7

LEMMA BeginReceiveTypes ==
    ASSUME NEW m \in MessageRecords, NEW h \in Nat, NEW v \in Nat
    PROVE  /\ BeginReceive(m, h, v) \in MessageRecords /\ BeginReceive(m, h, v).id = m.id
           /\ BeginReceive(m, h, v).receipt_handle = h /\ BeginReceive(m, h, v).receive_count = m.receive_count + 1
           /\ BeginReceive(m, h, v).visible_after = v /\ BeginReceive(m, h, v).delayed = m.delayed
<1> DEFINE c == m.receive_count + 1
<1>1. c \in Nat /\ BeginReceive(m, h, v) = [m EXCEPT !.receipt_handle = h, !.receive_count = c, !.visible_after = v]
  BY MessageTypes DEF BeginReceive
<1> HIDE DEF c
<1>2. LET t == BeginReceive(m, h, v)
      IN  t \in MessageRecords /\ t.id = m.id /\ t.receipt_handle = h /\ t.receive_count = c
          /\ t.visible_after = v /\ t.delayed = m.delayed
  BY <1>1 DEF MessageRecords
<1> QED BY <1>2 DEF c

\* The messages after a receive.
Received(s, chosen, v) == [i \in DOMAIN s |-> IF i \in chosen THEN BeginReceive(s[i], nextId + Rank(chosen, i), v) ELSE s[i]]

LEMMA ReceiveIs ==
    ASSUME NEW q \in QueueRecords, NEW chosen, NEW timeout, NEW v,
           VisibleAfter(IF timeout = None THEN q.visibility_timeout ELSE timeout) = v
    PROVE  ReceiveMessages(q, chosen, timeout) = Holding(q, Received(q.messages, chosen, v))
  BY DEF ReceiveMessages, Holding, Received

LEMMA ReceivedTypes ==
    ASSUME NEW s \in Seq(MessageRecords), NEW chosen \in SUBSET (DOMAIN s), IsFiniteSet(chosen), NEW v \in Nat,
           nextId \in Nat
    PROVE  /\ Received(s, chosen, v) \in Seq(MessageRecords) /\ DOMAIN Received(s, chosen, v) = DOMAIN s
           /\ \A i \in DOMAIN s : i \notin chosen => Received(s, chosen, v)[i] = s[i]
           /\ \A i \in chosen :
                  /\ Received(s, chosen, v)[i].id = s[i].id
                  /\ Received(s, chosen, v)[i].receipt_handle = nextId + Rank(chosen, i)
                  /\ Received(s, chosen, v)[i].receive_count = s[i].receive_count + 1
                  /\ Received(s, chosen, v)[i].visible_after = v
                  /\ Received(s, chosen, v)[i].delayed = s[i].delayed
<1> DEFINE t == Received(s, chosen, v)
           given(i) == nextId + Rank(chosen, i)
<1>1. DOMAIN s = 1..Len(s) /\ Len(s) \in Nat /\ \A i \in DOMAIN s : s[i] \in MessageRecords
  OBVIOUS
<1>2. \A i \in chosen : Rank(chosen, i) \in Nat
  <2>1. chosen \in SUBSET Nat
    BY <1>1
  <2> QED BY <2>1, Ranks
<1>3. \A i \in chosen : given(i) \in Nat
  BY <1>2
<1>4. DOMAIN t = DOMAIN s /\ \A i \in DOMAIN s : t[i] = IF i \in chosen THEN BeginReceive(s[i], given(i), v) ELSE s[i]
  BY DEF Received
<1>5. t = [i \in 1..Len(s) |-> t[i]]
  BY <1>1 DEF Received
<1> HIDE DEF t, given
<1>6. ASSUME NEW i \in chosen
      PROVE  /\ t[i] \in MessageRecords /\ t[i].id = s[i].id /\ t[i].receipt_handle = given(i)
             /\ t[i].receive_count = s[i].receive_count + 1 /\ t[i].visible_after = v /\ t[i].delayed = s[i].delayed
  <2>1. s[i] \in MessageRecords /\ given(i) \in Nat /\ t[i] = BeginReceive(s[i], given(i), v)
    BY <1>1, <1>3, <1>4
  <2>2. PICK m \in MessageRecords, x \in Nat : m = s[i] /\ x = given(i)
    BY <2>1
  <2>3. BeginReceive(m, x, v) \in MessageRecords
    BY BeginReceiveTypes
  <2>4. BeginReceive(m, x, v).id = m.id
    BY BeginReceiveTypes
  <2>7. BeginReceive(m, x, v).receipt_handle = x
    BY BeginReceiveTypes
  <2>5. BeginReceive(m, x, v).receive_count = m.receive_count + 1
    BY BeginReceiveTypes
  <2>6. BeginReceive(m, x, v).visible_after = v
    BY BeginReceiveTypes
  <2>8. BeginReceive(m, x, v).delayed = m.delayed
    BY BeginReceiveTypes
  <2> QED BY <2>1, <2>2, <2>3, <2>4, <2>5, <2>6, <2>7, <2>8
<1>7. \A i \in DOMAIN s : t[i] \in MessageRecords
  BY <1>1, <1>4, <1>6
<1>8. t \in Seq(MessageRecords)
  BY <1>1, <1>5, <1>7
<1> QED BY <1>4, <1>6, <1>8 DEF t, given

\* After a receive, too, no two messages share an id or a handle ...
LEMMA ReceivedDistinct ==
    ASSUME NEW s \in Seq(MessageRecords), NEW chosen \in SUBSET (DOMAIN s), IsFiniteSet(chosen), NEW v \in Nat,
           nextId \in Nat, \A i \in DOMAIN s : s[i].receipt_handle < nextId, Distinct(s)
    PROVE  Distinct(Received(s, chosen, v))
<1> DEFINE t == Received(s, chosen, v)
<1>1. DOMAIN s \subseteq Nat /\ \A i \in DOMAIN s : s[i] \in MessageRecords
  OBVIOUS
<1>2. \A i \in DOMAIN s : s[i].receipt_handle \in Nat /\ s[i].receipt_handle < nextId
  BY <1>1, MessageTypes
<1>3. /\ \A i \in chosen : Rank(chosen, i) \in Nat
      /\ \A i, j \in chosen : Rank(chosen, i) = Rank(chosen, j) => i = j
  <2>1. chosen \in SUBSET Nat
    BY <1>1
  <2> QED BY <2>1, Ranks
<1>4. /\ DOMAIN t = DOMAIN s
      /\ \A i \in DOMAIN s : i \notin chosen => t[i] = s[i]
      /\ \A i \in chosen : t[i].id = s[i].id /\ t[i].receipt_handle = nextId + Rank(chosen, i)
  BY ReceivedTypes
<1> HIDE DEF t
<1>5. \A i \in DOMAIN s : t[i].id = s[i].id
  BY <1>4
<1>6. \A i, j \in DOMAIN s : t[i].id = t[j].id => i = j
  BY <1>5 DEF Distinct
<1>7. ASSUME NEW i \in DOMAIN s, NEW j \in DOMAIN s, t[i].receipt_handle = t[j].receipt_handle PROVE i = j
  <2>1. CASE i \in chosen /\ j \in chosen
    BY <2>1, <1>3, <1>4, <1>7
  <2>2. CASE i \notin chosen /\ j \notin chosen
    BY <2>2, <1>4, <1>7 DEF Distinct
  <2>3. CASE i \in chosen /\ j \notin chosen
    BY <2>3, <1>2, <1>3, <1>4, <1>7
  <2>4. CASE i \notin chosen /\ j \in chosen
    BY <2>4, <1>2, <1>3, <1>4, <1>7
  <2> QED BY <2>1, <2>2, <2>3, <2>4
<1> QED BY <1>4, <1>6, <1>7 DEF Distinct, t

\* ... and first deliveries are in order, if what can be received comes first.
LEMMA ReceivedOrdered ==
    ASSUME NEW s \in Seq(MessageRecords), NEW chosen \in SUBSET (DOMAIN s), IsFiniteSet(chosen), NEW v \in Nat,
           nextId \in Nat, Ordered(s),
           \A j \in chosen, i \in DOMAIN s :
               (i < j /\ ~s[i].delayed /\ s[i].receive_count = 0) => i \in chosen
    PROVE  Ordered(Received(s, chosen, v))
<1> DEFINE t == Received(s, chosen, v)
<1>1. \A i \in DOMAIN s : s[i].receive_count \in Nat
  BY MessageTypes
<1>2. /\ DOMAIN t = DOMAIN s
      /\ \A i \in DOMAIN s : i \notin chosen => t[i] = s[i]
      /\ \A i \in chosen : t[i].receive_count = s[i].receive_count + 1 /\ t[i].delayed = s[i].delayed
  BY ReceivedTypes
<1> HIDE DEF t
<1> SUFFICES ASSUME NEW i \in DOMAIN s, NEW j \in DOMAIN s, i < j, t[j].receive_count > 0, ~t[i].delayed
             PROVE  t[i].receive_count > 0
  BY <1>2 DEF Ordered, t
<1>3. CASE i \in chosen
  BY <1>1, <1>2, <1>3
<1>4. CASE i \notin chosen
  <2>1. t[i] = s[i]
    BY <1>2, <1>4
  <2>2. CASE j \in chosen
    <3>1. s[i].receive_count # 0
      BY <2>1, <2>2, <1>4
    <3> QED BY <3>1, <2>1, <1>1
  <2>3. CASE j \notin chosen
    BY <2>1, <2>3, <1>2 DEF Ordered
  <2> QED BY <2>2, <2>3
<1> QED BY <1>3, <1>4

-----------------------------------------------------------------------------
(* Steps *)

LEMMA LiveTypes ==
    ASSUME TypeOK, NEW name \in QueueNames
    PROVE  /\ Live(name) \in Seq(MessageRecords) /\ DOMAIN Live(name) = 1..Len(Live(name))
           /\ \A i \in DOMAIN Live(name) :
                  /\ Live(name)[i] \in MessageRecords
                  /\ Live(name)[i].id \in Nat /\ Live(name)[i].id < nextId
                  /\ Live(name)[i].receipt_handle \in Nat /\ Live(name)[i].receipt_handle < nextId
           /\ queues[name] = None => Live(name) = <<>>
           /\ queues[name] # None => queues[name] \in QueueRecords /\ Live(name) = queues[name].messages
<1>1. queues[name] # None => queues[name] \in QueueRecords
  BY DEF TypeOK
<1>2. /\ queues[name] = None => Live(name) = <<>>
      /\ queues[name] # None => Live(name) = queues[name].messages
  BY DEF Live
<1>3. Live(name) \in Seq(MessageRecords)
  <2>1. CASE queues[name] = None
    BY <2>1, <1>2
  <2>2. CASE queues[name] # None
    BY <2>2, <1>1, <1>2, QueueTypes
  <2> QED BY <2>1, <2>2
<1>4. \A i \in DOMAIN Live(name) : Live(name)[i] \in MessageRecords /\ Live(name)[i].id < nextId
                                   /\ Live(name)[i].receipt_handle < nextId
  BY <1>3 DEF TypeOK
<1>5. \A i \in DOMAIN Live(name) : Live(name)[i].id \in Nat /\ Live(name)[i].receipt_handle \in Nat
  BY <1>4, MessageTypes
<1> QED BY <1>1, <1>2, <1>3, <1>4, <1>5

\* Time and the counter do not go back.
Advances == nextId \in Nat /\ nextId' \in Nat /\ nextId <= nextId' /\ now \in Nat /\ now' \in Nat /\ now <= now'

\* A step says nothing of a message: it is neither delivered nor settled, and its leases stay.
Undisturbed(n, id) ==
    /\ id \in DOMAIN accepted' \ settled' /\ accepted'[id].queue = n /\ ~accepted'[id].former
    /\ DOMAIN deliveries \subseteq DOMAIN deliveries'
    /\ \A g \in DOMAIN deliveries' \ DOMAIN deliveries : nextId <= g /\ deliveries'[g].id # id
    /\ \A g \in DOMAIN deliveries :
           deliveries'[g].id = deliveries[g].id /\ (deliveries[g].id = id => deliveries'[g] = deliveries[g])

\* What holds of such a message holds of it after the step, wherever in the queue it is then.
LEMMA MessageStays ==
    ASSUME TypeOK, Advances, NEW n \in QueueNames, NEW i \in DOMAIN Live(n), NEW k,
           Live(n)'[k] = Live(n)[i], Placed(n, i), Leased(n, i), Undisturbed(n, Live(n)[i].id)
    PROVE  Placed(n, k)' /\ Leased(n, k)'
<1>1. PICK m \in MessageRecords : m = Live(n)[i] /\ m = Live(n)'[k]
  BY LiveTypes
<1>2. /\ m.receipt_handle \in Nat /\ m.receipt_handle < nextId /\ m.receive_count \in Nat
  BY <1>1, LiveTypes, MessageTypes
<1>3. Placed(n, k)'
  <2>1. m.receipt_handle \in 1..(nextId - 1) /\ (~m.delayed /\ m.receive_count = 0 => m.visible_after = 0)
    BY <1>1 DEF Placed
  <2>2. m.receipt_handle \in 1..(nextId' - 1)
    BY <2>1 DEF Advances
  <2> QED BY <1>1, <2>1, <2>2 DEF Placed, Undisturbed
<1>4. \A g \in DOMAIN deliveries' \ DOMAIN deliveries : g # m.receipt_handle /\ deliveries'[g].id # m.id
  BY <1>1, <1>2 DEF Undisturbed, Advances
<1>5. Of(m.id)' = Of(m.id)
  BY <1>1, <1>4 DEF Undisturbed, Of
<1>6. \A g \in Of(m.id) : deliveries'[g] = deliveries[g] /\ g \in DOMAIN deliveries /\ deliveries[g].until \in Nat
  <2>1. \A g \in Of(m.id) : deliveries'[g] = deliveries[g] /\ g \in DOMAIN deliveries
    BY <1>1 DEF Undisturbed, Of
  <2>2. \A g \in DOMAIN deliveries : deliveries[g] \in DeliveryRecords
    BY DEF TypeOK
  <2>3. \A g \in DOMAIN deliveries : deliveries[g].until \in Nat
    BY <2>2 DEF DeliveryRecords
  <2> QED BY <2>1, <2>3
<1>7. Leased(n, k)'
  <2> DEFINE h == m.receipt_handle
  <2>1. /\ m.receive_count = Cardinality(Of(m.id))
        /\ h \in DOMAIN deliveries => h \in Of(m.id)
        /\ m.receive_count > 0 =>
               h \in DOMAIN deliveries /\ (deliveries[h].limit # None => m.receive_count < deliveries[h].limit)
        /\ \A g \in Of(m.id) :
               g <= h /\ (deliveries[g].until <= now \/ (g = h /\ deliveries[g].until = m.visible_after))
    BY <1>1 DEF Leased
  <2> HIDE DEF h
  <2>2. h \in DOMAIN deliveries' => h \in Of(m.id)
    BY <2>1, <1>4 DEF h
  <2>3. m.receive_count > 0 =>
            h \in DOMAIN deliveries' /\ (deliveries'[h].limit # None => m.receive_count < deliveries'[h].limit)
    BY <2>1, <1>6 DEF Undisturbed
  <2>4. ASSUME NEW g \in Of(m.id)
        PROVE  g <= h /\ (deliveries'[g].until <= now' \/ (g = h /\ deliveries'[g].until = m.visible_after))
    BY <2>1, <1>6 DEF Advances
  <2>5. \A g \in Of(m.id)' : g <= h /\ (deliveries'[g].until <= now' \/ (g = h /\ deliveries'[g].until = m.visible_after))
    BY <2>4, <1>5
  <2>6. m.receive_count = Cardinality(Of(m.id)') /\ (h \in DOMAIN deliveries' => h \in Of(m.id)')
    BY <2>1, <2>2, <1>5
  <2>7. Live(n)'[k].receipt_handle = h
    BY <1>1 DEF h
  <2> QED BY <1>1, <2>3, <2>5, <2>6, <2>7 DEF Leased, h
<1> QED BY <1>3, <1>7

\* What a step makes of one queue ...
Becomes(name) ==
    /\ Distinct(Live(name)') /\ Ordered(Live(name)')
    /\ \A k \in DOMAIN Live(name)' :
           /\ Placed(name, k)' /\ Leased(name, k)'
           /\ Live(name)'[k].receipt_handle \in Handles(name) \/ nextId <= Live(name)'[k].receipt_handle

\* ... is all there is to show, if it says nothing of the others.
LEMMA OneQueueChanges ==
    ASSUME TypeOK, MessagesInv, Advances, NEW name \in QueueNames, Becomes(name),
           \A n \in QueueNames : n # name =>
               queues'[n] = queues[n] /\ \A i \in DOMAIN Live(n) : Undisturbed(n, Live(n)[i].id)
    PROVE  MessagesInv'
<1>1. ASSUME NEW n \in QueueNames, n # name PROVE Live(n)' = Live(n)
  BY <1>1 DEF Live
<1>2. ASSUME NEW n \in QueueNames
      PROVE  Distinct(Live(n)') /\ Ordered(Live(n)') /\ \A k \in DOMAIN Live(n)' : Placed(n, k)' /\ Leased(n, k)'
  <2>1. CASE n = name
    BY <2>1 DEF Becomes
  <2>2. CASE n # name
    <3>1. Live(n)' = Live(n)
      BY <2>2, <1>1
    <3>2. Distinct(Live(n)) /\ Ordered(Live(n)) /\ \A i \in DOMAIN Live(n) : Placed(n, i) /\ Leased(n, i)
      BY DEF MessagesInv
    <3>3. \A k \in DOMAIN Live(n) : Placed(n, k)' /\ Leased(n, k)'
      <4> SUFFICES ASSUME NEW k \in DOMAIN Live(n) PROVE Placed(n, k)' /\ Leased(n, k)'
        OBVIOUS
      <4>1. Live(n)'[k] = Live(n)[k] /\ Undisturbed(n, Live(n)[k].id)
        BY <3>1, <2>2
      <4> QED BY <4>1, <3>2, MessageStays
    <3> QED BY <3>1, <3>2, <3>3
  <2> QED BY <2>1, <2>2
<1>3. \A n \in QueueNames : \A h \in Handles(n) : h \in Nat /\ h < nextId
  BY LiveTypes DEF Handles
<1>4. \A n \in QueueNames : n # name => Handles(n)' = Handles(n)
  BY <1>1 DEF Handles
<1>5. \A h \in Handles(name)' : h \in Handles(name) \/ nextId <= h
  BY DEF Becomes, Handles
<1>6. ASSUME NEW n \in QueueNames, n # name PROVE Handles(n)' \cap Handles(name)' = {}
  <2>1. Handles(n) \cap Handles(name) = {}
    BY <1>6 DEF MessagesInv
  <2>2. \A h \in Handles(n) : h \notin Handles(name)'
    BY <2>1, <1>3, <1>5 DEF Advances
  <2> QED BY <2>2, <1>4, <1>6
<1>7. \A n1, n2 \in QueueNames : n1 # n2 => Handles(n1)' \cap Handles(n2)' = {}
  BY <1>4, <1>6 DEF MessagesInv
<1> QED BY <1>2, <1>7 DEF MessagesInv

\* What is accepted in another queue is there as before.
LEMMA PresentStays ==
    ASSUME Present, NEW name \in QueueNames,
           \A n \in QueueNames : n # name => queues'[n] = queues[n],
           \A id \in DOMAIN accepted' : accepted'[id].queue \in QueueNames,
           acked \cup discarded \cup redriven \subseteq (acked \cup discarded \cup redriven)',
           \A id \in DOMAIN accepted' \ (acked \cup discarded \cup redriven)' :
               IF accepted'[id].queue = name THEN \E k \in DOMAIN Live(name)' : Live(name)'[k].id = id
               ELSE id \in DOMAIN accepted /\ accepted'[id].queue = accepted[id].queue
    PROVE  Present'
<1> SUFFICES ASSUME NEW id \in DOMAIN accepted' \ (acked \cup discarded \cup redriven)'
             PROVE  \E k \in DOMAIN Live(accepted[id].queue)' : Live(accepted[id].queue)'[k].id = id
  BY DEF Present
<1>1. PICK n \in QueueNames : n = accepted'[id].queue
  OBVIOUS
<1>2. Live(accepted[id].queue)' = Live(n)'
  BY <1>1 DEF Live
<1>3. CASE n = name
  BY <1>1, <1>2, <1>3
<1>4. CASE n # name
  <2>1. id \in DOMAIN accepted \ (acked \cup discarded \cup redriven) /\ accepted[id].queue = n
    BY <1>1, <1>4
  <2>2. \E i \in DOMAIN Live(n) : Live(n)[i].id = id
    BY <2>1 DEF Present
  <2>3. Live(n)' = Live(n)
    BY <1>4 DEF Live
  <2> QED BY <1>2, <2>2, <2>3
<1> QED BY <1>3, <1>4

\* Unless messages are accepted, nothing changes for the dedup ids but that they are forgotten
\* with the queue.
LEMMA DedupStays ==
    ASSUME DedupInv, FifoDeduplicates, DOMAIN accepted' = DOMAIN accepted,
           \A id \in DOMAIN accepted :
               /\ accepted'[id].queue = accepted[id].queue /\ accepted'[id].dedup = accepted[id].dedup
               /\ ~accepted'[id].former => ~accepted[id].former,
           \A id \in DOMAIN accepted : ~accepted'[id].former =>
               LET n == accepted[id].queue
               IN  queues'[n] = queues[n]
                   \/ (queues'[n] # None /\ queues[n].dedup_ids \subseteq queues'[n].dedup_ids)
    PROVE  DedupInv' /\ FifoDeduplicates'
<1>1. FifoDeduplicates'
  BY DEF FifoDeduplicates
<1>2. DedupInv'
  <2> SUFFICES ASSUME NEW id \in DOMAIN accepted, ~accepted'[id].former
               PROVE  LET a == accepted'[id]
                      IN  /\ queues'[a.queue] # None
                          /\ a.queue \in FifoNames /\ a.dedup # None => a.dedup \in queues'[a.queue].dedup_ids
    BY DEF DedupInv
  <2>1. ~accepted[id].former /\ accepted'[id].queue = accepted[id].queue /\ accepted'[id].dedup = accepted[id].dedup
    OBVIOUS
  <2>2. LET a == accepted[id]
        IN  /\ queues[a.queue] # None
            /\ a.queue \in FifoNames /\ a.dedup # None => a.dedup \in queues[a.queue].dedup_ids
    BY <2>1 DEF DedupInv
  <2> QED BY <2>1, <2>2
<1> QED BY <1>1, <1>2

LEMMA InitInv ==
    Init => IInv
<1> SUFFICES ASSUME Init PROVE IInv
  OBVIOUS
<1>1. DOMAIN accepted = {} /\ DOMAIN deliveries = {}
  BY DEF Init
<1>2. \A name \in QueueNames : Live(name) = <<>>
  BY DEF Init, Live
<1>3. TypeOK
  <2>1. nextId \in 1..MaxId /\ now \in 1..MaxTime
    BY SqsAssumption DEF Init
  <2>2. queues \in [QueueNames -> {None} \cup QueueRecords]
    BY DEF Init
  <2>3. accepted \in [DOMAIN accepted -> AcceptedRecords] /\ deliveries \in [DOMAIN deliveries -> DeliveryRecords]
    BY DEF Init
  <2>4. acked \cup settled \cup discarded \cup redriven \subseteq DOMAIN accepted
    BY DEF Init
  <2> QED BY <1>1, <1>2, <2>1, <2>2, <2>3, <2>4 DEF TypeOK
<1>4. MessagesInv
  <2>1. Distinct(<<>>) /\ Ordered(<<>>)
    BY DEF Distinct, Ordered
  <2>2. \A name \in QueueNames : Handles(name) = {}
    BY <1>2 DEF Handles
  <2> QED BY <1>2, <2>1, <2>2 DEF MessagesInv
<1>5. Present /\ DeliveriesInv /\ DedupInv /\ FifoDeduplicates
  BY <1>1 DEF Present, DeliveriesInv, DedupInv, FifoDeduplicates
<1> QED BY <1>3, <1>4, <1>5 DEF IInv

\* The ids and handles of messages are ones the counter has given.
Numbered == \A n \in QueueNames : \A i \in DOMAIN Live(n) : Live(n)[i].id < nextId /\ Live(n)[i].receipt_handle < nextId

\* A queue of which only some messages are left, none of them settled or of a deleted queue, is
\* as it should be.
LEMMA QueueShrinks ==
    ASSUME TypeOK, MessagesInv, NEW name \in QueueNames, NEW keep \in SUBSET (DOMAIN Live(name)),
           Live(name)' \in Seq(MessageRecords), Picks(Live(name)', Live(name), keep),
           UNCHANGED <<nextId, now, deliveries>>,
           \A n \in QueueNames : n # name => queues'[n] = queues[n],
           \A n \in QueueNames : \A i \in DOMAIN Live(n) : (n # name \/ i \in keep) =>
               /\ Live(n)[i].id \in DOMAIN accepted' \ settled'
               /\ accepted'[Live(n)[i].id].queue = n /\ ~accepted'[Live(n)[i].id].former
    PROVE  MessagesInv' /\ Numbered'
<1>1. Live(name) \in Seq(MessageRecords)
  BY LiveTypes
<1>2. Advances
  BY DEF TypeOK, Advances
<1>3. \A n \in QueueNames : \A i \in DOMAIN Live(n) :
          (n # name \/ i \in keep) => Undisturbed(n, Live(n)[i].id)
  BY DEF Undisturbed
<1>4. /\ Distinct(Live(name)) => Distinct(Live(name)')
      /\ Ordered(Live(name)) => Ordered(Live(name)')
      /\ \A k \in DOMAIN Live(name)' : \E i \in keep : Live(name)'[k] = Live(name)[i]
  BY <1>1, PicksKeeps
<1>5. Distinct(Live(name)') /\ Ordered(Live(name)')
  BY <1>4 DEF MessagesInv
<1>6. ASSUME NEW k \in DOMAIN Live(name)'
      PROVE  Placed(name, k)' /\ Leased(name, k)' /\ Live(name)'[k].receipt_handle \in Handles(name)
  <2>1. PICK i \in keep : Live(name)'[k] = Live(name)[i]
    BY <1>4, <1>6
  <2>2. i \in DOMAIN Live(name) /\ Placed(name, i) /\ Leased(name, i) /\ Undisturbed(name, Live(name)[i].id)
    BY <1>3 DEF MessagesInv
  <2>3. Live(name)'[k].receipt_handle \in Handles(name)
    BY <2>1, <2>2 DEF Handles
  <2>4. Placed(name, k)' /\ Leased(name, k)'
    BY <2>1, <2>2, <1>2, MessageStays
  <2> QED BY <2>3, <2>4
<1>7. Becomes(name)
  BY <1>5, <1>6 DEF Becomes
<1>8. MessagesInv'
  BY <1>2, <1>3, <1>7, OneQueueChanges
<1>9. Numbered'
  <2> SUFFICES ASSUME NEW n \in QueueNames, NEW k \in DOMAIN Live(n)'
               PROVE  Live(n)'[k].id < nextId' /\ Live(n)'[k].receipt_handle < nextId'
    BY DEF Numbered
  <2>1. \A i \in DOMAIN Live(n) : Live(n)[i].id < nextId /\ Live(n)[i].receipt_handle < nextId
    BY LiveTypes
  <2>2. CASE n = name
    <3>1. PICK i \in keep : Live(n)'[k] = Live(n)[i]
      BY <2>2, <1>4
    <3> QED BY <3>1, <2>1, <2>2
  <2>3. CASE n # name
    <3>1. Live(n)' = Live(n)
      BY <2>3 DEF Live
    <3> QED BY <3>1, <2>1
  <2> QED BY <2>2, <2>3
<1> QED BY <1>8, <1>9

\* What there is to show of a step that accepts and delivers nothing: what of the queue is left ...
Left(name, keep, q) ==
    /\ queues' = [queues EXCEPT ![name] = q]
    /\ UNCHANGED <<nextId, now, deliveries>>
    /\ Live(name)' \in Seq(MessageRecords) /\ Picks(Live(name)', Live(name), keep)
    /\ \A i \in keep : Live(name)[i].id \notin settled' /\ ~accepted'[Live(name)[i].id].former
    /\ \A i \in DOMAIN Live(name) : i \in keep \/ Live(name)[i].id \in (acked \cup discarded \cup redriven)'

\* ... of what was accepted ...
Remembered(name, q) ==
    /\ accepted' \in [DOMAIN accepted -> AcceptedRecords]
    /\ \A id \in DOMAIN accepted :
           /\ accepted'[id].queue = accepted[id].queue /\ accepted'[id].dedup = accepted[id].dedup
           /\ ~accepted'[id].former => ~accepted[id].former
           /\ ~accepted'[id].former /\ accepted[id].queue = name =>
                  queues[name] = q \/ (q # None /\ queues[name].dedup_ids \subseteq q.dedup_ids)
           /\ accepted[id].queue # name => accepted'[id].former = accepted[id].former

\* ... and of what was done with it.
Recorded(name) ==
    /\ \A id \in settled' : id \in settled \/ accepted[id].queue = name
    /\ (acked \cup settled \cup discarded \cup redriven)' \subseteq DOMAIN accepted
    /\ acked \cup discarded \cup redriven \subseteq (acked \cup discarded \cup redriven)'

LEMMA QuietStep ==
    ASSUME IInv, NEW name \in QueueNames, NEW keep \in SUBSET (DOMAIN Live(name)), NEW q \in {None} \cup QueueRecords,
           Left(name, keep, q), Remembered(name, q), Recorded(name)
    PROVE  IInv'
<1> USE DEF Left, Remembered, Recorded
<1>1. TypeOK /\ MessagesInv /\ Present /\ DeliveriesInv /\ DedupInv /\ FifoDeduplicates
  BY DEF IInv
<1>2. DOMAIN accepted' = DOMAIN accepted /\ queues \in [QueueNames -> {None} \cup QueueRecords]
  BY <1>1 DEF TypeOK
<1>3. queues'[name] = q /\ \A n \in QueueNames : n # name => queues'[n] = queues[n]
  BY <1>2
<1>4. \A n \in QueueNames : \A i \in DOMAIN Live(n) :
          Placed(n, i) /\ Live(n)[i].id \in DOMAIN accepted /\ accepted[Live(n)[i].id].queue = n
          /\ ~accepted[Live(n)[i].id].former /\ Live(n)[i].id \notin settled
  BY <1>1 DEF MessagesInv, Placed
<1>5. ASSUME NEW n \in QueueNames, NEW i \in DOMAIN Live(n), n # name \/ i \in keep
      PROVE  /\ Live(n)[i].id \in DOMAIN accepted' \ settled'
             /\ accepted'[Live(n)[i].id].queue = n /\ ~accepted'[Live(n)[i].id].former
  <2>1. PICK id \in DOMAIN accepted : id = Live(n)[i].id /\ accepted[id].queue = n /\ ~accepted[id].former /\ id \notin settled
    BY <1>4
  <2>2. accepted'[id].queue = n
    BY <2>1
  <2>3. CASE n = name
    BY <2>1, <2>2, <2>3, <1>2, <1>5
  <2>4. CASE n # name
    <3>1. accepted'[id].former = accepted[id].former
      BY <2>1, <2>4
    <3>2. id \notin settled'
      BY <2>1, <2>4
    <3> QED BY <2>1, <2>2, <3>1, <3>2, <1>2
  <2> QED BY <2>3, <2>4
<1>6. MessagesInv' /\ Numbered'
  BY <1>1, <1>3, <1>5, QueueShrinks
<1>7. TypeOK'
  <2>1. queues' \in [QueueNames -> {None} \cup QueueRecords]
    BY <1>2
  <2>2. nextId' \in 1..MaxId /\ now' \in 1..MaxTime
    BY <1>1 DEF TypeOK
  <2>3. /\ accepted' \in [DOMAIN accepted' -> AcceptedRecords] /\ DOMAIN accepted' \subseteq 1..(nextId' - 1)
        /\ deliveries' \in [DOMAIN deliveries' -> DeliveryRecords] /\ DOMAIN deliveries' \subseteq 1..(nextId' - 1)
    BY <1>1, <1>2 DEF TypeOK
  <2>4. (acked \cup settled \cup discarded \cup redriven)' \subseteq DOMAIN accepted'
    BY <1>2
  <2> QED BY <1>6, <2>1, <2>2, <2>3, <2>4 DEF TypeOK, Numbered
<1>8. Present'
  <2>1. \A id \in DOMAIN accepted' : accepted'[id].queue \in QueueNames
    BY DEF AcceptedRecords
  <2>2. ASSUME NEW id \in DOMAIN accepted' \ (acked \cup discarded \cup redriven)', accepted'[id].queue = name
        PROVE  \E k \in DOMAIN Live(name)' : Live(name)'[k].id = id
    <3>1. id \in DOMAIN accepted \ (acked \cup discarded \cup redriven) /\ accepted[id].queue = name
      BY <1>2, <2>2
    <3>2. PICK i \in DOMAIN Live(name) : Live(name)[i].id = id
      BY <3>1, <1>1 DEF Present
    <3>3. i \in keep
      BY <3>2, <2>2
    <3>4. \A j \in keep : \E k \in DOMAIN Live(name)' : Live(name)'[k] = Live(name)[j]
      <4>1. Live(name) \in Seq(MessageRecords)
        BY <1>1, LiveTypes
      <4> QED BY <4>1, PicksKeeps
    <3> QED BY <3>2, <3>3, <3>4
  <2> QED BY <1>1, <1>2, <1>3, <2>1, <2>2, PresentStays
<1>9. DeliveriesInv'
  BY <1>1, <1>2 DEF DeliveriesInv
<1>10. DedupInv' /\ FifoDeduplicates'
  <2>1. ASSUME NEW id \in DOMAIN accepted, ~accepted'[id].former
        PROVE  LET n == accepted[id].queue
               IN  queues'[n] = queues[n]
                   \/ (queues'[n] # None /\ queues[n].dedup_ids \subseteq queues'[n].dedup_ids)
    <3>1. accepted[id].queue \in QueueNames
      BY <1>1 DEF TypeOK, AcceptedRecords
    <3> QED BY <2>1, <3>1, <1>3
  <2> QED BY <1>1, <1>2, <2>1, DedupStays
<1> QED BY <1>6, <1>7, <1>8, <1>9, <1>10 DEF IInv

-----------------------------------------------------------------------------
(* Each operation keeps the invariant *)

LEMMA AttributesApplied ==
    ASSUME NEW q \in QueueRecords, NEW a \in AttributeSets
    PROVE  /\ ApplyAttributes(q, a) \in QueueRecords /\ ApplyAttributes(q, a).messages = q.messages
           /\ ApplyAttributes(q, a).dedup_ids = q.dedup_ids
<1>1. /\ a.visibility_timeout \in Nat \cup {None} /\ a.delay_seconds \in Nat \cup {None}
      /\ a.max_receive_count \in Nat \cup {None}
  BY SqsAssumption
<1> DEFINE v == IF a.visibility_timeout = None THEN q.visibility_timeout ELSE a.visibility_timeout
           d == IF a.delay_seconds = None THEN q.delay_seconds ELSE a.delay_seconds
           c == IF a.max_receive_count = None THEN q.max_receive_count ELSE a.max_receive_count
<1>2. v \in Nat /\ d \in Nat /\ c \in Nat \cup {None}
  BY <1>1, QueueTypes
<1>3. ApplyAttributes(q, a) = [q EXCEPT !.visibility_timeout = v, !.delay_seconds = d, !.max_receive_count = c]
  BY DEF ApplyAttributes
<1> HIDE DEF v, d, c
<1> QED BY <1>2, <1>3 DEF QueueRecords

LEMMA NewQueueType ==
    NewQueue \in QueueRecords /\ NewQueue.messages = <<>>
  BY DEF NewQueue, QueueRecords

LEMMA StutterInv ==
    IInv /\ UNCHANGED vars => IInv'
<1> SUFFICES ASSUME IInv, UNCHANGED vars PROVE IInv'
  OBVIOUS
<1>1. TypeOK'
  BY DEF IInv, TypeOK, vars, Live
<1>2. \A n : Live(n)' = Live(n) /\ Handles(n)' = Handles(n)
  BY DEF Live, Handles, vars
<1>3. \A n, i : Placed(n, i)' <=> Placed(n, i)
  BY <1>2 DEF Placed, vars
<1>4. \A id : Of(id)' = Of(id)
  BY DEF Of, vars
<1>5. \A n, i : Leased(n, i)' <=> Leased(n, i)
  BY <1>2, <1>4 DEF Leased, vars
<1>6. MessagesInv'
  BY <1>2, <1>3, <1>5 DEF IInv, MessagesInv
<1>7. Present' /\ DeliveriesInv' /\ DedupInv' /\ FifoDeduplicates'
  BY DEF IInv, Present, DeliveriesInv, DedupInv, FifoDeduplicates, vars, Live
<1> QED BY <1>1, <1>6, <1>7 DEF IInv

\* What an operation leaves of the acknowledgements and of what was accepted.
LEMMA KnownTypes ==
    ASSUME IInv
    PROVE  /\ accepted \in [DOMAIN accepted -> AcceptedRecords]
           /\ acked \cup settled \cup discarded \cup redriven \subseteq DOMAIN accepted
           /\ queues \in [QueueNames -> {None} \cup QueueRecords]
           /\ \A id \in DOMAIN accepted : accepted[id].queue \in QueueNames /\ accepted[id].former \in BOOLEAN
                                          /\ accepted[id].dedup \in DedupIds \cup {None}
           /\ \A name \in QueueNames : \A i \in DOMAIN Live(name) :
                  Live(name)[i].id \in DOMAIN accepted \ settled /\ ~accepted[Live(name)[i].id].former
                  /\ accepted[Live(name)[i].id].queue = name
<1>1. TypeOK /\ MessagesInv
  BY DEF IInv
<1>2. /\ accepted \in [DOMAIN accepted -> AcceptedRecords]
      /\ acked \cup settled \cup discarded \cup redriven \subseteq DOMAIN accepted
      /\ queues \in [QueueNames -> {None} \cup QueueRecords]
  BY <1>1 DEF TypeOK
<1>3. \A id \in DOMAIN accepted : accepted[id].queue \in QueueNames /\ accepted[id].former \in BOOLEAN
                                  /\ accepted[id].dedup \in DedupIds \cup {None}
  BY <1>2 DEF AcceptedRecords
<1> QED BY <1>1, <1>2, <1>3 DEF MessagesInv, Placed

LEMMA CreateQueueInv ==
    ASSUME IInv, NEW name \in QueueNames, NEW a \in AttributeSets, CreateQueue(name, a)
    PROVE  IInv'
<1>1. UNCHANGED <<nextId, now, accepted, deliveries, acked, settled, discarded, redriven>>
  BY DEF CreateQueue
<1>2. CASE queues[name] # None
  <2>1. UNCHANGED vars
    BY <1>1, <1>2 DEF CreateQueue, vars
  <2> QED BY <2>1, StutterInv
<1>3. CASE queues[name] = None
  <2> DEFINE q == ApplyAttributes(NewQueue, a)
  <2>1. queues' = [queues EXCEPT ![name] = q]
    BY <1>3 DEF CreateQueue
  <2>2. q \in QueueRecords /\ q.messages = <<>>
    BY NewQueueType, AttributesApplied
  <2> HIDE DEF q
  <2>3. q # None
    BY <2>2, NoneAssumption
  <2>4. Live(name) = <<>> /\ Live(name)' = <<>>
    BY <1>3, <2>1, <2>2, <2>3, KnownTypes DEF Live
  <2>5. Picks(Live(name)', Live(name), {}) /\ Live(name)' \in Seq(MessageRecords)
    BY <2>4, PicksNone
  <2>6. \A id \in DOMAIN accepted : accepted[id].queue = name => accepted[id].former
    BY <1>3 DEF IInv, DedupInv
  <2>7. Left(name, {}, q)
    BY <1>1, <2>1, <2>4, <2>5 DEF Left
  <2>8. Remembered(name, q)
    BY <1>1, <2>6, KnownTypes DEF Remembered
  <2>9. Recorded(name)
    BY <1>1, KnownTypes DEF Recorded
  <2> QED BY <2>2, <2>7, <2>8, <2>9, QuietStep
<1> QED BY <1>2, <1>3

LEMMA SetQueueAttributesInv ==
    ASSUME IInv, NEW name \in QueueNames, NEW a \in AttributeSets, SetQueueAttributes(name, a)
    PROVE  IInv'
<1>1. UNCHANGED <<nextId, now, accepted, deliveries, acked, settled, discarded, redriven>> /\ queues[name] # None
  BY DEF SetQueueAttributes
<1>2. queues[name] \in QueueRecords
  BY <1>1, KnownTypes
<1> DEFINE q == ApplyAttributes(queues[name], a)
<1>3. queues' = [queues EXCEPT ![name] = q]
  BY DEF SetQueueAttributes
<1>4. q \in QueueRecords /\ q.messages = queues[name].messages /\ q.dedup_ids = queues[name].dedup_ids
  BY <1>2, AttributesApplied
<1> HIDE DEF q
<1>5. q # None
  BY <1>4, NoneAssumption
<1>6. Live(name)' = Live(name) /\ Live(name) \in Seq(MessageRecords)
  BY <1>1, <1>3, <1>4, <1>5, <1>2, KnownTypes, QueueTypes DEF Live
<1>7. Picks(Live(name)', Live(name), DOMAIN Live(name))
  BY <1>6, PicksAll
<1>8. Left(name, DOMAIN Live(name), q)
  BY <1>1, <1>3, <1>6, <1>7, KnownTypes DEF Left
<1>9. Remembered(name, q)
  BY <1>1, <1>4, <1>5, KnownTypes DEF Remembered
<1>10. Recorded(name)
  BY <1>1, KnownTypes DEF Recorded
<1> QED BY <1>4, <1>8, <1>9, <1>10, QuietStep

LEMMA PurgeQueueInv ==
    ASSUME IInv, NEW name \in QueueNames, PurgeQueue(name)
    PROVE  IInv'
<1>1. /\ UNCHANGED <<nextId, now, accepted, deliveries, acked, settled, redriven>> /\ queues[name] # None
      /\ discarded' = discarded \cup Ids(name)
  BY DEF PurgeQueue
<1>2. queues[name] \in QueueRecords /\ <<>> \in Seq(MessageRecords)
  BY <1>1, KnownTypes
<1> DEFINE q == Holding(queues[name], <<>>)
<1>3. queues' = [queues EXCEPT ![name] = q]
  BY DEF PurgeQueue, Holding
<1>4. q \in QueueRecords /\ q.messages = <<>> /\ q.dedup_ids = queues[name].dedup_ids
  BY <1>2, HoldingTypes
<1> HIDE DEF q
<1>5. q # None
  BY <1>4, NoneAssumption
<1>6. Live(name)' = <<>>
  BY <1>3, <1>4, <1>5, KnownTypes DEF Live
<1>7. Picks(Live(name)', Live(name), {})
  BY <1>6, PicksNone
<1>8. Ids(name) = {Live(name)[i].id : i \in DOMAIN Live(name)}
  BY <1>1 DEF Ids, Live
<1>9. Ids(name) \subseteq DOMAIN accepted /\ \A i \in DOMAIN Live(name) : Live(name)[i].id \in discarded'
  BY <1>1, <1>8, KnownTypes
<1>10. Left(name, {}, q)
  BY <1>1, <1>2, <1>3, <1>6, <1>7, <1>9 DEF Left
<1>11. Remembered(name, q)
  BY <1>1, <1>4, <1>5, KnownTypes DEF Remembered
<1>12. Recorded(name)
  BY <1>1, <1>9, KnownTypes DEF Recorded
<1> QED BY <1>4, <1>10, <1>11, <1>12, QuietStep

LEMMA DeleteQueueInv ==
    ASSUME IInv, NEW name \in QueueNames, DeleteQueue(name)
    PROVE  IInv'
<1>1. /\ UNCHANGED <<nextId, now, deliveries, acked, settled, redriven>> /\ queues[name] # None
      /\ discarded' = discarded \cup Ids(name) /\ queues' = [queues EXCEPT ![name] = None]
  BY DEF DeleteQueue
<1>2. <<>> \in Seq(MessageRecords)
  OBVIOUS
<1>3. Live(name)' = <<>>
  BY <1>1, KnownTypes DEF Live
<1>4. Picks(Live(name)', Live(name), {})
  BY <1>3, PicksNone
<1>5. Ids(name) = {Live(name)[i].id : i \in DOMAIN Live(name)}
  BY <1>1 DEF Ids, Live
<1>6. Ids(name) \subseteq DOMAIN accepted /\ \A i \in DOMAIN Live(name) : Live(name)[i].id \in discarded'
  BY <1>1, <1>5, KnownTypes
<1>7. accepted' = [id \in DOMAIN accepted |->
                     [accepted[id] EXCEPT !.former = accepted[id].former \/ accepted[id].queue = name]]
  BY DEF DeleteQueue
<1>8. ASSUME NEW id \in DOMAIN accepted
      PROVE  /\ accepted'[id] \in AcceptedRecords
             /\ accepted'[id].queue = accepted[id].queue /\ accepted'[id].dedup = accepted[id].dedup
             /\ accepted'[id].former = (accepted[id].former \/ accepted[id].queue = name)
  <2> DEFINE f == accepted[id].former \/ accepted[id].queue = name
  <2>1. f \in BOOLEAN /\ accepted[id] \in AcceptedRecords
    BY KnownTypes
  <2>2. accepted'[id] = [accepted[id] EXCEPT !.former = f]
    BY <1>7
  <2> HIDE DEF f
  <2>3. /\ accepted'[id] \in AcceptedRecords /\ accepted'[id].former = f
        /\ accepted'[id].queue = accepted[id].queue /\ accepted'[id].dedup = accepted[id].dedup
    BY <2>1, <2>2 DEF AcceptedRecords
  <2> QED BY <2>3 DEF f
<1>9. accepted' \in [DOMAIN accepted -> AcceptedRecords]
  BY <1>7, <1>8
<1>10. \A id \in DOMAIN accepted :
           /\ accepted'[id].queue = accepted[id].queue /\ accepted'[id].dedup = accepted[id].dedup
           /\ ~accepted'[id].former => ~accepted[id].former /\ accepted[id].queue # name
           /\ accepted[id].queue # name => accepted'[id].former = accepted[id].former
  BY <1>8, KnownTypes
<1>11. Left(name, {}, None)
  BY <1>1, <1>2, <1>3, <1>4, <1>6 DEF Left
<1>12. Remembered(name, None)
  BY <1>9, <1>10 DEF Remembered
<1>13. Recorded(name)
  BY <1>1, <1>6, KnownTypes DEF Recorded
<1> QED BY <1>11, <1>12, <1>13, QuietStep

\* The deliveries of a message can be counted.
LEMMA OfFinite ==
    ASSUME TypeOK, NEW id
    PROVE  /\ IsFiniteSet(DOMAIN deliveries) /\ IsFiniteSet(Of(id)) /\ Cardinality(Of(id)) \in Nat
           /\ Cardinality(Of(id)) = 0 <=> Of(id) = {}
<1>1. DOMAIN deliveries \subseteq 1..(nextId - 1) /\ nextId - 1 \in Int /\ 1 \in Int
  BY DEF TypeOK
<1>2. IsFiniteSet(DOMAIN deliveries)
  BY <1>1, FS_Interval, FS_Subset
<1>3. Of(id) \subseteq DOMAIN deliveries
  BY DEF Of
<1> QED BY <1>2, <1>3, FS_Subset, FS_CardinalityType, FS_EmptySet

\* The handle of a message, if it was ever given out, is that of its latest delivery.
LEMMA CurrentHandle ==
    ASSUME IInv, NEW name \in QueueNames, NEW i \in DOMAIN Live(name)
    PROVE  LET m == Live(name)[i]
               h == m.receipt_handle
           IN  /\ h \in DOMAIN deliveries => IsLatest(h) /\ deliveries[h].id = m.id /\ deliveries[h].queue = name
               /\ \A g \in Of(m.id) : IsLatest(g) => g = h
               /\ Of(m.id) # {} => h \in DOMAIN deliveries /\ m.receive_count > 0
<1> DEFINE m == Live(name)[i]
           h == m.receipt_handle
<1>1. TypeOK /\ Leased(name, i) /\ Placed(name, i) /\ DeliveriesInv
  BY DEF IInv, MessagesInv
<1>2. h \in Nat /\ m \in MessageRecords /\ m.receive_count \in Nat
  BY <1>1, LiveTypes, MessageTypes
<1>3. DOMAIN deliveries \subseteq Nat
  BY <1>1 DEF TypeOK
<1>4. /\ m.receive_count = Cardinality(Of(m.id))
      /\ h \in DOMAIN deliveries => h \in Of(m.id)
      /\ m.receive_count > 0 => h \in DOMAIN deliveries
      /\ \A g \in Of(m.id) : g <= h
  BY <1>1 DEF Leased
<1>5. m.id \in DOMAIN accepted /\ accepted[m.id].queue = name
  BY <1>1 DEF Placed
<1> HIDE DEF m, h
<1>6. ASSUME h \in DOMAIN deliveries PROVE IsLatest(h) /\ deliveries[h].id = m.id /\ deliveries[h].queue = name
  <2>1. deliveries[h].id = m.id
    BY <1>4, <1>6 DEF Of
  <2>2. deliveries[h].queue = name
    BY <2>1, <1>1, <1>5, <1>6 DEF DeliveriesInv
  <2>3. IsLatest(h)
    BY <2>1, <1>4 DEF IsLatest, Of
  <2> QED BY <2>1, <2>2, <2>3
<1>7. ASSUME Of(m.id) # {} PROVE h \in DOMAIN deliveries /\ m.receive_count > 0
  <2>1. m.receive_count # 0
    BY <1>1, <1>4, <1>7, OfFinite
  <2>2. m.receive_count > 0
    BY <2>1, <1>2
  <2> QED BY <2>2, <1>4
<1>8. ASSUME NEW g \in Of(m.id), IsLatest(g) PROVE g = h
  <2>1. h \in Of(m.id) /\ g <= h
    BY <1>4, <1>7
  <2>2. h <= g
    BY <2>1, <1>8 DEF IsLatest, Of
  <2>3. g \in Nat
    BY <1>3 DEF Of
  <2> QED BY <2>1, <2>2, <2>3, <1>2
<1> QED BY <1>6, <1>7, <1>8 DEF m, h

\* The handles of a request.
LEMMA Batches ==
    ASSUME NEW handles \in HandleBatches
    PROVE  /\ handles \in Seq(DOMAIN deliveries) /\ UpTo(handles, Len(handles)) = Range(handles)
           /\ Range(handles) \subseteq DOMAIN deliveries
<1>1. PICK n \in 1..MaxBatch : handles \in [1..n -> DOMAIN deliveries]
  BY DEF HandleBatches
<1>2. n \in Nat
  BY SqsAssumption
<1>3. handles \in Seq(DOMAIN deliveries) /\ Len(handles) = n /\ DOMAIN handles = 1..n
  BY <1>1, <1>2
<1> QED BY <1>1, <1>3 DEF UpTo, Range

LEMMA DeleteMessagesInv ==
    ASSUME IInv, NEW name \in QueueNames, NEW handles \in HandleBatches, DeleteMessages(name, handles)
    PROVE  IInv'
<1> DEFINE rightQueue == {h \in Range(handles) : deliveries[h].queue = name}
           ackedNow == {deliveries[h].id : h \in rightQueue}
           settledNow == {deliveries[h].id : h \in {g \in rightQueue : IsLatest(g)}}
           keep == Outside(Live(name), Range(handles))
<1>1. /\ UNCHANGED <<nextId, now, accepted, deliveries, discarded, redriven>>
      /\ acked' = acked \cup ackedNow /\ settled' = settled \cup settledNow
  BY DEF DeleteMessages
<1>2. Range(handles) \subseteq DOMAIN deliveries
  BY Batches
<1>3. \A id \in ackedNow \cup settledNow : id \in DOMAIN accepted /\ accepted[id].queue = name
  BY <1>2 DEF IInv, DeliveriesInv
<1>4. \A id \in settledNow : \E g \in Of(id) : g \in Range(handles) /\ IsLatest(g)
  BY <1>2 DEF Of
<1>5. \A h \in Range(handles) : deliveries[h].queue = name => deliveries[h].id \in ackedNow
  OBVIOUS
<1> HIDE DEF ackedNow, settledNow, rightQueue
<1>6. Recorded(name)
  BY <1>1, <1>3, KnownTypes DEF Recorded
<1>7. keep \in SUBSET (DOMAIN Live(name))
  BY DEF Outside
<1>8. ASSUME NEW i \in keep PROVE Live(name)[i].id \notin settled' /\ ~accepted'[Live(name)[i].id].former
  <2>1. i \in DOMAIN Live(name) /\ Live(name)[i].receipt_handle \notin Range(handles)
    BY DEF Outside
  <2>2. Live(name)[i].id \notin settled /\ ~accepted[Live(name)[i].id].former
    BY <2>1, KnownTypes
  <2>3. \A g \in Of(Live(name)[i].id) : IsLatest(g) => g = Live(name)[i].receipt_handle
    BY <2>1, CurrentHandle
  <2>4. Live(name)[i].id \notin settledNow
    BY <2>1, <2>3, <1>4
  <2> QED BY <2>2, <2>4, <1>1
<1>9. ASSUME NEW i \in DOMAIN Live(name) PROVE i \in keep \/ Live(name)[i].id \in (acked \cup discarded \cup redriven)'
  <2> SUFFICES ASSUME Live(name)[i].receipt_handle \in Range(handles) PROVE Live(name)[i].id \in acked'
    BY DEF Outside
  <2>1. LET h == Live(name)[i].receipt_handle IN deliveries[h].id = Live(name)[i].id /\ deliveries[h].queue = name
    BY <1>2, CurrentHandle
  <2> QED BY <2>1, <1>1, <1>5
<1>10. \A q : (/\ queues[name] = None \/ q # None
               /\ queues[name] # None => queues[name].dedup_ids \subseteq q.dedup_ids
               /\ queues[name] = None => q = None)
             => Remembered(name, q)
  BY <1>1, KnownTypes DEF Remembered
<1>11. CASE queues[name] = None
  <2>1. queues' = [queues EXCEPT ![name] = None]
    BY <1>11, KnownTypes DEF DeleteMessages
  <2>2. Live(name) = <<>> /\ Live(name)' = <<>> /\ keep = {}
    BY <1>11, <2>1, KnownTypes DEF Live, Outside
  <2>3. Picks(Live(name)', Live(name), keep) /\ Live(name)' \in Seq(MessageRecords)
    BY <2>2, PicksNone
  <2>4. Left(name, keep, None)
    BY <1>1, <1>8, <1>9, <2>1, <2>3 DEF Left
  <2>5. Remembered(name, None)
    BY <1>10, <1>11
  <2> QED BY <1>6, <1>7, <2>4, <2>5, QuietStep
<1>12. CASE queues[name] # None
  <2>1. /\ queues[name] \in QueueRecords /\ Live(name) = queues[name].messages
        /\ Distinct(queues[name].messages)
    BY <1>12, LiveTypes DEF IInv, MessagesInv
  <2>2. handles \in Seq(DOMAIN deliveries) /\ UpTo(handles, Len(handles)) = Range(handles)
    BY Batches
  <2>3. PICK r \in Seq(MessageRecords) :
               /\ AllDeleted(queues[name], handles) = Holding(queues[name], r)
               /\ Picks(r, queues[name].messages, Outside(queues[name].messages, UpTo(handles, Len(handles))))
    BY <2>1, <2>2, AllDeletedPicks
  <2> DEFINE q == Holding(queues[name], r)
  <2>4. queues' = [queues EXCEPT ![name] = q]
    BY <1>12, <2>3 DEF DeleteMessages
  <2>5. q \in QueueRecords /\ q.messages = r /\ q.dedup_ids = queues[name].dedup_ids
    BY <2>1, HoldingTypes
  <2> HIDE DEF q
  <2>6. q # None
    BY <2>5, NoneAssumption
  <2>7. Live(name)' = r
    BY <2>4, <2>5, <2>6, KnownTypes DEF Live
  <2>8. Picks(Live(name)', Live(name), keep) /\ Live(name)' \in Seq(MessageRecords)
    BY <2>1, <2>2, <2>3, <2>7
  <2>9. Left(name, keep, q)
    BY <1>1, <1>8, <1>9, <2>4, <2>8 DEF Left
  <2>10. Remembered(name, q)
    BY <1>10, <1>12, <2>5, <2>6
  <2> HIDE DEF keep
  <2> QED BY <1>6, <1>7, <2>5, <2>9, <2>10, QuietStep
<1> QED BY <1>11, <1>12

\* What is known of a delivery.
LEMMA DeliveryTypes ==
    ASSUME IInv, NEW g \in DOMAIN deliveries
    PROVE  /\ deliveries[g] \in DeliveryRecords /\ g \in Nat /\ g < nextId
           /\ deliveries[g].until \in Nat /\ deliveries[g].limit \in Nat \cup {None}
           /\ deliveries[g].id \in DOMAIN accepted /\ deliveries[g].queue = accepted[deliveries[g].id].queue
<1>1. TypeOK /\ DeliveriesInv
  BY DEF IInv
<1>2. deliveries[g] \in DeliveryRecords /\ g \in 1..(nextId - 1) /\ nextId \in Nat
  BY <1>1 DEF TypeOK
<1> QED BY <1>1, <1>2 DEF DeliveriesInv, DeliveryRecords

LEMMA ChangeMessageVisibilityInv ==
    ASSUME IInv, NEW name \in QueueNames, NEW handles \in HandleBatches, NEW timeout \in Timeouts,
           ChangeMessageVisibility(name, handles, timeout)
    PROVE  IInv'
<1> DEFINE H == Range(handles)
           Hit(h) == h \in H /\ deliveries[h].queue = name /\ IsLatest(h)
<1>1. UNCHANGED <<nextId, now, accepted, acked, settled, discarded, redriven>>
  BY DEF ChangeMessageVisibility
<1>2. TypeOK /\ MessagesInv /\ Present /\ DeliveriesInv /\ DedupInv /\ FifoDeduplicates
  BY DEF IInv
<1>3. PICK v \in Nat : v = VisibleAfter(timeout)
  <2>1. timeout \in Nat /\ now \in Nat
    BY <1>2, SqsAssumption DEF TypeOK
  <2> QED BY <2>1, VisibleAfterTypes
<1>4. H \subseteq DOMAIN deliveries
  BY Batches
<1>5. deliveries' = [h \in DOMAIN deliveries |->
          IF Hit(h) THEN [deliveries[h] EXCEPT !.until = v] ELSE deliveries[h]]
  BY <1>3 DEF ChangeMessageVisibility
<1> HIDE DEF H, Hit
<1>6. ASSUME NEW g \in DOMAIN deliveries
      PROVE  /\ deliveries'[g] \in DeliveryRecords
             /\ deliveries'[g].id = deliveries[g].id /\ deliveries'[g].queue = deliveries[g].queue
             /\ deliveries'[g].limit = deliveries[g].limit
             /\ Hit(g) => deliveries'[g].until = v
             /\ ~Hit(g) => deliveries'[g] = deliveries[g]
  <2>1. deliveries[g] \in DeliveryRecords
    BY DeliveryTypes
  <2>2. CASE Hit(g)
    <3>1. deliveries'[g] = [deliveries[g] EXCEPT !.until = v]
      BY <2>2, <1>5
    <3> QED BY <2>1, <2>2, <3>1 DEF DeliveryRecords
  <2>3. CASE ~Hit(g)
    BY <2>1, <2>3, <1>5
  <2> QED BY <2>2, <2>3
<1>7. DOMAIN deliveries' = DOMAIN deliveries /\ deliveries' \in [DOMAIN deliveries' -> DeliveryRecords]
  BY <1>5, <1>6
<1>8. Advances
  BY <1>1, <1>2 DEF TypeOK, Advances
<1>9. ASSUME NEW n \in QueueNames, n # name, NEW i \in DOMAIN Live(n) PROVE Undisturbed(n, Live(n)[i].id)
  <2>1. PICK id \in DOMAIN accepted : id = Live(n)[i].id /\ accepted[id].queue = n /\ ~accepted[id].former /\ id \notin settled
    BY KnownTypes
  <2>2. \A g \in DOMAIN deliveries : deliveries[g].id = id => ~Hit(g)
    BY <2>1, <1>9, DeliveryTypes DEF Hit
  <2> QED BY <2>1, <2>2, <1>1, <1>6, <1>7 DEF Undisturbed
<1>10. \A id : Of(id)' = Of(id)
  BY <1>6, <1>7 DEF Of
<1> DEFINE s == Live(name)
           t == Changed(s, H, v)
<1>11. s \in Seq(MessageRecords) /\ Distinct(s) /\ Ordered(s)
  BY <1>2, LiveTypes DEF MessagesInv
<1>12. /\ t \in Seq(MessageRecords) /\ DOMAIN t = DOMAIN s
       /\ Distinct(t) /\ Ordered(t)
       /\ \A i \in DOMAIN s :
                  /\ t[i].id = s[i].id /\ t[i].receipt_handle = s[i].receipt_handle
                  /\ t[i].receive_count = s[i].receive_count /\ t[i].delayed = s[i].delayed
                  /\ t[i].visible_after = IF s[i].receipt_handle \in H THEN v ELSE s[i].visible_after
  BY <1>11, ChangedTypes
<1>13. /\ Live(name)' = t
       /\ \A n \in QueueNames : n # name => queues'[n] = queues[n]
       /\ queues' \in [QueueNames -> {None} \cup QueueRecords]
       /\ queues'[name] = None <=> queues[name] = None
       /\ queues[name] # None => queues'[name].dedup_ids = queues[name].dedup_ids
  <2>1. CASE queues[name] = None
    <3>1. queues' = queues
      BY <2>1 DEF ChangeMessageVisibility
    <3>2. s = <<>> /\ Live(name)' = <<>>
      BY <2>1, <3>1 DEF Live
    <3>3. t = <<>>
      <4>1. Len(t) = 0
        BY <1>12, <3>2
      <4> HIDE DEF t
      <4> QED BY <4>1, <1>12
    <3> QED BY <2>1, <3>1, <3>2, <3>3, KnownTypes
  <2>2. CASE queues[name] # None
    <3>1. queues[name] \in QueueRecords /\ s = queues[name].messages
      BY <2>2, <1>2, LiveTypes
    <3>2. handles \in Seq(DOMAIN deliveries) /\ UpTo(handles, Len(handles)) = H
      BY Batches DEF H
    <3>3. AllChanged(queues[name], handles, timeout) = Holding(queues[name], t)
      <4>1. AllChanged(queues[name], handles, timeout)
            = Holding(queues[name], Changed(queues[name].messages, UpTo(handles, Len(handles)), v))
        BY <1>3, <1>11, <3>1, <3>2, AllChangedIs
      <4> QED BY <4>1, <3>1, <3>2
    <3> DEFINE q == Holding(queues[name], t)
    <3> HIDE DEF t
    <3>4. queues' = [queues EXCEPT ![name] = q]
      BY <2>2, <3>3 DEF ChangeMessageVisibility
    <3>5. q \in QueueRecords /\ q.messages = t /\ q.dedup_ids = queues[name].dedup_ids
      BY <1>12, <3>1, HoldingTypes
    <3> HIDE DEF q
    <3>6. q # None
      BY <3>5, NoneAssumption
    <3>7. queues'[name] = q /\ \A n \in QueueNames : n # name => queues'[n] = queues[n]
      BY <3>4, KnownTypes
    <3>8. Live(name)' = t
      BY <3>5, <3>6, <3>7 DEF Live
    <3>9. queues' \in [QueueNames -> {None} \cup QueueRecords]
      BY <3>4, <3>5, KnownTypes
    <3> QED BY <2>2, <3>5, <3>6, <3>7, <3>8, <3>9
  <2> QED BY <2>1, <2>2
<1>14. ASSUME NEW i \in DOMAIN s
       PROVE  /\ Placed(name, i) /\ Leased(name, i)
              /\ s[i].receipt_handle \in DOMAIN deliveries =>
                     IsLatest(s[i].receipt_handle) /\ deliveries[s[i].receipt_handle].queue = name
              /\ \A g \in Of(s[i].id) : IsLatest(g) => g = s[i].receipt_handle
              /\ s[i].receipt_handle \in H => s[i].receive_count > 0
  <2>1. Placed(name, i) /\ Leased(name, i)
    BY <1>2 DEF MessagesInv
  <2>2. /\ s[i].receipt_handle \in DOMAIN deliveries =>
               IsLatest(s[i].receipt_handle) /\ deliveries[s[i].receipt_handle].queue = name
        /\ \A g \in Of(s[i].id) : IsLatest(g) => g = s[i].receipt_handle
    BY CurrentHandle
  <2>3. Of(s[i].id) # {} => s[i].receive_count > 0
    BY CurrentHandle
  <2>4. s[i].receipt_handle \in H => Of(s[i].id) # {}
    BY <1>4, <2>1 DEF Leased
  <2> QED BY <2>1, <2>2, <2>3, <2>4
<1> HIDE DEF t
<1>15. ASSUME NEW k \in DOMAIN t PROVE Placed(name, k)'
  <2>1. /\ s[k].id \in DOMAIN accepted \ settled /\ accepted[s[k].id].queue = name /\ ~accepted[s[k].id].former
        /\ s[k].receipt_handle \in 1..(nextId - 1)
        /\ ~s[k].delayed /\ s[k].receive_count = 0 => s[k].visible_after = 0
    BY <1>12, <1>14 DEF Placed
  <2>2. ~t[k].delayed /\ t[k].receive_count = 0 => t[k].visible_after = 0
    BY <2>1, <1>12, <1>14
  <2> QED BY <2>1, <2>2, <1>1, <1>12, <1>13 DEF Placed
<1>16. ASSUME NEW k \in DOMAIN t PROVE Leased(name, k)'
  <2>0. k \in DOMAIN s
    BY <1>12
  <2> DEFINE id == s[k].id
             h == s[k].receipt_handle
  <2>1. /\ s[k].receive_count = Cardinality(Of(id))
        /\ h \in DOMAIN deliveries => h \in Of(id)
        /\ s[k].receive_count > 0 =>
               h \in DOMAIN deliveries /\ (deliveries[h].limit # None => s[k].receive_count < deliveries[h].limit)
        /\ \A g \in Of(id) :
               g <= h /\ (deliveries[g].until <= now \/ (g = h /\ deliveries[g].until = s[k].visible_after))
    BY <1>14, <2>0 DEF Leased
  <2>2. ASSUME NEW g \in Of(id)
        PROVE  g <= h /\ (deliveries'[g].until <= now \/ (g = h /\ deliveries'[g].until = t[k].visible_after))
    <3>1. g \in DOMAIN deliveries /\ g <= h
      BY <2>1 DEF Of
    <3>2. CASE Hit(g)
      <4>1. g = h /\ g \in H
        BY <3>2, <2>0, <1>14 DEF Hit
      <4>2. t[k].visible_after = v
        BY <4>1, <2>0, <1>12
      <4> QED BY <3>1, <3>2, <4>1, <4>2, <1>6
    <3>3. CASE ~Hit(g)
      <4>1. deliveries'[g] = deliveries[g]
        BY <3>1, <3>3, <1>6
      <4>2. g = h => h \notin H
        BY <3>1, <3>3, <2>0, <1>14 DEF Hit
      <4>3. g = h => t[k].visible_after = s[k].visible_after
        BY <4>2, <2>0, <1>12
      <4> QED BY <3>1, <4>1, <4>3, <2>1
    <3> QED BY <3>2, <3>3
  <2>3. t[k].receive_count > 0 =>
            h \in DOMAIN deliveries' /\ (deliveries'[h].limit # None => t[k].receive_count < deliveries'[h].limit)
    <3>1. t[k].receive_count = s[k].receive_count
      BY <2>0, <1>12
    <3>2. h \in DOMAIN deliveries => h \in DOMAIN deliveries' /\ deliveries'[h].limit = deliveries[h].limit
      BY <1>6, <1>7
    <3> QED BY <2>1, <3>1, <3>2
  <2>4. t[k].id = id /\ t[k].receipt_handle = h /\ t[k].receive_count = Cardinality(Of(id))
    BY <2>0, <2>1, <1>12
  <2>5. h \in DOMAIN deliveries' => h \in Of(id)
    BY <2>1, <1>7
  <2>6. Of(Live(name)[k].id)' = Of(id)
    <3>1. Live(name)'[k].id = id
      BY <2>4, <1>13
    <3> HIDE DEF id
    <3> QED BY <3>1, <1>6, <1>7 DEF Of
  <2> HIDE DEF id, h
  <2> QED BY <2>2, <2>3, <2>4, <2>5, <2>6, <1>1, <1>13 DEF Leased
<1>17. MessagesInv'
  <2>1. \A k \in DOMAIN t : t[k].receipt_handle \in Handles(name)
    BY <1>12 DEF Handles
  <2>2. Becomes(name)
    BY <2>1, <1>12, <1>13, <1>15, <1>16 DEF Becomes
  <2> QED BY <2>2, <1>2, <1>8, <1>9, <1>13, OneQueueChanges
<1>18. TypeOK'
  <2>1. ASSUME NEW n \in QueueNames, NEW i \in DOMAIN Live(n)'
        PROVE  Live(n)'[i].id < nextId' /\ Live(n)'[i].receipt_handle < nextId'
    <3>1. \A j \in DOMAIN Live(n) : Live(n)[j].id < nextId /\ Live(n)[j].receipt_handle < nextId
      BY <1>2, LiveTypes
    <3>2. CASE n = name
      BY <3>1, <3>2, <1>1, <1>12, <1>13
    <3>3. CASE n # name
      <4>1. Live(n)' = Live(n)
        BY <3>3, <1>13 DEF Live
      <4> QED BY <3>1, <4>1, <1>1
    <3> QED BY <3>2, <3>3
  <2>2. DOMAIN deliveries' \subseteq 1..(nextId' - 1)
    BY <1>1, <1>2, <1>7 DEF TypeOK
  <2> QED BY <2>1, <2>2, <1>1, <1>2, <1>7, <1>13 DEF TypeOK
<1>19. Present'
  <2>1. \A id \in DOMAIN accepted' \ (acked \cup discarded \cup redriven)' :
            accepted'[id].queue = name => \E k \in DOMAIN Live(name)' : Live(name)'[k].id = id
    <3> SUFFICES ASSUME NEW id \in DOMAIN accepted \ (acked \cup discarded \cup redriven), accepted[id].queue = name
                 PROVE  \E k \in DOMAIN t : t[k].id = id
      BY <1>1, <1>13
    <3>1. PICK i \in DOMAIN s : s[i].id = id
      BY <1>2 DEF Present
    <3> QED BY <3>1, <1>12
  <2>2. \A id \in DOMAIN accepted' : accepted'[id].queue \in QueueNames
    BY <1>1, KnownTypes
  <2> QED BY <2>1, <2>2, <1>1, <1>2, <1>13, PresentStays
<1>20. DeliveriesInv'
  BY <1>1, <1>2, <1>6, <1>7 DEF DeliveriesInv
<1>21. DedupInv' /\ FifoDeduplicates'
  <2>1. ASSUME NEW id \in DOMAIN accepted, ~accepted[id].former
        PROVE  LET n == accepted[id].queue
               IN  queues'[n] = queues[n]
                   \/ (queues'[n] # None /\ queues[n].dedup_ids \subseteq queues'[n].dedup_ids)
    <3>1. PICK n \in QueueNames : n = accepted[id].queue
      BY KnownTypes
    <3>2. queues[n] # None
      BY <2>1, <3>1, <1>2 DEF DedupInv
    <3>3. CASE n = name
      BY <3>1, <3>2, <3>3, <1>13
    <3>4. CASE n # name
      BY <3>1, <3>4, <1>13
    <3> QED BY <3>3, <3>4
  <2> QED BY <1>1, <1>2, <2>1, DedupStays
<1> QED BY <1>17, <1>18, <1>19, <1>20, <1>21 DEF IInv

LEMMA TickInv ==
    ASSUME IInv, Tick
    PROVE  IInv'
<1>1. UNCHANGED <<queues, nextId, accepted, deliveries, acked, settled, discarded, redriven>> /\ now' = now + 1 /\ now < MaxTime
  BY DEF Tick
<1>2. TypeOK /\ MessagesInv /\ Present /\ DeliveriesInv /\ DedupInv /\ FifoDeduplicates
  BY DEF IInv
<1>3. \A n : Live(n)' = Live(n) /\ Handles(n)' = Handles(n)
  BY <1>1 DEF Live, Handles
<1>4. now \in 1..MaxTime /\ now' \in 1..MaxTime
  BY <1>1, <1>2, SqsAssumption DEF TypeOK
<1>5. Advances
  BY <1>1, <1>2, <1>4 DEF TypeOK, Advances
<1>6. ASSUME NEW n \in QueueNames, NEW i \in DOMAIN Live(n) PROVE Placed(n, i)' /\ Leased(n, i)'
  <2>1. Undisturbed(n, Live(n)[i].id)
    BY <1>1, KnownTypes DEF Undisturbed
  <2>2. Placed(n, i) /\ Leased(n, i) /\ Live(n)'[i] = Live(n)[i]
    BY <1>2, <1>3 DEF MessagesInv
  <2> QED BY <2>1, <2>2, <1>2, <1>5, MessageStays
<1>7. MessagesInv'
  BY <1>2, <1>3, <1>6 DEF MessagesInv
<1>8. TypeOK'
  BY <1>1, <1>2, <1>3, <1>4 DEF TypeOK
<1>9. Present' /\ DeliveriesInv' /\ DedupInv' /\ FifoDeduplicates'
  BY <1>1, <1>2, <1>3 DEF Present, DeliveriesInv, DedupInv, FifoDeduplicates, Live
<1> QED BY <1>7, <1>8, <1>9 DEF IInv

LEMMA SendMessagesInv ==
    ASSUME IInv, NEW name \in QueueNames, NEW entries \in Seq(Entries), SendMessages(name, entries)
    PROVE  IInv'
<1>1. /\ UNCHANGED <<now, deliveries, acked, settled, discarded, redriven>> /\ queues[name] # None
      /\ nextId + 2 * Len(entries) <= MaxId
  BY DEF SendMessages
<1>2. TypeOK /\ MessagesInv /\ Present /\ DeliveriesInv /\ DedupInv /\ FifoDeduplicates
  BY DEF IInv
<1>3. /\ nextId \in Nat \ {0} /\ now \in Nat /\ nextId \in 1..MaxId /\ now \in 1..MaxTime
      /\ queues[name] \in QueueRecords /\ Live(name) \in Seq(MessageRecords) /\ Live(name) = queues[name].messages
      /\ accepted \in PartialAccepted
  <2>1. nextId \in 1..MaxId /\ now \in 1..MaxTime
    BY <1>2 DEF TypeOK
  <2>2. accepted \in [DOMAIN accepted -> AcceptedRecords] /\ DOMAIN accepted \subseteq Nat
    BY <1>2 DEF TypeOK
  <2> QED BY <2>1, <2>2, <1>1, <1>2, LiveTypes, PartialTypes
<1> DEFINE s == Live(name)
<1>4. PICK base \in SendRecords :
            /\ base = [q |-> queues[name], next |-> nextId, accepted |-> accepted]
            /\ base.q = queues[name] /\ base.next = nextId /\ base.accepted = accepted
  <2> DEFINE b == [q |-> queues[name], next |-> nextId, accepted |-> accepted]
  <2>1. b \in SendRecords /\ b.q = queues[name] /\ b.next = nextId /\ b.accepted = accepted
    BY <1>3 DEF SendRecords
  <2> QED BY <2>1
<1>5. Sending(name, base)
  <2>1. SentPlaces(name, base)
    <3>1. \A i \in DOMAIN s : s[i].id < nextId /\ s[i].receipt_handle < nextId
      BY <1>2, LiveTypes
    <3>2. Distinct(s)
      BY <1>2 DEF MessagesInv
    <3>3. Len(s) <= Len(s)
      BY <1>3
    <3> QED BY <3>1, <3>2, <3>3, <1>3, <1>4 DEF SentPlaces
  <2>2. SentAccepted(name, base)
    BY <1>2, <1>3, <1>4 DEF SentAccepted, TypeOK
  <2>3. SentDedups(name, base)
    BY <1>2, <1>4 DEF SentDedups, DedupInv, FifoDeduplicates
  <2> QED BY <2>1, <2>2, <2>3 DEF Sending
<1>6. PICK done \in SendRecords :
            done = Sent(name, entries) /\ Sending(name, done) /\ done.next <= nextId + 2 * Len(entries)
  BY <1>3, <1>4, <1>5, AllSent
<1>7. /\ queues' = [queues EXCEPT ![name] = done.q] /\ nextId' = done.next /\ accepted' = done.accepted
  BY <1>6 DEF SendMessages
<1>8. /\ done.q \in QueueRecords /\ done.next \in Nat /\ done.accepted \in PartialAccepted
      /\ done.q.messages \in Seq(MessageRecords)
  BY SendTypes, QueueTypes
<1> DEFINE t == done.q.messages
<1>9. /\ Live(name)' = t /\ queues'[name] = done.q /\ done.q # None
      /\ \A n \in QueueNames : n # name => queues'[n] = queues[n]
      /\ queues' \in [QueueNames -> {None} \cup QueueRecords]
  <2>1. done.q # None
    BY <1>8, NoneAssumption
  <2>2. queues'[name] = done.q /\ \A n \in QueueNames : n # name => queues'[n] = queues[n]
    BY <1>7, KnownTypes
  <2>3. queues' \in [QueueNames -> {None} \cup QueueRecords]
    BY <1>7, <1>8, KnownTypes
  <2> QED BY <2>1, <2>2, <2>3 DEF Live
<1>10. nextId <= nextId' /\ nextId' \in 1..MaxId
  <2>1. nextId <= done.next
    BY <1>6 DEF Sending, SentAccepted
  <2>2. Len(entries) \in Nat /\ MaxId \in Nat
    BY SqsAssumption
  <2> QED BY <2>1, <2>2, <1>1, <1>3, <1>6, <1>7, <1>8
<1>11. Advances
  BY <1>1, <1>3, <1>7, <1>8, <1>10 DEF Advances
<1>12. /\ DOMAIN accepted \subseteq DOMAIN accepted' /\ DOMAIN accepted' \subseteq 1..(nextId' - 1)
       /\ \A id \in DOMAIN accepted : accepted'[id] = accepted[id]
       /\ \A id \in DOMAIN accepted' \ DOMAIN accepted :
              nextId <= id /\ accepted'[id].queue = name /\ ~accepted'[id].former /\ \E i \in DOMAIN t : t[i].id = id
  BY <1>6, <1>7 DEF Sending, SentAccepted
<1>13. /\ DOMAIN s = 1..Len(s) /\ DOMAIN t = 1..Len(t) /\ Len(s) \in Nat /\ Len(t) \in Nat /\ Len(s) <= Len(t)
       /\ \A i \in DOMAIN s : t[i] = s[i] /\ i \in DOMAIN t
       /\ \A i \in DOMAIN t \ DOMAIN s :
               /\ t[i].id \in DOMAIN accepted' \ DOMAIN accepted
               /\ nextId <= t[i].receipt_handle /\ t[i].receive_count = 0
               /\ ~t[i].delayed => t[i].visible_after = 0
       /\ \A i \in DOMAIN t : t[i].id < nextId' /\ t[i].receipt_handle < nextId'
       /\ Distinct(t)
  <2>1. DOMAIN s = 1..Len(s) /\ DOMAIN t = 1..Len(t) /\ Len(s) \in Nat /\ Len(t) \in Nat
    BY <1>3, <1>8
  <2>2. Len(s) <= Len(t)
    BY <1>6 DEF Sending, SentPlaces
  <2>3. \A i \in DOMAIN s : i \in DOMAIN t
    BY <2>1, <2>2
  <2> QED BY <2>1, <2>2, <2>3, <1>6, <1>7 DEF Sending, SentPlaces
<1> HIDE DEF t
<1>14. \A id : id \in DOMAIN accepted /\ id \notin settled /\ ~accepted[id].former => Undisturbed(accepted[id].queue, id)
  BY <1>1, <1>12 DEF Undisturbed
<1>15. ASSUME NEW n \in QueueNames, NEW i \in DOMAIN Live(n) PROVE Undisturbed(n, Live(n)[i].id)
  BY <1>14, KnownTypes
<1>16. \A id \in DOMAIN accepted' \ DOMAIN accepted : Of(id) = {}
  BY DeliveryTypes DEF Of
<1>17. ASSUME NEW k \in DOMAIN t
       PROVE  /\ Placed(name, k)' /\ Leased(name, k)'
              /\ t[k].receipt_handle \in Handles(name) \/ nextId <= t[k].receipt_handle
  <2>1. CASE k \in DOMAIN s
    <3>1. Live(name)'[k] = Live(name)[k] /\ Placed(name, k) /\ Leased(name, k) /\ Undisturbed(name, Live(name)[k].id)
      BY <2>1, <1>2, <1>9, <1>13, <1>15 DEF MessagesInv
    <3>2. Placed(name, k)' /\ Leased(name, k)'
      BY <2>1, <3>1, <1>2, <1>11, MessageStays
    <3>3. t[k].receipt_handle \in Handles(name)
      BY <2>1, <1>13 DEF Handles
    <3> QED BY <3>2, <3>3
  <2>2. CASE k \notin DOMAIN s
    <3>1. PICK id \in DOMAIN accepted' \ DOMAIN accepted : id = t[k].id
      BY <2>2, <1>13
    <3>2. /\ nextId <= t[k].receipt_handle /\ t[k].receive_count = 0 /\ t[k].receipt_handle < nextId'
          /\ ~t[k].delayed => t[k].visible_after = 0
      BY <2>2, <1>13
    <3>3. accepted'[id].queue = name /\ ~accepted'[id].former /\ id \notin settled'
      BY <3>1, <1>1, <1>12, KnownTypes
    <3>4. t[k].receipt_handle \in Nat
      <4>1. t[k] \in MessageRecords
        BY <1>8 DEF t
      <4> QED BY <4>1, MessageTypes
    <3>5. t[k].receipt_handle \in 1..(nextId' - 1)
      BY <3>2, <3>4, <1>3, <1>10
    <3>6. Placed(name, k)'
      BY <3>1, <3>2, <3>3, <3>5, <1>9 DEF Placed
    <3>7. t[k].receipt_handle \notin DOMAIN deliveries
      <4>1. \A g \in DOMAIN deliveries : g \in Nat /\ g < nextId
        BY DeliveryTypes
      <4> QED BY <4>1, <3>2, <3>4, <1>3
    <3>8. Of(Live(name)[k].id)' = {}
      <4>1. Of(id) = {}
        BY <3>1, <1>16
      <4>2. Live(name)'[k].id = id
        BY <3>1, <1>9
      <4> QED BY <4>1, <4>2, <1>1 DEF Of
    <3>9. Leased(name, k)'
      <4>1. Cardinality({}) = 0
        BY FS_EmptySet
      <4> QED BY <4>1, <3>2, <3>7, <3>8, <1>1, <1>9 DEF Leased
    <3> QED BY <3>2, <3>6, <3>9
  <2> QED BY <2>1, <2>2
<1>18. Ordered(t)
  <2> SUFFICES ASSUME NEW i \in DOMAIN t, NEW j \in DOMAIN t, i < j, t[j].receive_count > 0, ~t[i].delayed
               PROVE  t[i].receive_count > 0
    BY DEF Ordered
  <2>1. j \in DOMAIN s
    BY <1>13
  <2>2. i \in DOMAIN s
    BY <2>1, <1>13
  <2>3. Ordered(s)
    BY <1>2 DEF MessagesInv
  <2> QED BY <2>1, <2>2, <2>3, <1>13 DEF Ordered
<1>19. MessagesInv'
  <2>1. Becomes(name)
    BY <1>9, <1>13, <1>17, <1>18 DEF Becomes
  <2> QED BY <2>1, <1>2, <1>9, <1>11, <1>15, OneQueueChanges
<1>20. TypeOK'
  <2>1. ASSUME NEW n \in QueueNames, NEW i \in DOMAIN Live(n)'
        PROVE  Live(n)'[i].id < nextId' /\ Live(n)'[i].receipt_handle < nextId'
    <3>1. CASE n = name
      BY <3>1, <1>9, <1>13
    <3>2. CASE n # name
      <4>1. Live(n)' = Live(n)
        BY <3>2, <1>9 DEF Live
      <4>2. \A j \in DOMAIN Live(n) : /\ Live(n)[j].id < nextId /\ Live(n)[j].receipt_handle < nextId
                                      /\ Live(n)[j].id \in Nat /\ Live(n)[j].receipt_handle \in Nat
        BY <1>2, LiveTypes
      <4> QED BY <4>1, <4>2, <1>11 DEF Advances
    <3> QED BY <3>1, <3>2
  <2>2. accepted' \in [DOMAIN accepted' -> AcceptedRecords]
    BY <1>7, <1>8, PartialTypes
  <2>3. deliveries' \in [DOMAIN deliveries' -> DeliveryRecords] /\ DOMAIN deliveries' \subseteq 1..(nextId' - 1)
    <3>1. \A x \in 1..(nextId - 1) : x \in 1..(nextId' - 1)
      <4>1. \A a, b \in Nat : a <= b => \A x \in 1..(a - 1) : x \in 1..(b - 1)
        OBVIOUS
      <4> QED BY <4>1, <1>11 DEF Advances
    <3> QED BY <3>1, <1>1, <1>2 DEF TypeOK
  <2>4. (acked \cup settled \cup discarded \cup redriven)' \subseteq DOMAIN accepted'
    BY <1>1, <1>12, KnownTypes
  <2> QED BY <2>1, <2>2, <2>3, <2>4, <1>1, <1>3, <1>9, <1>10, <1>12 DEF TypeOK
<1>21. Present'
  <2>1. \A id \in DOMAIN accepted' : accepted'[id].queue \in QueueNames
    BY <1>12, KnownTypes
  <2>2. ASSUME NEW id \in DOMAIN accepted' \ (acked \cup discarded \cup redriven)', accepted'[id].queue = name
        PROVE  \E k \in DOMAIN Live(name)' : Live(name)'[k].id = id
    <3>1. CASE id \in DOMAIN accepted
      <4>1. PICK i \in DOMAIN s : s[i].id = id
        BY <3>1, <2>2, <1>1, <1>2, <1>12 DEF Present
      <4> QED BY <4>1, <1>9, <1>13
    <3>2. CASE id \notin DOMAIN accepted
      BY <3>2, <1>9, <1>12
    <3> QED BY <3>1, <3>2
  <2>3. \A id \in DOMAIN accepted' : accepted'[id].queue # name => id \in DOMAIN accepted /\ accepted'[id] = accepted[id]
    BY <1>12
  <2> QED BY <2>1, <2>2, <2>3, <1>1, <1>2, <1>9, PresentStays
<1>22. DeliveriesInv'
  BY <1>1, <1>2, <1>12 DEF DeliveriesInv
<1>23. SentDedups(name, done)
  BY <1>6 DEF Sending
<1>24. DedupInv'
  <2> SUFFICES ASSUME NEW id \in DOMAIN accepted', ~accepted'[id].former
               PROVE  LET a == accepted'[id]
                      IN  /\ queues'[a.queue] # None
                          /\ a.queue \in FifoNames /\ a.dedup # None => a.dedup \in queues'[a.queue].dedup_ids
    BY DEF DedupInv
  <2>1. CASE accepted'[id].queue = name
    BY <2>1, <1>7, <1>9, <1>23 DEF SentDedups
  <2>2. CASE accepted'[id].queue # name
    <3>1. id \in DOMAIN accepted /\ accepted'[id] = accepted[id] /\ accepted[id].queue \in QueueNames
      BY <2>2, <1>12, KnownTypes
    <3>2. queues'[accepted[id].queue] = queues[accepted[id].queue]
      BY <2>2, <3>1, <1>9
    <3> QED BY <3>1, <3>2, <1>2 DEF DedupInv
  <2> QED BY <2>1, <2>2
<1>25. FifoDeduplicates'
  <2> SUFFICES ASSUME NEW n \in FifoNames, NEW i \in DOMAIN accepted', NEW j \in DOMAIN accepted',
                      accepted'[i].queue = n, accepted'[j].queue = n,
                      accepted'[i].dedup = accepted'[j].dedup, accepted'[i].dedup # None,
                      ~accepted'[i].former, ~accepted'[j].former
               PROVE  i = j
    BY DEF FifoDeduplicates
  <2>1. CASE n = name
    BY <2>1, <1>7, <1>23 DEF SentDedups
  <2>2. CASE n # name
    <3>1. i \in DOMAIN accepted /\ accepted'[i] = accepted[i] /\ j \in DOMAIN accepted /\ accepted'[j] = accepted[j]
      BY <2>2, <1>12
    <3> QED BY <3>1, <1>2 DEF FifoDeduplicates
  <2> QED BY <2>1, <2>2
<1> QED BY <1>19, <1>20, <1>21, <1>22, <1>24, <1>25 DEF IInv

\* What a receive does: the messages chosen are the first visible ones; each gets the next handle,
\* under which its delivery is known; those the redrive policy takes leave the queue.
Delivers(name, chosen, v, limit, poison) ==
    /\ queues[name] # None
    /\ chosen \subseteq DOMAIN Live(name) /\ IsFiniteSet(chosen) /\ Cardinality(chosen) \in Nat
    /\ \A i \in chosen : IsVisible(Live(name)[i])
    /\ \A j \in chosen, i \in DOMAIN Live(name) : i < j /\ IsVisible(Live(name)[i]) => i \in chosen
    /\ nextId' = nextId + Cardinality(chosen) /\ nextId' <= MaxId
    /\ UNCHANGED <<now, accepted, acked, settled, discarded>>
    /\ poison \subseteq DOMAIN Live(name) /\ redriven' = redriven \cup {Live(name)[i].id : i \in poison}
    /\ limit # None =>
           \A i \in DOMAIN Live(name) : Received(Live(name), chosen, v)[i].receive_count >= limit => i \in poison
    /\ DOMAIN deliveries' = DOMAIN deliveries \cup {nextId + Rank(chosen, i) : i \in chosen}
    /\ \A g \in DOMAIN deliveries : deliveries'[g] = deliveries[g]
    /\ \A i \in chosen : deliveries'[nextId + Rank(chosen, i)] =
           [queue |-> name, id |-> Live(name)[i].id, until |-> v, limit |-> limit]
    /\ \E r \in Seq(MessageRecords) :
           /\ queues' = [queues EXCEPT ![name] = Holding(queues[name], r)]
           /\ Picks(r, Received(Live(name), chosen, v), DOMAIN Live(name) \ poison)

LEMMA ReceiveStep ==
    ASSUME IInv, NEW name \in QueueNames, NEW max \in Nat, NEW timeout \in Timeouts \cup {None},
           NEW transport, ReceiveMessage(name, max, timeout, transport)
    PROVE  \E chosen \in SUBSET (DOMAIN Live(name)), v \in Nat, limit \in Nat \cup {None},
              poison \in SUBSET (DOMAIN Live(name)) : Delivers(name, chosen, v, limit, poison)
<1> DEFINE q == queues[name]
           s == Live(name)
           chosen == Chosen(q, max)
           wait == IF timeout = None THEN q.visibility_timeout ELSE timeout
           received == ReceiveMessages(q, chosen, timeout)
           poison == IF transport = "xml" THEN Poison(received) ELSE {}
           limit == IF transport = "xml" THEN q.max_receive_count ELSE None
<1>1. TypeOK /\ MessagesInv
  BY DEF IInv
<1>2. q # None /\ q \in QueueRecords /\ s = q.messages /\ s \in Seq(MessageRecords)
  <2>1. q # None
    BY DEF ReceiveMessage
  <2> QED BY <2>1, <1>1, LiveTypes
<1>3. PICK v \in Nat : v = VisibleAfter(wait)
  <2>1. wait \in Nat /\ now \in Nat
    BY <1>1, <1>2, QueueTypes, SqsAssumption DEF TypeOK
  <2> HIDE DEF wait
  <2> QED BY <2>1, VisibleAfterTypes
<1>4. limit \in Nat \cup {None}
  BY <1>2, QueueTypes
<1>5. /\ chosen \subseteq DOMAIN s /\ DOMAIN s \subseteq Nat /\ IsFiniteSet(chosen) /\ Cardinality(chosen) \in Nat
      /\ \A i \in chosen : IsVisible(s[i])
      /\ \A j \in chosen, i \in DOMAIN s : i < j /\ IsVisible(s[i]) => i \in chosen
  BY <1>2, ChosenFirst
<1> HIDE DEF chosen
<1> DEFINE t == Received(s, chosen, v)
<1>6. received = Holding(q, t)
  <2>1. ReceiveMessages(q, chosen, timeout) = Holding(q, Received(q.messages, chosen, v))
    BY <1>2, <1>3, ReceiveIs
  <2> QED BY <2>1, <1>2
<1>7. nextId \in Nat /\ chosen \in SUBSET (DOMAIN s)
  BY <1>1, <1>5 DEF TypeOK
<1>8. /\ t \in Seq(MessageRecords) /\ DOMAIN t = DOMAIN s
      /\ \A i \in DOMAIN s : i \notin chosen => t[i] = s[i]
      /\ \A i \in chosen : t[i].id = s[i].id /\ t[i].receipt_handle = nextId + Rank(chosen, i)
  BY <1>2, <1>5, <1>7, ReceivedTypes
<1> HIDE DEF t
<1>9. received.messages = t /\ received.max_receive_count = q.max_receive_count /\ received \in QueueRecords
      /\ \A r \in Seq(MessageRecords) : Holding(received, r) = Holding(q, r)
  <2> HIDE DEF received, q
  <2> QED BY <1>2, <1>6, <1>8, HoldingTypes
<1> HIDE DEF received
<1>10. poison \subseteq DOMAIN s
  BY <1>8, <1>9 DEF Poison
<1>11. limit # None => \A i \in DOMAIN s : t[i].receive_count >= limit => i \in poison
  BY <1>8, <1>9 DEF Poison
<1> DEFINE handle(i) == received.messages[i].receipt_handle
           lease == VisibleAfter(wait)
<1>12. /\ nextId + Cardinality(chosen) <= MaxId
       /\ queues' = [queues EXCEPT ![name] = IF transport = "xml" THEN RemoveDlqCandidates(received) ELSE received]
       /\ nextId' = nextId + Cardinality(chosen)
       /\ deliveries' = [h \in DOMAIN deliveries \cup {handle(i) : i \in chosen} |->
             IF h \in DOMAIN deliveries THEN deliveries[h]
             ELSE LET m == received.messages[CHOOSE i \in chosen : handle(i) = h]
                  IN  [queue |-> name, id |-> m.id, until |-> lease, limit |-> limit]]
       /\ redriven' = redriven \cup {received.messages[i].id : i \in poison}
       /\ UNCHANGED <<now, accepted, acked, settled, discarded>>
  BY DEF ReceiveMessage, received, chosen
<1>13. \A i \in chosen : handle(i) = nextId + Rank(chosen, i)
  BY <1>8, <1>9
<1>14. /\ \A i \in chosen : Rank(chosen, i) \in Nat
       /\ \A i, j \in chosen : Rank(chosen, i) = Rank(chosen, j) => i = j
  <2>1. chosen \in SUBSET Nat
    BY <1>5
  <2> QED BY <2>1, <1>5, Ranks
<1>15. DOMAIN deliveries' = DOMAIN deliveries \cup {nextId + Rank(chosen, i) : i \in chosen}
  <2>1. {handle(i) : i \in chosen} = {nextId + Rank(chosen, i) : i \in chosen}
    BY <1>13
  <2> QED BY <1>12, <2>1
<1>16. \A g \in DOMAIN deliveries : deliveries'[g] = deliveries[g]
  BY <1>12
<1>17. ASSUME NEW i \in chosen
       PROVE  deliveries'[nextId + Rank(chosen, i)] =
                  [queue |-> name, id |-> s[i].id, until |-> v, limit |-> limit]
  <2> DEFINE h == nextId + Rank(chosen, i)
  <2>1. h \in {handle(j) : j \in chosen} /\ handle(i) = h
    BY <1>13
  <2>2. h \notin DOMAIN deliveries
    <3>1. \A g \in DOMAIN deliveries : g \in Nat /\ g < nextId
      BY DeliveryTypes
    <3> QED BY <3>1, <1>7, <1>14
  <2>3. \A j \in chosen : handle(j) = h => j = i
    BY <1>7, <1>13, <1>14
  <2>4. (CHOOSE j \in chosen : handle(j) = h) = i
    <3> HIDE DEF h, handle
    <3> QED BY <2>1, <2>3
  <2>5. deliveries'[h] = LET m == received.messages[CHOOSE j \in chosen : handle(j) = h]
                         IN  [queue |-> name, id |-> m.id, until |-> lease, limit |-> limit]
    <3> HIDE DEF h, handle, lease, limit
    <3> QED BY <2>1, <2>2, <1>12
  <2>6. deliveries'[h] = [queue |-> name, id |-> received.messages[i].id, until |-> lease, limit |-> limit]
    <3> HIDE DEF h, handle, lease, limit
    <3> QED BY <2>4, <2>5
  <2>7. received.messages[i].id = s[i].id /\ lease = v
    BY <1>3, <1>8, <1>9
  <2> HIDE DEF lease, limit, h
  <2> QED BY <2>6, <2>7 DEF h
<1>18. {received.messages[i].id : i \in poison} = {s[i].id : i \in poison}
  <2>1. \A i \in DOMAIN s : received.messages[i].id = s[i].id
    BY <1>8, <1>9
  <2> HIDE DEF poison
  <2> QED BY <2>1, <1>10
<1>19. \E r \in Seq(MessageRecords) :
           queues' = [queues EXCEPT ![name] = Holding(q, r)] /\ Picks(r, t, DOMAIN s \ poison)
  <2>1. CASE transport = "xml"
    <3> DEFINE r == Without(t, Poison(received))
    <3>1. RemoveDlqCandidates(received) = Holding(received, r)
      BY <1>9 DEF RemoveDlqCandidates, Holding
    <3>2. r \in Seq(MessageRecords) /\ Picks(r, t, DOMAIN t \ Poison(received))
      BY <1>8, WithoutPicks
    <3>3. poison = Poison(received)
      BY <2>1
    <3> HIDE DEF r, poison
    <3> QED BY <2>1, <3>1, <3>2, <3>3, <1>8, <1>9, <1>12
  <2>2. CASE transport # "xml"
    <3>1. poison = {} /\ DOMAIN s \ {} = DOMAIN t
      BY <2>2, <1>8
    <3>2. Picks(t, t, DOMAIN t)
      BY <1>8, PicksAll
    <3>3. queues' = [queues EXCEPT ![name] = Holding(q, t)]
      BY <2>2, <1>6, <1>12 DEF received
    <3> HIDE DEF poison
    <3> QED BY <3>1, <3>2, <3>3, <1>8
  <2> QED BY <2>1, <2>2
<1> HIDE DEF poison, limit, s, q
<1>20. Delivers(name, chosen, v, limit, poison)
  BY <1>2, <1>5, <1>10, <1>11, <1>12, <1>15, <1>16, <1>17, <1>18, <1>19 DEF Delivers, t, s, q
<1> QED BY <1>4, <1>5, <1>10, <1>20 DEF s

LEMMA ReceiveMessageInv ==
    ASSUME IInv, NEW name \in QueueNames, NEW max \in Nat, NEW timeout \in Timeouts \cup {None},
           NEW transport, ReceiveMessage(name, max, timeout, transport)
    PROVE  IInv'
<1>1. TypeOK /\ MessagesInv /\ Present /\ DeliveriesInv /\ DedupInv /\ FifoDeduplicates
  BY DEF IInv
<1>2. PICK chosen \in SUBSET (DOMAIN Live(name)), v \in Nat, limit \in Nat \cup {None},
           poison \in SUBSET (DOMAIN Live(name)) : Delivers(name, chosen, v, limit, poison)
  BY ReceiveStep
<1> DEFINE s == Live(name)
           t == Received(s, chosen, v)
           keep == DOMAIN s \ poison
           handle(i) == nextId + Rank(chosen, i)
<1>3. /\ queues[name] # None
      /\ IsFiniteSet(chosen) /\ Cardinality(chosen) \in Nat
      /\ \A i \in chosen : IsVisible(s[i])
      /\ \A j \in chosen, i \in DOMAIN s : i < j /\ IsVisible(s[i]) => i \in chosen
      /\ nextId' = nextId + Cardinality(chosen) /\ nextId' <= MaxId
      /\ UNCHANGED <<now, accepted, acked, settled, discarded>>
      /\ redriven' = redriven \cup {s[i].id : i \in poison}
      /\ limit # None => \A i \in DOMAIN s : t[i].receive_count >= limit => i \in poison
      /\ DOMAIN deliveries' = DOMAIN deliveries \cup {handle(i) : i \in chosen}
      /\ \A g \in DOMAIN deliveries : deliveries'[g] = deliveries[g]
      /\ \A i \in chosen : deliveries'[handle(i)] = [queue |-> name, id |-> s[i].id, until |-> v, limit |-> limit]
  BY <1>2 DEF Delivers
<1>4. PICK r \in Seq(MessageRecords) : queues' = [queues EXCEPT ![name] = Holding(queues[name], r)] /\ Picks(r, t, keep)
  BY <1>2 DEF Delivers
<1>5. /\ s \in Seq(MessageRecords) /\ DOMAIN s \subseteq Nat /\ queues[name] \in QueueRecords
      /\ Distinct(s) /\ Ordered(s)
      /\ \A i \in DOMAIN s : s[i] \in MessageRecords /\ s[i].receipt_handle \in Nat /\ s[i].receipt_handle < nextId
  BY <1>1, <1>3, LiveTypes DEF MessagesInv
<1>6. nextId \in Nat \ {0} /\ now \in Nat /\ now \in 1..MaxTime
  BY <1>1 DEF TypeOK
<1>7. /\ t \in Seq(MessageRecords) /\ DOMAIN t = DOMAIN s
      /\ \A i \in DOMAIN s : i \notin chosen => t[i] = s[i]
      /\ \A i \in chosen : /\ t[i].id = s[i].id /\ t[i].receipt_handle = handle(i)
                           /\ t[i].receive_count = s[i].receive_count + 1
                           /\ t[i].visible_after = v /\ t[i].delayed = s[i].delayed
  BY <1>3, <1>5, <1>6, ReceivedTypes
<1>8. Distinct(t)
  BY <1>3, <1>5, <1>6, ReceivedDistinct
<1>9. Ordered(t)
  <2>1. ASSUME NEW j \in chosen, NEW i \in DOMAIN s, i < j, ~s[i].delayed, s[i].receive_count = 0 PROVE i \in chosen
    <3>1. s[i].visible_after = 0
      BY <2>1, <1>1 DEF MessagesInv, Placed
    <3>2. IsVisible(s[i])
      BY <3>1, <1>6 DEF IsVisible
    <3> QED BY <3>2, <2>1, <1>3
  <2> QED BY <2>1, <1>3, <1>5, <1>6, ReceivedOrdered
<1>10. /\ \A i \in chosen : handle(i) \in Nat /\ nextId <= handle(i) /\ handle(i) < nextId'
       /\ \A i, j \in chosen : handle(i) = handle(j) => i = j
  <2>1. chosen \in SUBSET Nat
    BY <1>5
  <2>2. /\ \A i \in chosen : Rank(chosen, i) \in Nat /\ Rank(chosen, i) < Cardinality(chosen)
        /\ \A i, j \in chosen : Rank(chosen, i) = Rank(chosen, j) => i = j
    BY <2>1, <1>3, Ranks
  <2> QED BY <2>2, <1>3, <1>6
<1> HIDE DEF t, handle
<1>11. Advances /\ nextId' \in 1..MaxId
  BY <1>3, <1>6 DEF Advances
<1>12. /\ Live(name)' = r /\ queues'[name] # None /\ queues'[name].dedup_ids = queues[name].dedup_ids
       /\ \A n \in QueueNames : n # name => queues'[n] = queues[n]
       /\ queues' \in [QueueNames -> {None} \cup QueueRecords]
  <2> DEFINE q == Holding(queues[name], r)
  <2>1. q \in QueueRecords /\ q.messages = r /\ q.dedup_ids = queues[name].dedup_ids
    BY <1>5, HoldingTypes
  <2> HIDE DEF q
  <2>2. q # None
    BY <2>1, NoneAssumption
  <2>3. queues'[name] = q /\ \A n \in QueueNames : n # name => queues'[n] = queues[n]
    BY <1>4, KnownTypes DEF q
  <2>4. queues' \in [QueueNames -> {None} \cup QueueRecords]
    BY <1>4, <2>1, KnownTypes DEF q
  <2> QED BY <2>1, <2>2, <2>3, <2>4 DEF Live
<1>13. /\ Distinct(r) /\ Ordered(r)
       /\ \A k \in DOMAIN r : \E i \in keep : r[k] = t[i]
       /\ \A i \in keep : \E k \in DOMAIN r : r[k] = t[i]
  <2>1. keep \subseteq DOMAIN t
    BY <1>7
  <2> HIDE DEF keep
  <2> QED BY <2>1, <1>4, <1>7, <1>8, <1>9, PicksKeeps
<1>13a. ASSUME NEW i \in chosen
        PROVE  /\ deliveries'[handle(i)].id = s[i].id /\ deliveries'[handle(i)].until = v
               /\ deliveries'[handle(i)].limit = limit
  <2>1. deliveries'[handle(i)] = [queue |-> name, id |-> s[i].id, until |-> v, limit |-> limit]
    BY <1>3
  <2> HIDE DEF s
  <2> QED BY <2>1
<1>14. \A g \in DOMAIN deliveries' \ DOMAIN deliveries : \E i \in chosen : g = handle(i) /\ deliveries'[g].id = s[i].id
  <2> SUFFICES ASSUME NEW g \in DOMAIN deliveries' \ DOMAIN deliveries
               PROVE  \E i \in chosen : g = handle(i) /\ deliveries'[g].id = s[i].id
    OBVIOUS
  <2>1. PICK i \in chosen : g = handle(i)
    BY <1>3
  <2> QED BY <2>1, <1>13a
<1>15. ASSUME NEW n \in QueueNames, NEW i \in DOMAIN Live(n), n # name \/ i \notin chosen
       PROVE  Undisturbed(n, Live(n)[i].id)
  <2>1. PICK id \in DOMAIN accepted : id = Live(n)[i].id /\ accepted[id].queue = n /\ ~accepted[id].former /\ id \notin settled
    BY KnownTypes
  <2>2. \A j \in chosen : s[j].id # id
    <3>1. \A j \in DOMAIN s : accepted[s[j].id].queue = name
      BY KnownTypes
    <3>2. CASE n # name
      BY <3>1, <3>2, <2>1
    <3>3. CASE n = name
      BY <3>3, <2>1, <1>5, <1>15 DEF Distinct
    <3> QED BY <3>2, <3>3
  <2>3. \A g \in DOMAIN deliveries' \ DOMAIN deliveries : nextId <= g /\ deliveries'[g].id # id
    BY <2>2, <1>10, <1>14
  <2> QED BY <2>1, <2>3, <1>3 DEF Undisturbed
<1>16. ASSUME NEW i \in chosen, NEW k \in DOMAIN r, i \in keep, r[k] = t[i] PROVE Placed(name, k)' /\ Leased(name, k)'
  <2>1. i \in DOMAIN s /\ Placed(name, i) /\ Leased(name, i) /\ IsVisible(s[i]) /\ s[i] \in MessageRecords
    BY <1>1, <1>3, <1>5 DEF MessagesInv
  <2> DEFINE id == s[i].id
             h == handle(i)
  <2>2. /\ id \in DOMAIN accepted \ settled /\ accepted[id].queue = name /\ ~accepted[id].former
    BY <2>1 DEF Placed
  <2>3. /\ Live(name)'[k].id = id /\ Live(name)'[k].receipt_handle = h
        /\ Live(name)'[k].receive_count = s[i].receive_count + 1 /\ Live(name)'[k].visible_after = v
    BY <1>7, <1>12, <1>16
  <2>4. s[i].receive_count \in Nat /\ s[i].visible_after \in Nat
    BY <2>1, MessageTypes
  <2>5. h \in Nat /\ nextId <= h /\ h < nextId' /\ nextId' \in Nat
    BY <1>10, <1>11
  <2>6. h \in 1..(nextId' - 1)
    BY <2>5, <1>6
  <2>7. Placed(name, k)'
    <3>1. s[i].receive_count + 1 # 0
      BY <2>4
    <3> HIDE DEF h, id
    <3> QED BY <2>2, <2>3, <2>6, <3>1, <1>3 DEF Placed
  <2>8. h \notin DOMAIN deliveries /\ h \in DOMAIN deliveries'
    <3>1. \A g \in DOMAIN deliveries : g \in Nat /\ g < nextId
      BY DeliveryTypes
    <3> QED BY <3>1, <2>5, <1>3, <1>6
  <2>9. deliveries'[h].id = id /\ deliveries'[h].until = v /\ deliveries'[h].limit = limit
    BY <1>13a
  <2>10. Of(Live(name)[k].id)' = Of(id) \cup {h}
    <3>1. ASSUME NEW g \in DOMAIN deliveries' PROVE deliveries'[g].id = id <=> g \in Of(id) \cup {h}
      <4>1. CASE g \in DOMAIN deliveries
        BY <4>1, <2>8, <1>3 DEF Of
      <4>2. CASE g \notin DOMAIN deliveries
        <5>1. PICK j \in chosen : g = handle(j) /\ deliveries'[g].id = s[j].id
          BY <4>2, <1>14
        <5>2. s[j].id = s[i].id <=> j = i
          BY <1>5 DEF Distinct
        <5>3. g \notin Of(id)
          BY <4>2 DEF Of
        <5> QED BY <5>1, <5>2, <5>3, <1>10
      <4> QED BY <4>1, <4>2
    <3>2. \A g \in Of(id) \cup {h} : g \in DOMAIN deliveries'
      BY <2>8, <1>3 DEF Of
    <3>3. Of(Live(name)[k].id)' = {g \in DOMAIN deliveries' : deliveries'[g].id = id}
      BY <2>3 DEF Of
    <3> HIDE DEF h, id
    <3> QED BY <3>1, <3>2, <3>3
  <2>11. s[i].receive_count + 1 = Cardinality(Of(id) \cup {h})
    <3>1. h \notin Of(id)
      BY <2>8 DEF Of
    <3>2. s[i].receive_count = Cardinality(Of(id)) /\ IsFiniteSet(Of(id))
      BY <2>1, <1>1, OfFinite DEF Leased
    <3> HIDE DEF h, id
    <3> QED BY <3>1, <3>2, FS_AddElement
  <2>12. limit # None => s[i].receive_count + 1 < limit
    <3>1. limit # None => ~(s[i].receive_count + 1 >= limit)
      BY <1>3, <1>7, <1>16
    <3> QED BY <3>1, <2>4
  <2>13. ASSUME NEW g \in Of(id) \cup {h}
         PROVE  g <= h /\ (deliveries'[g].until <= now \/ (g = h /\ deliveries'[g].until = v))
    <3>1. CASE g = h
      BY <3>1, <2>5, <2>9
    <3>2. CASE g \in Of(id)
      <4>1. g \in DOMAIN deliveries /\ deliveries'[g] = deliveries[g] /\ g \in Nat /\ g < nextId /\ deliveries[g].until \in Nat
        BY <3>2, <1>3, DeliveryTypes DEF Of
      <4>2. deliveries[g].until <= now \/ deliveries[g].until = s[i].visible_after
        BY <3>2, <2>1 DEF Leased
      <4>3. s[i].visible_after <= now
        BY <2>1, <2>4, <1>6 DEF IsVisible
      <4> QED BY <4>1, <4>2, <4>3, <2>5, <1>6
    <3> QED BY <3>1, <3>2
  <2>14. Leased(name, k)'
    <3> HIDE DEF h, id
    <3>1. h \in Of(id) \cup {h}
      OBVIOUS
    <3> QED BY <2>3, <2>8, <2>9, <2>10, <2>11, <2>12, <2>13, <3>1, <1>3 DEF Leased
  <2> QED BY <2>7, <2>14
<1>17. ASSUME NEW k \in DOMAIN r
       PROVE  /\ Placed(name, k)' /\ Leased(name, k)'
              /\ r[k].receipt_handle \in Handles(name) \/ nextId <= r[k].receipt_handle
              /\ r[k].id < nextId' /\ r[k].receipt_handle < nextId'
  <2>1. PICK i \in keep : r[k] = t[i]
    BY <1>13
  <2>2. /\ i \in DOMAIN s /\ s[i].id \in Nat /\ s[i].id < nextId /\ s[i].receipt_handle \in Nat
        /\ s[i].receipt_handle < nextId
    BY <1>1, LiveTypes
  <2>3. CASE i \in chosen
    <3>1. Placed(name, k)' /\ Leased(name, k)'
      BY <2>1, <2>3, <1>16
    <3>2. r[k].id < nextId' /\ nextId <= r[k].receipt_handle /\ r[k].receipt_handle < nextId'
      BY <2>1, <2>2, <2>3, <1>7, <1>10, <1>11 DEF Advances
    <3> QED BY <3>1, <3>2
  <2>4. CASE i \notin chosen
    <3>1. r[k] = s[i]
      BY <2>1, <2>2, <2>4, <1>7
    <3>2. Live(name)'[k] = Live(name)[i] /\ Placed(name, i) /\ Leased(name, i) /\ Undisturbed(name, Live(name)[i].id)
      BY <3>1, <2>2, <2>4, <1>1, <1>12, <1>15 DEF MessagesInv
    <3>3. Placed(name, k)' /\ Leased(name, k)'
      BY <3>2, <2>2, <1>1, <1>11, MessageStays
    <3>4. r[k].receipt_handle \in Handles(name)
      BY <3>1, <2>2 DEF Handles
    <3>5. r[k].id < nextId' /\ r[k].receipt_handle < nextId'
      BY <3>1, <2>2, <1>11 DEF Advances
    <3> QED BY <3>3, <3>4, <3>5
  <2> QED BY <2>3, <2>4
<1>18. MessagesInv'
  <2>1. Becomes(name)
    BY <1>12, <1>13, <1>17 DEF Becomes
  <2> QED BY <2>1, <1>1, <1>11, <1>12, <1>15, OneQueueChanges
<1>19. \A g \in DOMAIN deliveries' : g \in 1..(nextId' - 1) /\ deliveries'[g] \in DeliveryRecords
             /\ deliveries'[g].id \in DOMAIN accepted /\ deliveries'[g].queue = accepted[deliveries'[g].id].queue
  <2> SUFFICES ASSUME NEW g \in DOMAIN deliveries'
               PROVE  /\ g \in 1..(nextId' - 1) /\ deliveries'[g] \in DeliveryRecords
                      /\ deliveries'[g].id \in DOMAIN accepted /\ deliveries'[g].queue = accepted[deliveries'[g].id].queue
    OBVIOUS
  <2>1. CASE g \in DOMAIN deliveries
    <3>1. g \in 1..(nextId - 1)
      BY <2>1, <1>1 DEF TypeOK
    <3>2. g \in 1..(nextId' - 1)
      BY <3>1, <1>11 DEF Advances
    <3> QED BY <2>1, <3>2, <1>3, DeliveryTypes
  <2>2. CASE g \notin DOMAIN deliveries
    <3>1. PICK i \in chosen : g = handle(i)
      BY <2>2, <1>14
    <3>2. deliveries'[g] = [queue |-> name, id |-> s[i].id, until |-> v, limit |-> limit]
      BY <3>1, <1>3
    <3>3. s[i].id \in DOMAIN accepted /\ accepted[s[i].id].queue = name /\ s[i].id \in Nat
      BY <1>1, KnownTypes, LiveTypes
    <3>4. deliveries'[g] \in DeliveryRecords /\ deliveries'[g].id = s[i].id /\ deliveries'[g].queue = name
      BY <3>2, <3>3 DEF DeliveryRecords
    <3>5. g \in 1..(nextId' - 1)
      BY <3>1, <1>6, <1>10, <1>11 DEF Advances
    <3> QED BY <3>3, <3>4, <3>5
  <2> QED BY <2>1, <2>2
<1>20. redriven' \subseteq DOMAIN accepted /\ \A i \in poison : s[i].id \in redriven'
  BY <1>3, KnownTypes
<1>21. TypeOK'
  <2>1. ASSUME NEW n \in QueueNames, NEW i \in DOMAIN Live(n)'
        PROVE  Live(n)'[i].id < nextId' /\ Live(n)'[i].receipt_handle < nextId'
    <3>1. CASE n = name
      BY <3>1, <1>12, <1>17
    <3>2. CASE n # name
      <4>1. Live(n)' = Live(n)
        BY <3>2, <1>12 DEF Live
      <4>2. \A j \in DOMAIN Live(n) : /\ Live(n)[j].id < nextId /\ Live(n)[j].receipt_handle < nextId
                                      /\ Live(n)[j].id \in Nat /\ Live(n)[j].receipt_handle \in Nat
        BY <1>1, LiveTypes
      <4> QED BY <4>1, <4>2, <1>11 DEF Advances
    <3> QED BY <3>1, <3>2
  <2>2. deliveries' \in [DOMAIN deliveries' -> DeliveryRecords]
    <3>1. deliveries' = [g \in DOMAIN deliveries' |-> deliveries'[g]]
      <4>1. ReceiveMessage(name, max, timeout, transport)
        OBVIOUS
      <4> QED BY <4>1 DEF ReceiveMessage
    <3> QED BY <3>1, <1>19
  <2>3. accepted' \in [DOMAIN accepted' -> AcceptedRecords] /\ DOMAIN accepted' \subseteq 1..(nextId' - 1)
    <3>1. \A x \in 1..(nextId - 1) : x \in 1..(nextId' - 1)
      <4>1. \A a, b \in Nat : a <= b => \A x \in 1..(a - 1) : x \in 1..(b - 1)
        OBVIOUS
      <4> QED BY <4>1, <1>11 DEF Advances
    <3> QED BY <3>1, <1>1, <1>3 DEF TypeOK
  <2>4. (acked \cup settled \cup discarded \cup redriven)' \subseteq DOMAIN accepted'
    BY <1>3, <1>20, KnownTypes
  <2>5. DOMAIN deliveries' \subseteq 1..(nextId' - 1)
    BY <1>19
  <2> QED BY <2>1, <2>2, <2>3, <2>4, <2>5, <1>3, <1>6, <1>11, <1>12 DEF TypeOK
<1>22. Present'
  <2>1. \A id \in DOMAIN accepted' : accepted'[id].queue \in QueueNames
    BY <1>3, KnownTypes
  <2>2. ASSUME NEW id \in DOMAIN accepted' \ (acked \cup discarded \cup redriven)', accepted'[id].queue = name
        PROVE  \E k \in DOMAIN Live(name)' : Live(name)'[k].id = id
    <3>1. PICK i \in DOMAIN s : s[i].id = id
      BY <2>2, <1>1, <1>3 DEF Present
    <3>2. i \in keep
      BY <3>1, <2>2, <1>20
    <3>3. PICK k \in DOMAIN r : r[k] = t[i]
      BY <3>2, <1>13
    <3>4. t[i].id = s[i].id
      BY <1>7
    <3> QED BY <3>1, <3>3, <3>4, <1>12
  <2>3. acked \cup discarded \cup redriven \subseteq (acked \cup discarded \cup redriven)'
    BY <1>3
  <2> QED BY <2>1, <2>2, <2>3, <1>1, <1>3, <1>12, PresentStays
<1>23. DeliveriesInv'
  BY <1>3, <1>19 DEF DeliveriesInv
<1>24. DedupInv' /\ FifoDeduplicates'
  <2>1. ASSUME NEW id \in DOMAIN accepted, ~accepted'[id].former
        PROVE  LET n == accepted[id].queue
               IN  queues'[n] = queues[n]
                   \/ (queues'[n] # None /\ queues[n].dedup_ids \subseteq queues'[n].dedup_ids)
    <3>1. PICK n \in QueueNames : n = accepted[id].queue
      BY KnownTypes
    <3> QED BY <3>1, <1>12
  <2> QED BY <1>1, <1>3, <2>1, DedupStays
<1> QED BY <1>18, <1>21, <1>22, <1>23, <1>24 DEF IInv

-----------------------------------------------------------------------------
(* Every step *)

\* The steps of both transports, with their parameters in the sets the lemmas are about.
Operation(name) ==
    \/ \E a \in AttributeSets : CreateQueue(name, a) \/ SetQueueAttributes(name, a)
    \/ DeleteQueue(name)
    \/ PurgeQueue(name)
    \/ \E entries \in Seq(Entries) : SendMessages(name, entries)
    \/ \E max \in Nat : \E timeout \in Timeouts \cup {None} : \E transport \in {"xml", "json"} :
           ReceiveMessage(name, max, timeout, transport)
    \/ \E handles \in HandleBatches : DeleteMessages(name, handles)
    \/ \E handles \in HandleBatches : \E timeout \in Timeouts : ChangeMessageVisibility(name, handles, timeout)

LEMMA Steps ==
    ASSUME [Next]_vars
    PROVE  UNCHANGED vars \/ Tick \/ \E name \in QueueNames : Operation(name)
<1>1. \A max \in 0..MaxBatch : max \in Nat
  BY SqsAssumption
<1>2. ASSUME NEW entries \in EntryBatches PROVE entries \in Seq(Entries)
  <2>1. PICK n \in 1..MaxBatch : entries \in [1..n -> Entries]
    BY DEF EntryBatches
  <2>2. n \in Nat
    BY SqsAssumption
  <2> QED BY <2>1, <2>2
<1>3. ASSUME NEW e \in Entries PROVE <<e>> \in Seq(Entries)
  OBVIOUS
<1>4. ASSUME NEW name \in QueueNames, QueryNext(name) PROVE Operation(name)
  BY <1>4, <1>1, <1>2 DEF QueryNext, Operation
<1>5. ASSUME NEW name \in QueueNames, JsonNext(name) PROVE Operation(name)
  BY <1>5, <1>1, <1>3 DEF JsonNext, Operation
<1> QED BY <1>4, <1>5 DEF Next

LEMMA NextInv ==
    IInv /\ [Next]_vars => IInv'
<1> SUFFICES ASSUME IInv, [Next]_vars PROVE IInv'
  OBVIOUS
<1>1. CASE UNCHANGED vars
  BY <1>1, StutterInv
<1>2. CASE Tick
  BY <1>2, TickInv
<1>3. ASSUME NEW name \in QueueNames, Operation(name) PROVE IInv'
  <2>1. ASSUME NEW a \in AttributeSets, CreateQueue(name, a) PROVE IInv'
    BY <2>1, CreateQueueInv
  <2>2. ASSUME NEW a \in AttributeSets, SetQueueAttributes(name, a) PROVE IInv'
    BY <2>2, SetQueueAttributesInv
  <2>3. CASE DeleteQueue(name)
    BY <2>3, DeleteQueueInv
  <2>4. CASE PurgeQueue(name)
    BY <2>4, PurgeQueueInv
  <2>5. ASSUME NEW entries \in Seq(Entries), SendMessages(name, entries) PROVE IInv'
    BY <2>5, SendMessagesInv
  <2>6. ASSUME NEW max \in Nat, NEW timeout \in Timeouts \cup {None}, NEW transport \in {"xml", "json"},
               ReceiveMessage(name, max, timeout, transport)
        PROVE  IInv'
    BY <2>6, ReceiveMessageInv
  <2>7. ASSUME NEW handles \in HandleBatches, DeleteMessages(name, handles) PROVE IInv'
    BY <2>7, DeleteMessagesInv
  <2>8. ASSUME NEW handles \in HandleBatches, NEW timeout \in Timeouts, ChangeMessageVisibility(name, handles, timeout)
        PROVE  IInv'
    BY <2>8, ChangeMessageVisibilityInv
  <2> QED BY <1>3, <2>1, <2>2, <2>3, <2>4, <2>5, <2>6, <2>7, <2>8 DEF Operation
<1> QED BY <1>1, <1>2, <1>3, Steps

\* The invariant of the queues, which every operation of both transports keeps.
THEOREM Invariant == Spec => []IInv
<1>1. Init => IInv
  BY InitInv
<1>2. IInv /\ [Next]_vars => IInv'
  BY NextInv
<1> QED BY <1>1, <1>2, PTL DEF Spec

-----------------------------------------------------------------------------
(* What consumers and producers can rely on *)

\* A message send_message accepted is in its queue exactly once until a consumer deletes it, the
\* queue is purged or deleted, or remove_dlq_candidates takes it, whatever the sizes of batches.
THEOREM MessagesAreKept == Spec => []NothingVanishes
<1>1. IInv => NothingVanishes
  <2> SUFFICES ASSUME IInv PROVE NothingVanishes
    OBVIOUS
  <2>1. TypeOK /\ MessagesInv /\ Present
    BY DEF IInv
  <2>2. ASSUME NEW id \in DOMAIN accepted \ (acked \cup discarded \cup redriven)
        PROVE  Cardinality({i \in DOMAIN Live(accepted[id].queue) : Live(accepted[id].queue)[i].id = id}) = 1
    <3> DEFINE here == Live(accepted[id].queue)
    <3>1. accepted[id].queue \in QueueNames
      BY KnownTypes
    <3>2. PICK k \in DOMAIN here : here[k].id = id
      BY <2>1 DEF Present
    <3>3. \A i \in DOMAIN here : here[i].id = id => i = k
      BY <2>1, <3>1, <3>2 DEF MessagesInv, Distinct
    <3>4. {i \in DOMAIN here : here[i].id = id} = {k}
      BY <3>2, <3>3
    <3> HIDE DEF here
    <3>5. Cardinality({i \in DOMAIN here : here[i].id = id}) = 1
      BY <3>4, FS_Singleton
    <3> QED BY <3>5 DEF here
  <2> QED BY <2>1, <2>2 DEF NothingVanishes
<1> QED BY <1>1, Invariant, PTL

\* delete_message with the handle of the latest delivery is final: batches, late handles, receives
\* and changed leases in between cannot bring the message back.
THEOREM DeletesAreFinal == Spec => []SettledStaysGone
<1>1. IInv => SettledStaysGone
  <2> SUFFICES ASSUME IInv, NEW name \in QueueNames, NEW i \in DOMAIN Live(name) PROVE Live(name)[i].id \notin settled
    BY DEF SettledStaysGone, Range
  <2> QED BY KnownTypes
<1> QED BY <1>1, Invariant, PTL

\* No two messages of any queue share a receipt handle, and a message's handle is that of its
\* latest delivery, though message ids and handles are drawn from one counter.
THEOREM HandlesAreUnique == Spec => []HandlesIdentify
<1>1. IInv => HandlesIdentify
  <2> SUFFICES ASSUME IInv PROVE HandlesIdentify
    OBVIOUS
  <2>1. MessagesInv
    BY DEF IInv
  <2>2. ASSUME NEW n1 \in QueueNames, NEW n2 \in QueueNames, NEW i \in DOMAIN Live(n1), NEW j \in DOMAIN Live(n2)
        PROVE  /\ Live(n1)[i].receipt_handle = Live(n2)[j].receipt_handle => n1 = n2 /\ i = j
               /\ \A g \in DOMAIN deliveries : deliveries[g].id = Live(n1)[i].id => g <= Live(n1)[i].receipt_handle
    <3>1. Live(n1)[i].receipt_handle = Live(n2)[j].receipt_handle => n1 = n2
      BY <2>1 DEF MessagesInv, Handles
    <3>2. Live(n1)[i].receipt_handle = Live(n2)[j].receipt_handle /\ n1 = n2 => i = j
      BY <2>1 DEF MessagesInv, Distinct
    <3>3. \A g \in Of(Live(n1)[i].id) : g <= Live(n1)[i].receipt_handle
      BY <2>1 DEF MessagesInv, Leased
    <3> QED BY <3>1, <3>2, <3>3 DEF Of
  <2> QED BY <2>2 DEF HandlesIdentify
<1> QED BY <1>1, Invariant, PTL

\* A FIFO queue accepts a dedup id once while it exists: receiving, deleting and purging in between
\* leave dedup_ids alone, and the entries of one batch see each other's.
THEOREM DedupIsPermanent == Spec => []FifoDeduplicates
<1>1. IInv => FifoDeduplicates
  BY DEF IInv
<1> QED BY <1>1, Invariant, PTL

\* receive_messages takes messages from the front: one is first delivered only after all those sent
\* before it without a delay, however many consumers receive, and whatever they give back.
THEOREM FirstDeliveriesInOrder == Spec => []FirstDeliveryInOrder
<1>1. IInv => FirstDeliveryInOrder
  BY DEF IInv, MessagesInv, Ordered, FirstDeliveryInOrder
<1> QED BY <1>1, Invariant, PTL

\* A new delivery is one of a message that is in a queue and visible.
LEMMA NewDelivery ==
    ASSUME IInv, [Next]_vars, NEW h \in DOMAIN deliveries' \ DOMAIN deliveries
    PROVE  \E name \in QueueNames : \E i \in DOMAIN Live(name) :
               IsVisible(Live(name)[i]) /\ deliveries'[h].id = Live(name)[i].id
<1>1. ~UNCHANGED vars /\ ~Tick
  BY DEF vars, Tick
<1>2. PICK name \in QueueNames : Operation(name)
  BY <1>1, Steps
<1>3. ~UNCHANGED deliveries /\ DOMAIN deliveries' # DOMAIN deliveries
  OBVIOUS
<1>4. ~\E a \in AttributeSets : CreateQueue(name, a) \/ SetQueueAttributes(name, a)
  BY <1>3 DEF CreateQueue, SetQueueAttributes
<1>5. ~DeleteQueue(name) /\ ~PurgeQueue(name)
  BY <1>3 DEF DeleteQueue, PurgeQueue
<1>6. ~\E entries \in Seq(Entries) : SendMessages(name, entries)
  BY <1>3 DEF SendMessages
<1>7. ~\E handles \in HandleBatches : DeleteMessages(name, handles)
  BY <1>3 DEF DeleteMessages
<1>8. ~\E handles \in HandleBatches : \E timeout \in Timeouts : ChangeMessageVisibility(name, handles, timeout)
  BY <1>3 DEF ChangeMessageVisibility
<1>9. \E max \in Nat : \E timeout \in Timeouts \cup {None} : \E transport \in {"xml", "json"} :
          ReceiveMessage(name, max, timeout, transport)
  BY <1>2, <1>4, <1>5, <1>6, <1>7, <1>8 DEF Operation
<1>10. PICK chosen \in SUBSET (DOMAIN Live(name)), v \in Nat, limit \in Nat \cup {None},
            poison \in SUBSET (DOMAIN Live(name)) : Delivers(name, chosen, v, limit, poison)
  BY <1>9, ReceiveStep
<1>11. PICK i \in chosen : h = nextId + Rank(chosen, i)
  BY <1>10 DEF Delivers
<1>12. deliveries'[h] = [queue |-> name, id |-> Live(name)[i].id, until |-> v, limit |-> limit]
  BY <1>10, <1>11 DEF Delivers
<1>13. deliveries'[h].id = Live(name)[i].id
  BY <1>12
<1>14. i \in DOMAIN Live(name) /\ IsVisible(Live(name)[i])
  BY <1>10 DEF Delivers
<1> QED BY <1>13, <1>14

\* begin_receive hands a message out only when the leases of all its earlier deliveries, as their
\* holders extended them or gave them back, have run out.
THEOREM LeasesAreRespected == Spec => LeaseRespected
<1> DEFINE Respected ==
        \A h \in DOMAIN deliveries' \ DOMAIN deliveries :
            \A g \in DOMAIN deliveries :
                deliveries[g].id = deliveries'[h].id => deliveries[g].until <= now
<1>1. IInv /\ [Next]_vars => [Respected]_vars
  <2> SUFFICES ASSUME IInv, [Next]_vars,
                      NEW h \in DOMAIN deliveries' \ DOMAIN deliveries, NEW g \in DOMAIN deliveries,
                      deliveries[g].id = deliveries'[h].id
               PROVE  deliveries[g].until <= now
    OBVIOUS
  <2>1. PICK name \in QueueNames : \E i \in DOMAIN Live(name) :
            IsVisible(Live(name)[i]) /\ deliveries'[h].id = Live(name)[i].id
    BY NewDelivery
  <2>2. PICK i \in DOMAIN Live(name) : IsVisible(Live(name)[i]) /\ deliveries'[h].id = Live(name)[i].id
    BY <2>1
  <2>3. TypeOK /\ Leased(name, i)
    BY DEF IInv, MessagesInv
  <2>4. now \in Nat /\ Live(name)[i].visible_after \in Nat
    BY <2>3, LiveTypes, MessageTypes DEF TypeOK
  <2>5. Live(name)[i].visible_after <= now
    BY <2>2, <2>4 DEF IsVisible
  <2>6. g \in Of(Live(name)[i].id)
    BY <2>2 DEF Of
  <2> QED BY <2>3, <2>5, <2>6 DEF Leased
<1> QED BY <1>1, Invariant, PTL DEF Spec, LeaseRespected

\* remove_dlq_candidates bounds deliveries: under one policy and the XML transport, a message that was
\* handed out as often as the policy allows is not handed out again.
THEOREM RedriveIsBounded == Spec => RedriveBoundsReceives
<1> DEFINE Bounded ==
        \A h \in DOMAIN deliveries' \ DOMAIN deliveries :
            LET d == deliveries'[h]
                before == {g \in DOMAIN deliveries : deliveries[g].id = d.id}
            IN  (d.limit # None /\ before # {} /\ \A g \in before : deliveries[g].limit = d.limit)
                => Cardinality(before) < d.limit
<1>1. IInv /\ [Next]_vars => [Bounded]_vars
  <2> SUFFICES ASSUME IInv, [Next]_vars, NEW h \in DOMAIN deliveries' \ DOMAIN deliveries,
                      deliveries'[h].limit # None, Of(deliveries'[h].id) # {},
                      \A g \in Of(deliveries'[h].id) : deliveries[g].limit = deliveries'[h].limit
               PROVE  Cardinality(Of(deliveries'[h].id)) < deliveries'[h].limit
    BY DEF Of
  <2>1. PICK name \in QueueNames : \E i \in DOMAIN Live(name) :
            IsVisible(Live(name)[i]) /\ deliveries'[h].id = Live(name)[i].id
    BY NewDelivery
  <2>2. PICK i \in DOMAIN Live(name) : IsVisible(Live(name)[i]) /\ deliveries'[h].id = Live(name)[i].id
    BY <2>1
  <2>3. TypeOK /\ Leased(name, i)
    BY DEF IInv, MessagesInv
  <2>4. PICK id : id = Live(name)[i].id
    OBVIOUS
  <2>5. Cardinality(Of(id)) \in Nat /\ Cardinality(Of(id)) # 0
    BY <2>2, <2>3, <2>4, OfFinite
  <2>6. Live(name)[i].receive_count = Cardinality(Of(id)) /\ Live(name)[i].receive_count > 0
    BY <2>3, <2>4, <2>5 DEF Leased
  <2>7. PICK g \in Of(id) : deliveries[g].limit # None => Cardinality(Of(id)) < deliveries[g].limit
    BY <2>3, <2>4, <2>6 DEF Leased
  <2> QED BY <2>2, <2>4, <2>7
<1> QED BY <1>1, Invariant, PTL DEF Spec, RedriveBoundsReceives

===============================================================================
