----------------------------- MODULE GateProofs -----------------------------
(***************************************************************************)
(* Proofs about one ResizableSemaphore, for any coroutines, caps and       *)
(* number of reloads: its counters, its wake-ups and its permits; and      *)
(* about the two of them that the turns and their sub-agents share.        *)
(***************************************************************************)
EXTENDS ResizableSemaphore, TurnSlots, SequenceTheorems, FunctionTheorems, FiniteSetTheorems, TLAPS

---------------------------------------------------------------------------
(* Queues that hold nobody twice                                           *)

Distinct(q) == \A i, j \in 1..Len(q) : q[i] = q[j] => i = j

\* As many are queued as the queue is long.
LEMMA QueueCounts ==
    ASSUME NEW q \in Seq(Tasks), Distinct(q)
    PROVE  /\ Elems(q) \subseteq Tasks /\ IsFiniteSet(Elems(q))
           /\ Cardinality(Elems(q)) = Len(q)
<1> DEFINE f == [i \in 1..Len(q) |-> q[i]]
<1>1. Elems(q) \subseteq Tasks
    BY DEF Elems
<1>2. f \in Bijection(1..Len(q), Elems(q))
  <2>1. f \in [1..Len(q) -> Elems(q)]
      BY DEF Elems
  <2>2. \A i, j \in 1..Len(q) : f[i] = f[j] => i = j
      BY DEF Distinct
  <2>3. \A t \in Elems(q) : \E i \in 1..Len(q) : f[i] = t
      BY DEF Elems
  <2>4. DOMAIN f = 1..Len(q)
      OBVIOUS
  <2> HIDE DEF f
  <2>5. QED
      BY <2>1, <2>2, <2>3, <2>4 DEF Bijection, Injection, Surjection, IsInjective
<1>3. ExistsBijection(1..Len(q), Elems(q))
    BY <1>2 DEF ExistsBijection
<1>4. Len(q) \in Nat /\ IsFiniteSet(1..Len(q)) /\ Cardinality(1..Len(q)) = Len(q)
  <2>1. Len(q) \in Nat /\ 1 \in Int /\ Len(q) \in Int
      OBVIOUS
  <2>2. IsFiniteSet(1..Len(q)) /\ Cardinality(1..Len(q)) = IF 1 > Len(q) THEN 0 ELSE Len(q) - 1 + 1
      BY <2>1, FS_Interval
  <2>3. QED
      BY <2>1, <2>2
<1>5. QED
  <2>1. IsFiniteSet(Elems(q)) /\ Cardinality(Elems(q)) = Cardinality(1..Len(q))
      BY <1>3, <1>4, FS_Bijection
  <2>2. QED
      BY <1>1, <1>4, <2>1

\* The first k of a queue go; the rest stay in their order.
LEMMA FirstGo ==
    ASSUME NEW q \in Seq(Tasks), Distinct(q), NEW k \in 0..Len(q)
    PROVE  LET r == SubSeq(q, k + 1, Len(q))
               K == {q[i] : i \in 1..k}
           IN  /\ r \in Seq(Tasks) /\ Distinct(r) /\ Len(r) = Len(q) - k
               /\ K \cap Elems(r) = {} /\ K \cup Elems(r) = Elems(q)
               /\ IsFiniteSet(K) /\ Cardinality(K) = k
<1> DEFINE r == SubSeq(q, k + 1, Len(q))
           K == {q[i] : i \in 1..k}
<1>1. /\ r \in Seq(Tasks) /\ Len(r) = Len(q) - k
      /\ \A i \in 1..(Len(q) - k) : r[i] = q[k + i]
    OBVIOUS
<1> HIDE DEF r
<1>2. Len(q) \in Nat /\ k \in Nat /\ k <= Len(q)
    OBVIOUS
<1>3. Distinct(r)
  <2> SUFFICES ASSUME NEW i \in 1..Len(r), NEW j \in 1..Len(r), r[i] = r[j] PROVE i = j
      BY DEF Distinct
  <2>1. k + i \in 1..Len(q) /\ k + j \in 1..Len(q) /\ q[k + i] = q[k + j]
      BY <1>1, <1>2
  <2>2. k + i = k + j
      BY <2>1 DEF Distinct
  <2>3. QED
      BY <1>2, <2>2
<1>4. Elems(r) = {q[i] : i \in (k + 1)..Len(q)}
  <2>1. ASSUME NEW x \in Elems(r) PROVE x \in {q[i] : i \in (k + 1)..Len(q)}
    <3>1. PICK i \in 1..Len(r) : x = r[i]
        BY DEF Elems
    <3>2. k + i \in (k + 1)..Len(q) /\ x = q[k + i]
        BY <1>1, <1>2, <3>1
    <3>3. QED
        BY <3>2
  <2>2. ASSUME NEW i \in (k + 1)..Len(q) PROVE q[i] \in Elems(r)
    <3>1. i - k \in 1..Len(r) /\ k + (i - k) = i
        BY <1>1, <1>2
    <3>2. r[i - k] = q[i]
        BY <1>1, <3>1
    <3>3. QED
        BY <3>1, <3>2 DEF Elems
  <2>3. QED
      BY <2>1, <2>2
<1>5. K \cap Elems(r) = {}
    BY <1>2, <1>4 DEF Distinct
<1>6. K \cup Elems(r) = Elems(q)
  <2>1. 1..Len(q) = 1..k \cup (k + 1)..Len(q)
      BY <1>2
  <2>2. QED
      BY <1>4, <2>1 DEF Elems
<1>7. /\ IsFiniteSet(Elems(q)) /\ Cardinality(Elems(q)) = Len(q)
      /\ IsFiniteSet(Elems(r)) /\ Cardinality(Elems(r)) = Len(q) - k
    BY <1>1, <1>3, QueueCounts
<1>8. K = Elems(q) \ Elems(r) /\ Elems(q) \cap Elems(r) = Elems(r)
    BY <1>5, <1>6
<1>9. IsFiniteSet(K) /\ Cardinality(K) = k
  <2> HIDE DEF K
  <2>1. /\ IsFiniteSet(Elems(q) \ Elems(r))
        /\ Cardinality(Elems(q) \ Elems(r))
             = Cardinality(Elems(q)) - Cardinality(Elems(q) \cap Elems(r))
      BY <1>7, FS_Difference
  <2>2. Cardinality(K) = Cardinality(Elems(q)) - Cardinality(Elems(r)) /\ IsFiniteSet(K)
      BY <1>8, <2>1
  <2>3. QED
      BY <1>2, <1>7, <2>2
<1>10. QED
    BY <1>1, <1>2, <1>3, <1>5, <1>6, <1>9 DEF r

\* One leaves the queue wherever it stands.
LEMMA OneLeaves ==
    ASSUME NEW q \in Seq(Tasks), Distinct(q), NEW n \in 1..Len(q)
    PROVE  LET r == RemoveFirst(q, q[n]) IN
           /\ r \in Seq(Tasks) /\ Distinct(r)
           /\ Elems(r) = Elems(q) \ {q[n]}
<1> DEFINE a == SubSeq(q, 1, n - 1)
           b == SubSeq(q, n + 1, Len(q))
           r == RemoveFirst(q, q[n])
<1>1. r = a \o b
  <2>1. {i \in 1..Len(q) : q[i] = q[n]} = {n}
      BY DEF Distinct
  <2>2. Min({n}) = n
      BY DEF Min
  <2>3. SelectInSeq(q, LAMBDA v : v = q[n]) = n
      BY <2>1, <2>2 DEF SelectInSeq
  <2>4. QED
      BY <2>3, n \in 1..Len(q) DEF RemoveFirst, RemoveAt
<1>2. a \in Seq(Tasks) /\ Len(a) = n - 1 /\ \A i \in 1..(n - 1) : a[i] = q[i]
    OBVIOUS
<1>3. b \in Seq(Tasks) /\ Len(b) = Len(q) - n /\ \A i \in 1..(Len(q) - n) : b[i] = q[n + i]
    OBVIOUS
<1>4. Len(q) \in Nat /\ n \in Nat /\ 1 <= n /\ n <= Len(q)
    OBVIOUS
<1> HIDE DEF a, b, r
<1>5. /\ r \in Seq(Tasks) /\ Len(r) = Len(q) - 1
      /\ \A i \in 1..Len(r) : r[i] = IF i < n THEN a[i] ELSE b[i - (n - 1)]
  <2>1. /\ a \o b \in Seq(Tasks) /\ Len(a \o b) = Len(a) + Len(b)
        /\ \A i \in 1..(Len(a) + Len(b)) :
             (a \o b)[i] = IF i <= Len(a) THEN a[i] ELSE b[i - Len(a)]
      BY <1>2, <1>3, ConcatProperties
  <2>2. Len(a) + Len(b) = Len(q) - 1
      BY <1>2, <1>3, <1>4
  <2>3. QED
      BY <1>1, <1>2, <1>4, <2>1, <2>2
<1>6. ASSUME NEW i \in 1..Len(r)
      PROVE  r[i] = IF i < n THEN q[i] ELSE q[i + 1]
  <2>1. CASE i < n
      BY <1>2, <1>4, <1>5, <2>1
  <2>2. CASE ~(i < n)
    <3>1. i - (n - 1) \in 1..(Len(q) - n) /\ n + (i - (n - 1)) = i + 1
        BY <1>4, <1>5, <2>2
    <3>2. QED
        BY <1>3, <1>5, <2>2, <3>1
  <2>3. QED
      BY <2>1, <2>2
<1>7. Distinct(r)
    BY <1>4, <1>5, <1>6 DEF Distinct
<1>8. Elems(r) = Elems(q) \ {q[n]}
  <2>1. ASSUME NEW i \in 1..Len(r) PROVE r[i] \in Elems(q) \ {q[n]}
    <3>1. CASE i < n
        BY <1>4, <1>5, <1>6, <3>1 DEF Distinct, Elems
    <3>2. CASE ~(i < n)
      <4>1. i + 1 \in 1..Len(q) /\ i + 1 # n /\ r[i] = q[i + 1]
          BY <1>4, <1>5, <1>6, <3>2
      <4>2. QED
          BY <4>1 DEF Distinct, Elems
    <3>3. QED
        BY <3>1, <3>2
  <2>2. ASSUME NEW i \in 1..Len(q), i # n PROVE q[i] \in Elems(r)
    <3>1. CASE i < n
        BY <1>4, <1>5, <1>6, <3>1 DEF Elems
    <3>2. CASE ~(i < n)
      <4>1. i - 1 \in 1..Len(r) /\ ~(i - 1 < n) /\ (i - 1) + 1 = i
          BY <1>4, <1>5, <2>2, <3>2
      <4>2. r[i - 1] = q[i]
          BY <1>6, <4>1
      <4>3. QED
          BY <4>1, <4>2 DEF Elems
    <3>3. QED
        BY <3>1, <3>2
  <2>3. QED
      BY <2>1, <2>2 DEF Elems
<1>9. QED
    BY <1>5, <1>7, <1>8 DEF r

\* One more at the end.
LEMMA OneQueues ==
    ASSUME NEW q \in Seq(Tasks), Distinct(q), NEW t \in Tasks, t \notin Elems(q)
    PROVE  LET r == Append(q, t) IN
           /\ r \in Seq(Tasks) /\ Distinct(r) /\ Elems(r) = Elems(q) \cup {t}
<1> DEFINE r == Append(q, t)
<1>1. /\ r \in Seq(Tasks) /\ Len(r) = Len(q) + 1 /\ r[Len(q) + 1] = t
      /\ \A i \in 1..Len(q) : r[i] = q[i]
    BY AppendProperties
<1> HIDE DEF r
<1>2. Len(q) \in Nat /\ \A i \in 1..Len(q) : q[i] # t
    BY DEF Elems
<1>3. Distinct(r)
    BY <1>1, <1>2 DEF Distinct
<1>4. 1..Len(r) = 1..Len(q) \cup {Len(q) + 1}
    BY <1>1, <1>2
<1>5. Elems(r) = Elems(q) \cup {t}
    BY <1>1, <1>4 DEF Elems
<1>6. QED
    BY <1>1, <1>3, <1>5 DEF r

---------------------------------------------------------------------------
(* One gate                                                                *)

\* Nobody is counted twice, in the queue or on the way in.
Waiters(g) == Elems(g.queue) \cup g.granted \cup g.flushed
Sound(g) ==
    /\ g \in GateType /\ Distinct(g.queue)
    /\ Elems(g.queue) \cap g.granted = {}
    /\ Elems(g.queue) \cap g.flushed = {} /\ g.granted \cap g.flushed = {}

\* What waking waiters leaves of a gate, and that it wakes somebody if anybody waits.
SameButWoken(g, w) ==
    /\ w.limit = g.limit /\ w.gated = g.gated /\ w.active = g.active
    /\ w.waiting = g.waiting /\ w.toReduce = g.toReduce /\ w.flushed = g.flushed
    /\ Waiters(w) = Waiters(g)

LEMMA Counted ==
    ASSUME NEW S \in SUBSET Tasks
    PROVE  /\ IsFiniteSet(S) /\ Cardinality(S) \in Nat
           /\ \A t \in S : Cardinality(S \ {t}) = Cardinality(S) - 1 /\ Cardinality(S) > 0
           /\ \A t \in Tasks \ S : Cardinality(S \cup {t}) = Cardinality(S) + 1
<1>1. IsFiniteSet(S) /\ Cardinality(S) \in Nat
    BY TasksAssumption, FS_Subset, FS_CardinalityType
<1>2. ASSUME NEW t \in S PROVE Cardinality(S \ {t}) = Cardinality(S) - 1 /\ Cardinality(S) > 0
  <2>1. Cardinality(S \ {t}) = Cardinality(S) - 1 /\ IsFiniteSet(S \ {t})
      BY <1>1, FS_RemoveElement
  <2>2. Cardinality(S \ {t}) \in Nat
      BY <2>1, FS_CardinalityType
  <2>3. QED
      BY <1>1, <2>1, <2>2
<1>3. ASSUME NEW t \in Tasks \ S PROVE Cardinality(S \cup {t}) = Cardinality(S) + 1
    BY <1>1, FS_AddElement
<1>4. QED
    BY <1>1, <1>2, <1>3

LEMMA CountedTogether ==
    ASSUME NEW S \in SUBSET Tasks, NEW T \in SUBSET Tasks, S \cap T = {}
    PROVE  Cardinality(S \cup T) = Cardinality(S) + Cardinality(T)
<1>1. IsFiniteSet(S) /\ IsFiniteSet(T) /\ Cardinality(S) \in Nat /\ Cardinality(T) \in Nat
    BY Counted
<1>2. Cardinality(S \cup T) = Cardinality(S) + Cardinality(T) - Cardinality(S \cap T)
    BY <1>1, FS_Union
<1>3. Cardinality(S \cap T) = 0
    BY FS_EmptySet
<1>4. QED
    BY <1>1, <1>2, <1>3

\* The fields of a gate.
LEMMA GateFields ==
    ASSUME NEW g, Sound(g)
    PROVE  /\ g.limit \in Nat /\ g.active \in Nat /\ g.waiting \in Nat /\ g.toReduce \in Nat
           /\ g.value \in Nat /\ g.gated \in BOOLEAN
           /\ g.queue \in Seq(Tasks) /\ Len(g.queue) \in Nat
           /\ Elems(g.queue) \subseteq Tasks /\ g.granted \subseteq Tasks /\ g.flushed \subseteq Tasks
           /\ Waiters(g) \subseteq Tasks
           /\ Cardinality(g.granted) \in Nat
           /\ Cardinality(Waiters(g))
                = Len(g.queue) + Cardinality(g.granted) + Cardinality(g.flushed)
<1>1. /\ g.limit \in Nat /\ g.active \in Nat /\ g.waiting \in Nat /\ g.toReduce \in Nat
      /\ g.value \in Nat /\ g.gated \in BOOLEAN
      /\ g.queue \in Seq(Tasks) /\ g.granted \subseteq Tasks /\ g.flushed \subseteq Tasks
      /\ Distinct(g.queue)
    BY DEF Sound, GateType
<1>2. Len(g.queue) \in Nat
    BY <1>1
<1>3. Elems(g.queue) \subseteq Tasks /\ Cardinality(Elems(g.queue)) = Len(g.queue)
    BY <1>1, QueueCounts
<1>4. Cardinality(Elems(g.queue) \cup g.granted) = Len(g.queue) + Cardinality(g.granted)
    BY <1>1, <1>3, CountedTogether DEF Sound
<1>5. Cardinality(Waiters(g)) = Cardinality(Elems(g.queue) \cup g.granted) + Cardinality(g.flushed)
  <2>1. (Elems(g.queue) \cup g.granted) \cap g.flushed = {}
      BY DEF Sound
  <2>2. QED
      BY <1>1, <1>3, <2>1, CountedTogether DEF Waiters
<1>6. Cardinality(g.granted) \in Nat
    BY <1>1, Counted
<1>7. Waiters(g) \subseteq Tasks
    BY <1>1, <1>3 DEF Waiters
<1>8. QED
    BY <1>1, <1>2, <1>3, <1>4, <1>5, <1>6, <1>7

\* _wake_up_next, n times: as many permits are handed out as there are takers.
LEMMA WakeUpIs ==
    ASSUME NEW g, Sound(g), NEW n \in Nat, n <= g.value
    PROVE  LET w == WakeUp(g, n) IN
           /\ Sound(w) /\ SameButWoken(g, w)
           /\ w.value + Cardinality(w.granted) = g.value + Cardinality(g.granted)
           /\ n > 0 => w.queue = <<>> \/ w.granted # {}
           /\ n = 0 => w.queue = g.queue /\ w.granted = g.granted /\ w.value = g.value
<1> DEFINE k == Smaller(n, Len(g.queue))
           r == SubSeq(g.queue, k + 1, Len(g.queue))
           K == {g.queue[i] : i \in 1..k}
           w == WakeUp(g, n)
<1>1. g.value \in Nat /\ g.queue \in Seq(Tasks) /\ Len(g.queue) \in Nat /\ Distinct(g.queue)
      /\ g.granted \in SUBSET Tasks /\ g.flushed \in SUBSET Tasks
    BY GateFields DEF Sound
<1>2. k \in 0..Len(g.queue) /\ k <= n /\ k <= g.value /\ (n > 0 => k > 0 \/ Len(g.queue) = 0)
      /\ (n = 0 => k = 0)
    BY <1>1 DEF Smaller
<1>3. /\ w.value = g.value - k /\ w.queue = r /\ w.granted = g.granted \cup K
      /\ w.limit = g.limit /\ w.gated = g.gated /\ w.active = g.active
      /\ w.waiting = g.waiting /\ w.toReduce = g.toReduce /\ w.flushed = g.flushed
  <2>1. g \in GateType /\ w = [g EXCEPT !.value = @ - k, !.queue = r, !.granted = @ \cup K]
      BY DEF Sound, WakeUp
  <2> HIDE DEF w, r, K, k
  <2>2. QED
      BY <2>1 DEF GateType
<1>4. /\ r \in Seq(Tasks) /\ Distinct(r) /\ Len(r) = Len(g.queue) - k
      /\ K \cap Elems(r) = {} /\ K \cup Elems(r) = Elems(g.queue)
      /\ IsFiniteSet(K) /\ Cardinality(K) = k
  <2>1. \A m \in 0..Len(g.queue) :
          LET rest  == SubSeq(g.queue, m + 1, Len(g.queue))
              first == {g.queue[i] : i \in 1..m}
          IN  /\ rest \in Seq(Tasks) /\ Distinct(rest) /\ Len(rest) = Len(g.queue) - m
              /\ first \cap Elems(rest) = {} /\ first \cup Elems(rest) = Elems(g.queue)
              /\ IsFiniteSet(first) /\ Cardinality(first) = m
      BY <1>1, FirstGo
  <2> HIDE DEF k
  <2>2. QED
      BY <1>2, <2>1
<1>5. K \subseteq Tasks /\ g.granted \cap K = {} /\ g.flushed \cap K = {}
    BY <1>1, <1>2, <1>4, GateFields DEF Sound
<1>6. w \in GateType
  <2>1. g \in GateType /\ w = [g EXCEPT !.value = g.value - k, !.queue = r, !.granted = g.granted \cup K]
      BY DEF Sound, WakeUp
  <2>2. g.value - k \in Nat /\ g.granted \cup K \in SUBSET Tasks
      BY <1>1, <1>2, <1>5
  <2> HIDE DEF w, r, K, k
  <2>3. QED
      BY <1>4, <2>1, <2>2 DEF GateType
<1> HIDE DEF w, r, K, k
<1>7. Waiters(w) = Waiters(g)
    BY <1>3, <1>4 DEF Waiters
<1>8. Sound(w)
    BY <1>3, <1>4, <1>5, <1>6 DEF Sound
<1>9. Cardinality(w.granted) = Cardinality(g.granted) + k
    BY <1>1, <1>3, <1>4, <1>5, CountedTogether
<1>10. w.value + Cardinality(w.granted) = g.value + Cardinality(g.granted)
    BY <1>1, <1>2, <1>3, <1>9, GateFields
<1>11. n > 0 => w.queue = <<>> \/ w.granted # {}
  <2>1. CASE k > 0
    <3>1. Cardinality(w.granted) # 0
        BY <1>2, <1>9, <2>1, GateFields
    <3>2. QED
        BY <3>1, FS_EmptySet
  <2>2. CASE Len(g.queue) = 0
    <3>1. Len(r) = Len(g.queue) - k
        BY <1>4, Zenon
    <3>2. Len(r) = 0
      <4>1. k \in 0..0
          BY <1>2, <2>2
      <4>2. k = 0
          BY <4>1
      <4>3. QED
          BY <2>2, <3>1, <4>2
    <3>3. QED
        BY <1>3, <1>4, <3>2, EmptySeq
  <2>3. QED
      BY <1>2, <2>1, <2>2
<1>12. n = 0 => w.queue = g.queue /\ w.granted = g.granted /\ w.value = g.value
  <2>1. SUFFICES ASSUME n = 0 PROVE w.queue = g.queue /\ w.granted = g.granted /\ w.value = g.value
      OBVIOUS
  <2>2. k = 0
      BY <1>2, <2>1
  <2>3. r = SubSeq(g.queue, 1, Len(g.queue)) /\ K = {}
      BY <2>2 DEF r, K
  <2>4. r = g.queue
      BY <1>1, <2>3, SubSeqFull
  <2>5. QED
      BY <1>1, <1>3, <2>2, <2>3, <2>4
<1>13. QED
    BY <1>3, <1>7, <1>8, <1>10, <1>11, <1>12 DEF SameButWoken, w
\* The same after n permits more.
LEMMA ReleaseIs ==
    ASSUME NEW g, Sound(g), NEW n \in Nat
    PROVE  LET w == ReleasePermits(g, n) IN
           /\ Sound(w) /\ SameButWoken(g, w)
           /\ w.value + Cardinality(w.granted) = g.value + n + Cardinality(g.granted)
           /\ n > 0 => w.queue = <<>> \/ w.granted # {}
           /\ n = 0 => w.queue = g.queue /\ w.granted = g.granted /\ w.value = g.value
<1> DEFINE h == [g EXCEPT !.value = @ + n]
           w == WakeUp(h, n)
<1>1. g \in GateType /\ g.value \in Nat
    BY GateFields DEF Sound
<1>2. /\ h \in GateType /\ h.value = g.value + n /\ h.queue = g.queue /\ h.granted = g.granted
      /\ h.flushed = g.flushed /\ h.limit = g.limit /\ h.gated = g.gated /\ h.active = g.active
      /\ h.waiting = g.waiting /\ h.toReduce = g.toReduce
    BY <1>1, SMTT(30) DEF GateType
<1>3. ReleasePermits(g, n) = w
    BY DEF ReleasePermits
<1> HIDE DEF h
<1>4. Sound(h) /\ n <= h.value /\ Waiters(h) = Waiters(g)
    BY <1>1, <1>2 DEF Sound, Waiters
<1>5. /\ Sound(w) /\ SameButWoken(h, w)
      /\ w.value + Cardinality(w.granted) = h.value + Cardinality(h.granted)
      /\ n > 0 => w.queue = <<>> \/ w.granted # {}
      /\ n = 0 => w.queue = h.queue /\ w.granted = h.granted /\ w.value = h.value
    BY <1>4, WakeUpIs
<1> HIDE DEF w
<1>6. SameButWoken(g, w)
    BY <1>2, <1>4, <1>5 DEF SameButWoken
<1>7. n = 0 => h.value = g.value
    BY <1>1, <1>2
<1>8. QED
    BY <1>2, <1>3, <1>5, <1>6, <1>7

\* What stays when only a permit, or nothing, is taken.
SameCap(g, h) == h.limit = g.limit /\ h.gated = g.gated /\ h.toReduce = g.toReduce

LEMMA EnterIs ==
    ASSUME NEW g, Sound(g), NEW t \in Tasks, t \notin Waiters(g)
    PROVE  LET h == Enter(g, t) IN
           /\ Sound(h) /\ SameCap(g, h) /\ h.granted = g.granted
           /\ EntersAtOnce(g) =>
                /\ h.active = g.active + 1 /\ h.waiting = g.waiting
                /\ h.queue = g.queue /\ Waiters(h) = Waiters(g)
                /\ g.gated => h.value = g.value - 1 /\ g.queue = <<>>
           /\ ~EntersAtOnce(g) =>
                /\ g.gated /\ h.active = g.active /\ h.waiting = g.waiting + 1 /\ h.value = g.value
                /\ Waiters(h) = Waiters(g) \cup {t}
                /\ g.value = 0 \/ g.queue # <<>> \/ g.granted # {}
<1>1. g \in GateType /\ g.value \in Nat /\ g.active \in Nat /\ g.waiting \in Nat
      /\ g.queue \in Seq(Tasks) /\ Distinct(g.queue) /\ g.granted \subseteq Tasks
    BY GateFields DEF Sound
<1>2. CASE ~g.gated
  <2> DEFINE h == [g EXCEPT !.active = @ + 1]
  <2>1. Enter(g, t) = h /\ EntersAtOnce(g)
      BY <1>2 DEF Enter, EntersAtOnce
  <2>2. /\ h \in GateType /\ h.active = g.active + 1 /\ h.waiting = g.waiting /\ h.queue = g.queue
        /\ h.granted = g.granted /\ h.flushed = g.flushed /\ SameCap(g, h)
      BY <1>1, SMTT(30) DEF GateType, SameCap
  <2> HIDE DEF h
  <2>3. QED
      BY <1>2, <2>1, <2>2 DEF Sound, Waiters
<1>3. CASE g.gated /\ Unlocked(g)
  <2> DEFINE h == [g EXCEPT !.value = @ - 1, !.active = @ + 1]
  <2>1. Enter(g, t) = h /\ EntersAtOnce(g) /\ g.value > 0 /\ g.queue = <<>>
      BY <1>3 DEF Enter, EntersAtOnce, Unlocked
  <2>2. /\ h \in GateType /\ h.active = g.active + 1 /\ h.waiting = g.waiting /\ h.queue = g.queue
        /\ h.granted = g.granted /\ h.flushed = g.flushed /\ SameCap(g, h) /\ h.value = g.value - 1
    <3> DEFINE v == g.value - 1
               n == g.active + 1
    <3>1. v \in Nat /\ n \in Nat
        BY <1>1, <2>1
    <3>2. h = [g EXCEPT !.value = v, !.active = n]
        OBVIOUS
    <3> HIDE DEF h, v, n
    <3>3. /\ h \in GateType
          /\ h.limit = g.limit
          /\ h.gated = g.gated
          /\ h.active = n
          /\ h.waiting = g.waiting
          /\ h.toReduce = g.toReduce
          /\ h.value = v
          /\ h.queue = g.queue
          /\ h.granted = g.granted
          /\ h.flushed = g.flushed
        BY <1>1, <2>1, <3>1, <3>2 DEF GateType
    <3>4. QED
        BY <3>3 DEF SameCap, v, n
  <2> HIDE DEF h
  <2>3. QED
      BY <2>1, <2>2 DEF Sound, Waiters
<1>4. CASE g.gated /\ ~Unlocked(g)
  <2> DEFINE r == Append(g.queue, t)
             h == [g EXCEPT !.waiting = @ + 1, !.queue = r]
  <2>1. Enter(g, t) = h /\ ~EntersAtOnce(g)
      BY <1>4 DEF Enter, EntersAtOnce
  <2>2. g.value = 0 \/ g.queue # <<>> \/ g.granted # {}
      BY <1>1, <1>4 DEF Unlocked
  <2>3. t \notin Elems(g.queue) /\ t \notin g.granted /\ t \notin g.flushed
      BY DEF Waiters
  <2>4. r \in Seq(Tasks) /\ Distinct(r) /\ Elems(r) = Elems(g.queue) \cup {t}
      BY <1>1, <2>3, OneQueues
  <2> HIDE DEF r
  <2>5. /\ h \in GateType /\ h.active = g.active /\ h.waiting = g.waiting + 1 /\ h.queue = r
        /\ h.granted = g.granted /\ h.flushed = g.flushed /\ SameCap(g, h) /\ h.value = g.value
    <3> DEFINE n == g.waiting + 1
    <3>1. n \in Nat
        BY <1>1, <2>4
    <3>2. h = [g EXCEPT !.waiting = n, !.queue = r]
        OBVIOUS
    <3> HIDE DEF h, n
    <3>3. /\ h \in GateType
          /\ h.limit = g.limit
          /\ h.gated = g.gated
          /\ h.active = g.active
          /\ h.waiting = n
          /\ h.toReduce = g.toReduce
          /\ h.value = g.value
          /\ h.queue = r
          /\ h.granted = g.granted
          /\ h.flushed = g.flushed
        BY <1>1, <2>4, <3>1, <3>2 DEF GateType
    <3>4. QED
        BY <3>3 DEF SameCap, n
  <2> HIDE DEF h
  <2>6. Sound(h)
      BY <2>3, <2>4, <2>5 DEF Sound
  <2>7. Waiters(h) = Waiters(g) \cup {t}
      BY <2>4, <2>5 DEF Waiters
  <2>8. QED
      BY <1>4, <2>1, <2>2, <2>5, <2>6, <2>7
<1>5. QED
    BY <1>1, <1>2, <1>3, <1>4 DEF Sound, GateType

\* One that was granted is not on its way any more.
LEMMA GrantGone ==
    ASSUME NEW g, Sound(g), NEW t \in g.granted, NEW h, h \in GateType,
           h.queue = g.queue, h.granted = g.granted \ {t}, h.flushed = g.flushed
    PROVE  /\ Sound(h) /\ Waiters(h) = Waiters(g) \ {t}
           /\ Cardinality(h.granted) = Cardinality(g.granted) - 1
           /\ Cardinality(h.granted) \in Nat
<1>1. Sound(h) /\ Waiters(h) = Waiters(g) \ {t}
    BY DEF Sound, Waiters
<1>2. Cardinality(h.granted) = Cardinality(g.granted) - 1
    BY GateFields, Counted
<1>3. QED
    BY <1>1, <1>2, GateFields

LEMMA AdmitIs ==
    ASSUME NEW g, Sound(g), NEW t \in g.granted, g.waiting > 0
    PROVE  LET h == Admit(g, t) IN
           /\ Sound(h) /\ SameCap(g, h) /\ Waiters(h) = Waiters(g) \ {t}
           /\ h.active = g.active + 1 /\ h.waiting = g.waiting - 1
           /\ h.value + Cardinality(h.granted) + 1 = g.value + Cardinality(g.granted)
           /\ h.queue = <<>> \/ h.value = 0 \/ h.granted # {}
<1> DEFINE in == [g EXCEPT !.waiting = @ - 1, !.active = @ + 1, !.granted = @ \ {t}]
<1>1. g \in GateType /\ g.value \in Nat /\ g.active \in Nat /\ g.waiting \in Nat
      /\ g.granted \in SUBSET Tasks /\ Cardinality(g.granted) \in Nat
    BY GateFields DEF Sound
<1>2. /\ in \in GateType /\ in.value = g.value /\ in.active = g.active + 1
      /\ in.waiting = g.waiting - 1 /\ in.queue = g.queue /\ in.granted = g.granted \ {t}
      /\ in.flushed = g.flushed /\ SameCap(g, in)
  <2> DEFINE w == g.waiting - 1
             a == g.active + 1
             G == g.granted \ {t}
  <2>1. w \in Nat /\ a \in Nat /\ G \in SUBSET Tasks
      BY <1>1
  <2>2. in = [g EXCEPT !.waiting = w, !.active = a, !.granted = G]
      OBVIOUS
  <2> HIDE DEF in, w, G, a
  <2>3. /\ in \in GateType /\ in.waiting = w /\ in.granted = G /\ in.value = g.value
        /\ in.active = a /\ in.queue = g.queue /\ in.flushed = g.flushed
        /\ in.limit = g.limit /\ in.gated = g.gated /\ in.toReduce = g.toReduce
      BY <1>1, <2>1, <2>2 DEF GateType
  <2>4. QED
      BY <2>3 DEF SameCap, w, G, a
<1>3. Admit(g, t) = IF in.value > 0 THEN WakeUp(in, 1) ELSE in
    BY DEF Admit
<1> HIDE DEF in
<1>4. /\ Sound(in) /\ Waiters(in) = Waiters(g) \ {t}
      /\ Cardinality(in.granted) = Cardinality(g.granted) - 1
    BY <1>2, GrantGone
<1>5. CASE in.value > 0
  <2> DEFINE h == WakeUp(in, 1)
  <2>1. /\ Sound(h) /\ SameButWoken(in, h) /\ (h.queue = <<>> \/ h.granted # {})
        /\ h.value + Cardinality(h.granted) = in.value + Cardinality(in.granted)
    <3>1. 1 \in Nat /\ 1 <= in.value /\ 1 > 0
        BY <1>1, <1>2, <1>5
    <3>2. QED
        BY <1>4, <3>1, WakeUpIs
  <2> HIDE DEF h
  <2>2. h.value + Cardinality(h.granted) + 1 = g.value + Cardinality(g.granted)
      BY <1>1, <1>2, <1>4, <2>1
  <2>3. Admit(g, t) = h
      BY <1>3, <1>5 DEF h
  <2>4. QED
      BY <1>2, <1>4, <2>1, <2>2, <2>3 DEF SameButWoken, SameCap
<1>6. CASE ~(in.value > 0)
  <2>1. in.value = 0 /\ in.value + Cardinality(in.granted) + 1 = g.value + Cardinality(g.granted)
      BY <1>1, <1>2, <1>4, <1>6
  <2>2. QED
      BY <1>2, <1>3, <1>4, <1>6, <2>1
<1>7. QED
    BY <1>5, <1>6

LEMMA RevokeIs ==
    ASSUME NEW g, Sound(g), NEW t \in g.granted, g.waiting > 0
    PROVE  LET h == Revoke(g, t) IN
           /\ Sound(h) /\ SameCap(g, h) /\ Waiters(h) = Waiters(g) \ {t}
           /\ h.active = g.active /\ h.waiting = g.waiting - 1
           /\ h.value + Cardinality(h.granted) = g.value + Cardinality(g.granted)
           /\ h.queue = <<>> \/ h.granted # {}
<1> DEFINE out == [g EXCEPT !.waiting = @ - 1, !.granted = @ \ {t}]
           h   == ReleasePermits(out, 1)
<1>1. g \in GateType /\ g.value \in Nat /\ g.active \in Nat /\ g.waiting \in Nat
      /\ g.granted \in SUBSET Tasks /\ Cardinality(g.granted) \in Nat
    BY GateFields DEF Sound
<1>2. /\ out \in GateType /\ out.value = g.value /\ out.active = g.active
      /\ out.waiting = g.waiting - 1 /\ out.queue = g.queue /\ out.granted = g.granted \ {t}
      /\ out.flushed = g.flushed /\ SameCap(g, out)
  <2> DEFINE w == g.waiting - 1
             G == g.granted \ {t}
  <2>1. w \in Nat /\ G \in SUBSET Tasks
      BY <1>1
  <2>2. out = [g EXCEPT !.waiting = w, !.granted = G]
      OBVIOUS
  <2> HIDE DEF out, w, G
  <2>3. /\ out \in GateType /\ out.waiting = w /\ out.granted = G /\ out.value = g.value
        /\ out.active = g.active /\ out.queue = g.queue /\ out.flushed = g.flushed
        /\ out.limit = g.limit /\ out.gated = g.gated /\ out.toReduce = g.toReduce
      BY <1>1, <2>1, <2>2 DEF GateType
  <2>4. QED
      BY <2>3 DEF SameCap, w, G
<1>3. Revoke(g, t) = h
    BY DEF Revoke
<1> HIDE DEF out
<1>4. /\ Sound(out) /\ Waiters(out) = Waiters(g) \ {t}
      /\ Cardinality(out.granted) = Cardinality(g.granted) - 1
    BY <1>2, GrantGone
<1>5. /\ Sound(h) /\ SameButWoken(out, h) /\ (h.queue = <<>> \/ h.granted # {})
      /\ h.value + Cardinality(h.granted) = out.value + 1 + Cardinality(out.granted)
  <2>1. 1 \in Nat /\ 1 > 0
      OBVIOUS
  <2>2. QED
      BY <1>4, <2>1, ReleaseIs
<1> HIDE DEF h
<1>6. h.value + Cardinality(h.granted) = g.value + Cardinality(g.granted)
    BY <1>1, <1>2, <1>4, <1>5
<1>7. QED
    BY <1>2, <1>3, <1>4, <1>5, <1>6 DEF SameButWoken, SameCap
\* A pending waiter is cancelled: it leaves the queue at once.
LEMMA CancelIs ==
    ASSUME NEW g, Sound(g), NEW t \in Elems(g.queue)
    PROVE  LET h == CancelWaiter(g, t) IN
           /\ Sound(h) /\ SameCap(g, h) /\ Waiters(h) = Waiters(g) \ {t} /\ g.queue # <<>>
           /\ h.active = g.active /\ h.waiting = g.waiting /\ h.value = g.value
           /\ h.granted = g.granted
<1> DEFINE r == RemoveFirst(g.queue, t)
           h == CancelWaiter(g, t)
<1>1. g \in GateType /\ g.queue \in Seq(Tasks) /\ Distinct(g.queue)
    BY GateFields DEF Sound
<1>2. PICK n \in 1..Len(g.queue) : g.queue[n] = t
    BY DEF Elems
<1>3. r \in Seq(Tasks) /\ Distinct(r) /\ Elems(r) = Elems(g.queue) \ {t}
    BY <1>1, <1>2, OneLeaves
<1>4. h = [g EXCEPT !.queue = r]
    BY DEF CancelWaiter
<1> HIDE DEF r, h
<1>5. /\ h \in GateType
      /\ h.limit = g.limit /\ h.gated = g.gated /\ h.active = g.active
      /\ h.waiting = g.waiting /\ h.toReduce = g.toReduce /\ h.value = g.value
      /\ h.queue = r /\ h.granted = g.granted /\ h.flushed = g.flushed
    BY <1>1, <1>3, <1>4 DEF GateType
<1>6. Sound(h)
    BY <1>3, <1>5 DEF Sound
<1>7. Waiters(h) = Waiters(g) \ {t}
    BY <1>3, <1>5 DEF Sound, Waiters
<1>8. g.queue # <<>>
    BY <1>1, <1>2
<1>9. QED
    BY <1>5, <1>6, <1>7, <1>8 DEF SameCap, h

\* A holder leaves: its permit goes on, or is withheld, or there is no cap.
LEMMA ExitIs ==
    ASSUME NEW g, Sound(g), g.active > 0
    PROVE  LET h == Exit(g) IN
           /\ Sound(h) /\ Waiters(h) = Waiters(g)
           /\ h.limit = g.limit /\ h.gated = g.gated
           /\ h.active = g.active - 1 /\ h.waiting = g.waiting
           /\ h.value + Cardinality(h.granted) + h.active + g.toReduce
                = g.value + Cardinality(g.granted) + g.active + h.toReduce \/ ~g.gated
           /\ \/ h.queue = g.queue /\ h.value = g.value /\ h.granted = g.granted
              \/ g.gated /\ (h.queue = <<>> \/ h.granted # {})
<1> DEFINE out == [g EXCEPT !.active = @ - 1]
<1>1. /\ g \in GateType /\ g.value \in Nat /\ g.active \in Nat /\ g.toReduce \in Nat
      /\ g.gated \in BOOLEAN /\ Cardinality(g.granted) \in Nat
    BY GateFields DEF Sound
<1>2. /\ out \in GateType
      /\ out.limit = g.limit /\ out.gated = g.gated /\ out.active = g.active - 1
      /\ out.waiting = g.waiting /\ out.toReduce = g.toReduce /\ out.value = g.value
      /\ out.queue = g.queue /\ out.granted = g.granted /\ out.flushed = g.flushed
  <2> DEFINE n == g.active - 1
  <2>1. n \in Nat /\ out = [g EXCEPT !.active = n]
      BY <1>1
  <2> HIDE DEF out, n
  <2>2. /\ out \in GateType
        /\ out.limit = g.limit /\ out.gated = g.gated /\ out.active = n
        /\ out.waiting = g.waiting /\ out.toReduce = g.toReduce /\ out.value = g.value
        /\ out.queue = g.queue /\ out.granted = g.granted /\ out.flushed = g.flushed
      BY <1>1, <2>1 DEF GateType
  <2>3. QED
      BY <2>2 DEF n
<1>3. Exit(g) = IF ~g.gated THEN out
                ELSE IF g.toReduce > 0 THEN [out EXCEPT !.toReduce = g.toReduce - 1]
                ELSE ReleasePermits(out, 1)
  <2>1. out.toReduce = g.toReduce
      BY <1>2
  <2>2. QED
      BY <2>1 DEF Exit
<1> HIDE DEF out
<1>4. Sound(out) /\ Waiters(out) = Waiters(g)
    BY <1>2 DEF Sound, Waiters
<1>5. CASE ~g.gated
    BY <1>2, <1>3, <1>4, <1>5
<1>6. CASE g.gated /\ g.toReduce > 0
  <2> DEFINE m == g.toReduce - 1
             h == [out EXCEPT !.toReduce = m]
  <2>1. m \in Nat
      BY <1>1, <1>6
  <2>2. Exit(g) = h
      BY <1>3, <1>6
  <2> HIDE DEF m
  <2>3. /\ h \in GateType
        /\ h.limit = out.limit /\ h.gated = out.gated /\ h.active = out.active
        /\ h.waiting = out.waiting /\ h.toReduce = m /\ h.value = out.value
        /\ h.queue = out.queue /\ h.granted = out.granted /\ h.flushed = out.flushed
      BY <1>2, <2>1 DEF GateType
  <2> HIDE DEF h
  <2>4. Sound(h) /\ Waiters(h) = Waiters(g)
      BY <1>4, <2>3 DEF Sound, Waiters
  <2>5. h.value + Cardinality(h.granted) + h.active + g.toReduce
          = g.value + Cardinality(g.granted) + g.active + h.toReduce
      BY <1>1, <1>2, <2>3 DEF m
  <2>6. QED
      BY <1>2, <2>2, <2>3, <2>4, <2>5
<1>7. CASE g.gated /\ ~(g.toReduce > 0)
  <2> DEFINE h == ReleasePermits(out, 1)
  <2>1. Exit(g) = h
      BY <1>3, <1>7
  <2>2. /\ Sound(h) /\ SameButWoken(out, h) /\ (h.queue = <<>> \/ h.granted # {})
        /\ h.value + Cardinality(h.granted) = out.value + 1 + Cardinality(out.granted)
    <3>1. 1 \in Nat /\ 1 > 0
        OBVIOUS
    <3>2. QED
        BY <1>4, <3>1, ReleaseIs
  <2> HIDE DEF h
  <2>3. h.toReduce = g.toReduce /\ h.active = g.active - 1
      BY <1>2, <2>2 DEF SameButWoken
  <2>4. h.value + Cardinality(h.granted) + h.active + g.toReduce
          = g.value + Cardinality(g.granted) + g.active + h.toReduce
    <3>1. h.value \in Nat /\ Cardinality(h.granted) \in Nat
        BY <2>2, GateFields
    <3>2. h.value + Cardinality(h.granted) = g.value + 1 + Cardinality(g.granted)
        BY <1>2, <2>2
    <3>3. QED
        BY <1>1, <2>3, <3>1, <3>2
  <2>5. QED
      BY <1>2, <1>4, <1>7, <2>1, <2>2, <2>3, <2>4 DEF SameButWoken
<1>8. QED
    BY <1>1, <1>5, <1>6, <1>7

\* The cap is turned off: everybody who waits is let through.
LEMMA TurnOffIs ==
    ASSUME NEW g, Sound(g), Len(g.queue) <= g.waiting
    PROVE  LET h == TurnOff(g) IN
           /\ Sound(h) /\ Waiters(h) = Waiters(g)
           /\ h.limit = 0 /\ h.gated = FALSE /\ h.queue = <<>> /\ h.granted = {}
           /\ h.active = g.active /\ h.waiting = g.waiting
<1> DEFINE n == Len(g.queue)
           k == Smaller(g.waiting, n)
           r == SubSeq(g.queue, k + 1, n)
           K == {g.queue[i] : i \in 1..k}
           D == g.flushed \cup g.granted \cup K
           h == TurnOff(g)
<1>1. /\ g \in GateType /\ g.queue \in Seq(Tasks) /\ n \in Nat /\ g.waiting \in Nat
      /\ g.granted \subseteq Tasks /\ g.flushed \subseteq Tasks /\ Elems(g.queue) \subseteq Tasks
    BY GateFields DEF Sound
<1>2. k = n
    BY <1>1 DEF Smaller
<1>3. r = <<>> /\ K = Elems(g.queue)
  <2>1. n + 1 \in Int /\ n \in Int /\ n < n + 1
      BY <1>1
  <2>2. SubSeq(g.queue, n + 1, n) = <<>>
      BY <2>1, SubSeqEmpty
  <2>3. QED
      BY <1>2, <2>2 DEF Elems
<1>4. h = [g EXCEPT !.limit = 0, !.gated = FALSE, !.toReduce = 0, !.value = 0,
                    !.queue = r, !.flushed = D, !.granted = {}]
    BY DEF TurnOff
<1> HIDE DEF r, K, k
<1>5. D = Waiters(g) /\ D \in SUBSET Tasks /\ r \in Seq(Tasks)
    BY <1>1, <1>3, EmptySeq DEF Waiters
<1>6. Elems(r) = {} /\ Distinct(r)
  <2>1. Len(r) = 0
      BY <1>3
  <2>2. QED
      BY <2>1 DEF Elems, Distinct
<1> HIDE DEF h, D
<1>7. /\ h \in GateType /\ h.limit = 0 /\ h.gated = FALSE /\ h.queue = r /\ h.granted = {}
      /\ h.active = g.active /\ h.waiting = g.waiting /\ h.flushed = D
    BY <1>1, <1>4, <1>5 DEF GateType
<1>8. Sound(h) /\ Waiters(h) = Waiters(g)
    BY <1>5, <1>6, <1>7 DEF Sound, Waiters
<1>9. QED
    BY <1>3, <1>7, <1>8 DEF h
\* The cap is turned on: what is in flight counts against it.
LEMMA TurnOnIs ==
    ASSUME NEW g, Sound(g), NEW n \in Nat
    PROVE  LET h == TurnOn(g, n) IN
           /\ Sound(h) /\ Waiters(h) = Waiters(g)
           /\ h.limit = n /\ h.gated = TRUE /\ h.queue = g.queue /\ h.granted = g.granted
           /\ h.active = g.active /\ h.waiting = g.waiting
           /\ h.value + h.active = n + h.toReduce
<1> DEFINE v == Excess(n, g.active)
           d == Excess(g.active, n)
           h == TurnOn(g, n)
<1>1. g \in GateType /\ g.active \in Nat
    BY GateFields DEF Sound
<1>2. v \in Nat /\ d \in Nat /\ v + g.active = n + d
    BY <1>1 DEF Excess
<1>3. h = [g EXCEPT !.limit = n, !.gated = TRUE, !.value = v, !.toReduce = d]
    BY DEF TurnOn
<1> HIDE DEF h, v, d
<1>4. /\ h \in GateType
      /\ h.limit = n /\ h.gated = TRUE /\ h.active = g.active
      /\ h.waiting = g.waiting /\ h.toReduce = d /\ h.value = v
      /\ h.queue = g.queue /\ h.granted = g.granted /\ h.flushed = g.flushed
    BY <1>1, <1>2, <1>3 DEF GateType
<1>5. Sound(h) /\ Waiters(h) = Waiters(g)
    BY <1>4 DEF Sound, Waiters
<1>6. QED
    BY <1>2, <1>4, <1>5 DEF h

\* The cap is raised: pending withholdings go first, then permits come.
LEMMA RaiseIs ==
    ASSUME NEW g, Sound(g), NEW n \in Nat, g.limit < n
    PROVE  LET h == Raise(g, n) IN
           /\ Sound(h) /\ Waiters(h) = Waiters(g)
           /\ h.limit = n /\ h.gated = g.gated /\ h.active = g.active /\ h.waiting = g.waiting
           /\ h.value + Cardinality(h.granted) + g.limit + g.toReduce
                = g.value + Cardinality(g.granted) + n + h.toReduce
           /\ \/ h.queue = <<>> \/ h.granted # {}
              \/ h.queue = g.queue /\ h.value = g.value /\ h.granted = g.granted
<1> DEFINE a == Smaller(n - g.limit, g.toReduce)
           d == (n - g.limit) - a
           m == g.toReduce - a
           wide == [g EXCEPT !.limit = n, !.toReduce = m]
           h == ReleasePermits(wide, d)
<1>1. /\ g \in GateType /\ g.limit \in Nat /\ g.toReduce \in Nat /\ g.value \in Nat
      /\ Cardinality(g.granted) \in Nat
    BY GateFields DEF Sound
<1>2. a \in Nat /\ d \in Nat /\ m \in Nat /\ d + g.limit + g.toReduce = n + m
    BY <1>1 DEF Smaller
<1>3. Raise(g, n) = h
    BY DEF Raise
<1> HIDE DEF a, m
<1>4. /\ wide \in GateType
      /\ wide.limit = n /\ wide.gated = g.gated /\ wide.active = g.active
      /\ wide.waiting = g.waiting /\ wide.toReduce = m /\ wide.value = g.value
      /\ wide.queue = g.queue /\ wide.granted = g.granted /\ wide.flushed = g.flushed
    BY <1>1, <1>2 DEF GateType
<1> HIDE DEF wide, d
<1>5. Sound(wide) /\ Waiters(wide) = Waiters(g)
    BY <1>4 DEF Sound, Waiters
<1>6. /\ Sound(h) /\ SameButWoken(wide, h)
      /\ h.value + Cardinality(h.granted) = wide.value + d + Cardinality(wide.granted)
      /\ d > 0 => h.queue = <<>> \/ h.granted # {}
      /\ d = 0 => h.queue = wide.queue /\ h.granted = wide.granted /\ h.value = wide.value
    BY <1>2, <1>5, ReleaseIs
<1> HIDE DEF h
<1>7. h.value \in Nat /\ Cardinality(h.granted) \in Nat
    BY <1>6, GateFields
<1>8. h.value + Cardinality(h.granted) = g.value + d + Cardinality(g.granted) /\ h.toReduce = m
    BY <1>4, <1>6 DEF SameButWoken
<1>9. h.value + Cardinality(h.granted) + g.limit + g.toReduce
        = g.value + Cardinality(g.granted) + n + h.toReduce
    BY <1>1, <1>2, <1>7, <1>8
<1>10. d > 0 \/ d = 0
    BY <1>2
<1>11. QED
    BY <1>3, <1>4, <1>5, <1>6, <1>9, <1>10 DEF SameButWoken

\* The cap is lowered: exits will withhold the difference.
LEMMA LowerIs ==
    ASSUME NEW g, Sound(g), NEW n \in Nat, n < g.limit
    PROVE  LET h == Lower(g, n) IN
           /\ Sound(h) /\ Waiters(h) = Waiters(g)
           /\ h.limit = n /\ h.gated = g.gated /\ h.queue = g.queue /\ h.granted = g.granted
           /\ h.active = g.active /\ h.waiting = g.waiting /\ h.value = g.value
           /\ n + h.toReduce = g.limit + g.toReduce
<1> DEFINE m == g.toReduce + (g.limit - n)
           h == Lower(g, n)
<1>1. g \in GateType /\ g.limit \in Nat /\ g.toReduce \in Nat
    BY GateFields DEF Sound
<1>2. m \in Nat /\ n + m = g.limit + g.toReduce
    BY <1>1
<1>3. h = [g EXCEPT !.limit = n, !.toReduce = m]
    BY DEF Lower
<1> HIDE DEF h, m
<1>4. /\ h \in GateType
      /\ h.limit = n /\ h.gated = g.gated /\ h.active = g.active
      /\ h.waiting = g.waiting /\ h.toReduce = m /\ h.value = g.value
      /\ h.queue = g.queue /\ h.granted = g.granted /\ h.flushed = g.flushed
    BY <1>1, <1>2, <1>3 DEF GateType
<1>5. Sound(h) /\ Waiters(h) = Waiters(g)
    BY <1>4 DEF Sound, Waiters
<1>6. QED
    BY <1>2, <1>4, <1>5 DEF h
---------------------------------------------------------------------------
(* The gate and the coroutines that use it                                 *)

\* Everybody is in one place, and the gate's numbers count those places.
Places ==
    /\ Sound(gate) /\ (gate.gated <=> gate.limit > 0)
    /\ inside \subseteq Tasks /\ doomed \subseteq Tasks /\ surplus \in Nat /\ resizes \in Nat
    /\ inside \cap doomed = {} /\ Waiters(gate) \cap (inside \cup doomed) = {}
    /\ gate.active = Cardinality(inside)
    /\ gate.waiting = Cardinality(Waiters(gate) \cup doomed)
Books == Places /\ NobodyStranded /\ NoLostWakeup /\ PermitsConserved

LEMMA BooksFacts ==
    ASSUME Books
    PROVE  /\ Sound(gate) /\ gate.gated \in BOOLEAN /\ gate.value \in Nat /\ gate.limit \in Nat
           /\ gate.toReduce \in Nat /\ gate.active \in Nat /\ gate.waiting \in Nat
           /\ Cardinality(gate.granted) \in Nat /\ surplus \in Nat
           /\ Waiters(gate) \subseteq Tasks /\ Waiters(gate) \cup doomed \in SUBSET Tasks
           /\ inside \in SUBSET Tasks /\ Len(gate.queue) \in Nat /\ Len(gate.queue) <= gate.waiting
<1>1. /\ Sound(gate) /\ gate.gated \in BOOLEAN /\ gate.value \in Nat /\ gate.limit \in Nat
      /\ gate.toReduce \in Nat /\ gate.active \in Nat /\ gate.waiting \in Nat
      /\ Cardinality(gate.granted) \in Nat /\ surplus \in Nat
      /\ Waiters(gate) \subseteq Tasks /\ Len(gate.queue) \in Nat
    BY GateFields DEF Books, Places
<1>2. Waiters(gate) \cup doomed \in SUBSET Tasks /\ inside \in SUBSET Tasks
    BY <1>1 DEF Books, Places
<1>3. Len(gate.queue) <= gate.waiting
  <2>1. /\ gate.queue \in Seq(Tasks) /\ Distinct(gate.queue)
        /\ Elems(gate.queue) \subseteq Waiters(gate) \cup doomed
      BY <1>1, GateFields DEF Sound, Waiters
  <2>2. Cardinality(Elems(gate.queue)) = Len(gate.queue)
      BY <2>1, QueueCounts
  <2>3. IsFiniteSet(Waiters(gate) \cup doomed)
      BY <1>2, Counted
  <2>4. Cardinality(Elems(gate.queue)) <= Cardinality(Waiters(gate) \cup doomed)
      BY <2>1, <2>3, FS_Subset
  <2>5. QED
      BY <2>2, <2>4 DEF Books, Places
<1>4. QED
    BY <1>1, <1>2, <1>3

LEMMA BooksInit == Init => Books
<1> SUFFICES ASSUME Init PROVE Books
    OBVIOUS
<1>1. PICK n \in Limits : gate = NewGate(n)
    BY DEF Init
<1>2. n \in Nat
    BY LimitsAssumption
<1>3. /\ gate.limit = n /\ gate.gated = (n > 0) /\ gate.active = 0 /\ gate.waiting = 0
      /\ gate.toReduce = 0 /\ gate.value = n /\ gate.queue = <<>> /\ gate.granted = {}
      /\ gate.flushed = {} /\ gate \in GateType
    BY <1>1, <1>2, EmptySeq DEF NewGate, GateType
<1>4. Len(gate.queue) = 0 /\ Elems(gate.queue) = {} /\ Distinct(gate.queue)
    BY <1>3 DEF Elems, Distinct
<1>5. inside = {} /\ doomed = {} /\ surplus = 0 /\ resizes = 0 /\ Cardinality({}) = 0
    BY FS_EmptySet DEF Init
<1>6. Sound(gate) /\ Waiters(gate) = {}
    BY <1>3, <1>4 DEF Sound, Waiters
<1>7. gate.value + Cardinality(gate.granted) + gate.active = gate.limit + gate.toReduce + surplus
    BY <1>2, <1>3, <1>5
<1>8. QED
    BY <1>2, <1>3, <1>5, <1>6, <1>7 DEF Books, Places, NobodyStranded, NoLostWakeup, PermitsConserved

\* Two balances that differ by what an exit gave back.
LEMMA LeftBooks ==
    ASSUME NEW v \in Nat, NEW c \in Nat, NEW l \in Nat, NEW d \in Nat, NEW a \in Nat, NEW s \in Nat,
           NEW hv \in Nat, NEW hc \in Nat, NEW ha \in Nat, NEW hd \in Nat,
           hv + hc + ha + d = v + c + a + hd,  v + c + a = l + d + s
    PROVE  hv + hc + ha = l + hd + s
OBVIOUS

\* One step per action: who changes place, and what the gate makes of it.
LEMMA BooksStep ==
    ASSUME Books, [Next]_vars
    PROVE  Books'
<1> DEFINE W == Waiters(gate)
<1>t. /\ Sound(gate) /\ gate.gated \in BOOLEAN /\ gate.value \in Nat /\ gate.limit \in Nat
      /\ gate.toReduce \in Nat /\ gate.active \in Nat /\ gate.waiting \in Nat
      /\ Cardinality(gate.granted) \in Nat /\ surplus \in Nat
      /\ W \subseteq Tasks /\ W \cup doomed \in SUBSET Tasks
      /\ inside \in SUBSET Tasks /\ Len(gate.queue) \in Nat /\ Len(gate.queue) <= gate.waiting
    BY BooksFacts
<1>b. /\ Sound(gate) /\ (gate.gated <=> gate.limit > 0)
      /\ inside \subseteq Tasks /\ doomed \subseteq Tasks /\ surplus \in Nat /\ resizes \in Nat
      /\ inside \cap doomed = {} /\ W \cap (inside \cup doomed) = {}
      /\ gate.active = Cardinality(inside)
      /\ gate.waiting = Cardinality(W \cup doomed)
    BY DEF Books, Places
<1>c. /\ ~gate.gated => gate.queue = <<>> /\ gate.granted = {}
      /\ gate.queue # <<>> => gate.value = 0 \/ gate.granted # {}
      /\ gate.gated => gate.value + Cardinality(gate.granted) + gate.active
                         = gate.limit + gate.toReduce + surplus
    BY DEF Books, NobodyStranded, NoLostWakeup, PermitsConserved
<1>w. /\ \A t \in W \cup doomed :
              Cardinality((W \cup doomed) \ {t}) = gate.waiting - 1 /\ gate.waiting > 0
      /\ \A t \in Tasks \ (W \cup doomed) : Cardinality((W \cup doomed) \cup {t}) = gate.waiting + 1
    BY <1>t, <1>b, Counted
<1>i. /\ \A t \in inside : Cardinality(inside \ {t}) = gate.active - 1 /\ gate.active > 0
      /\ \A t \in Tasks \ inside : Cardinality(inside \cup {t}) = gate.active + 1
    BY <1>t, <1>b, Counted
<1>g. gate.granted \subseteq W /\ gate.flushed \subseteq W /\ Elems(gate.queue) \subseteq W
    BY DEF Waiters
<1> HIDE DEF W
<1>1. ASSUME NEW t \in Tasks, Arrive(t) PROVE Books'
  <2> DEFINE h == Enter(gate, t)
  <2>1. /\ t \notin W /\ t \notin inside /\ t \notin doomed /\ gate' = h
        /\ inside' = (IF EntersAtOnce(gate) THEN inside \cup {t} ELSE inside)
        /\ UNCHANGED <<doomed, surplus, resizes>>
      BY <1>1 DEF Arrive, Busy, Queued, Waiters, W
  <2>2. /\ Sound(h) /\ SameCap(gate, h) /\ h.granted = gate.granted
        /\ EntersAtOnce(gate) =>
             /\ h.active = gate.active + 1 /\ h.waiting = gate.waiting
             /\ h.queue = gate.queue /\ Waiters(h) = W
             /\ gate.gated => h.value = gate.value - 1 /\ gate.queue = <<>>
        /\ ~EntersAtOnce(gate) =>
             /\ gate.gated /\ h.active = gate.active /\ h.waiting = gate.waiting + 1
             /\ h.value = gate.value /\ Waiters(h) = W \cup {t}
             /\ gate.value = 0 \/ gate.queue # <<>> \/ gate.granted # {}
      BY <1>t, <2>1, EnterIs DEF W
  <2> HIDE DEF h
  <2>3. CASE EntersAtOnce(gate)
    <3>1. gate'.gated => gate'.value + Cardinality(gate'.granted) + gate'.active
                           = gate'.limit + gate'.toReduce + surplus'
        BY <1>t, <1>c, <2>1, <2>2, <2>3, SMTT(30) DEF SameCap
    <3>2. Places'
        BY <1>b, <1>i, <2>1, <2>2, <2>3 DEF Places, SameCap
    <3>3. NobodyStranded' /\ NoLostWakeup'
        BY <1>t, <1>c, <2>1, <2>2, <2>3 DEF NobodyStranded, NoLostWakeup, SameCap
    <3>4. QED
        BY <3>1, <3>2, <3>3 DEF Books, PermitsConserved
  <2>4. CASE ~EntersAtOnce(gate)
    <3>1. gate'.gated => gate'.value + Cardinality(gate'.granted) + gate'.active
                           = gate'.limit + gate'.toReduce + surplus'
        BY <1>t, <1>c, <2>1, <2>2, <2>4 DEF SameCap
    <3>2. (W \cup {t}) \cup doomed = (W \cup doomed) \cup {t}
        OBVIOUS
    <3>3. Places'
        BY <1>b, <1>w, <2>1, <2>2, <2>4, <3>2 DEF Places, SameCap
    <3>4. NobodyStranded' /\ NoLostWakeup'
        BY <1>t, <1>c, <2>1, <2>2, <2>4 DEF NobodyStranded, NoLostWakeup, SameCap
    <3>5. QED
        BY <3>1, <3>3, <3>4 DEF Books, PermitsConserved
  <2>5. QED
      BY <2>3, <2>4
<1>2. ASSUME NEW t \in Tasks, Resume(t), t \in gate.granted, gate' = Admit(gate, t), UNCHANGED surplus
      PROVE  Books'
  <2> DEFINE h == Admit(gate, t)
  <2>1. gate' = h /\ inside' = inside \cup {t} /\ UNCHANGED <<doomed, surplus, resizes>>
      BY <1>2 DEF Resume
  <2>2. t \in W /\ t \notin inside /\ t \notin doomed /\ gate.waiting > 0 /\ t \in Tasks
      BY <1>2, <1>b, <1>g, <1>w
  <2>3. /\ Sound(h) /\ SameCap(gate, h) /\ Waiters(h) = W \ {t}
        /\ h.active = gate.active + 1 /\ h.waiting = gate.waiting - 1
        /\ h.value + Cardinality(h.granted) + 1 = gate.value + Cardinality(gate.granted)
        /\ h.queue = <<>> \/ h.value = 0 \/ h.granted # {}
      BY <1>2, <1>t, <2>2, AdmitIs DEF W
  <2> HIDE DEF h
  <2>4. h.value \in Nat /\ Cardinality(h.granted) \in Nat
      BY <2>3, GateFields
  <2>5. gate.gated
      BY <1>2, <1>c
  <2>6. gate'.value + Cardinality(gate'.granted) + gate'.active
          = gate'.limit + gate'.toReduce + surplus'
      BY <1>t, <1>c, <2>1, <2>3, <2>4, <2>5 DEF SameCap
  <2>7. (W \ {t}) \cup doomed = (W \cup doomed) \ {t}
      BY <2>2
  <2>8. Places'
      BY <1>b, <1>w, <1>i, <2>1, <2>2, <2>3, <2>7 DEF Places, SameCap
  <2>9. QED
      BY <2>1, <2>3, <2>5, <2>6, <2>8
         DEF Books, NobodyStranded, NoLostWakeup, PermitsConserved, SameCap<1>3. ASSUME NEW t \in Tasks, t \in gate.flushed,
             NEW h, h \in GateType, Sound(h), gate' = h, SameCap(gate, h), Waiters(h) = W \ {t},
             h.value = gate.value, h.queue = gate.queue, h.granted = gate.granted,
             h.waiting = gate.waiting - 1, UNCHANGED <<doomed, resizes>>,
             \/ /\ inside' = inside /\ h.active = gate.active /\ surplus' = surplus
             \/ /\ inside' = inside \cup {t} /\ h.active = gate.active + 1
                /\ surplus' = IF gate.gated THEN surplus + 1 ELSE surplus
      PROVE  Books'
  <2>1. t \in W /\ t \notin inside /\ t \notin doomed /\ t \in Tasks
      BY <1>3, <1>b, <1>g
  <2>2. (W \ {t}) \cup doomed = (W \cup doomed) \ {t}
      BY <2>1
  <2>3. Cardinality((W \ {t}) \cup doomed) = gate.waiting - 1
      BY <1>w, <2>1, <2>2
  <2>4. Cardinality(inside \cup {t}) = gate.active + 1
      BY <1>i, <2>1
  <2>5. Places'
    <3>1. CASE inside' = inside /\ h.active = gate.active /\ surplus' = surplus
        BY <1>b, <1>3, <2>1, <2>3, <3>1 DEF Places, SameCap
    <3>2. CASE /\ inside' = inside \cup {t} /\ h.active = gate.active + 1
               /\ surplus' = IF gate.gated THEN surplus + 1 ELSE surplus
      <4>1. surplus' \in Nat
          BY <1>t, <3>2
      <4>2. QED
          BY <1>b, <1>3, <2>1, <2>3, <2>4, <3>2, <4>1 DEF Places, SameCap
    <3>3. QED
        BY <1>3, <3>1, <3>2
  <2>6. gate.gated => h.value + Cardinality(h.granted) + h.active = h.limit + h.toReduce + surplus'
    <3> SUFFICES ASSUME gate.gated
                 PROVE  h.value + Cardinality(h.granted) + h.active = h.limit + h.toReduce + surplus'
        OBVIOUS
    <3>1. /\ gate.value \in Nat /\ Cardinality(gate.granted) \in Nat /\ gate.limit \in Nat
          /\ gate.toReduce \in Nat /\ gate.active \in Nat /\ surplus \in Nat
        BY <1>t
    <3>2. h.value = gate.value /\ h.granted = gate.granted /\ h.limit = gate.limit /\ h.toReduce = gate.toReduce
        BY <1>3 DEF SameCap
    <3>3. gate.value + Cardinality(gate.granted) + gate.active = gate.limit + gate.toReduce + surplus
        BY <1>c
    <3>4. \/ h.active = gate.active /\ surplus' = surplus
          \/ h.active = gate.active + 1 /\ surplus' = surplus + 1
        BY <1>3
    <3>5. gate.value + Cardinality(gate.granted) + h.active = gate.limit + gate.toReduce + surplus'
        BY <3>1, <3>3, <3>4
    <3>6. QED
        BY <3>2, <3>5
  <2>7. QED
      BY <1>c, <1>3, <2>5, <2>6
         DEF Books, NobodyStranded, NoLostWakeup, PermitsConserved, SameCap
<1>4. ASSUME NEW t \in gate.flushed, NEW a \in Nat,
             gate' = [gate EXCEPT !.waiting = @ - 1, !.active = a, !.flushed = @ \ {t}]
      PROVE  /\ gate' \in GateType /\ Sound(gate') /\ SameCap(gate, gate') /\ Waiters(gate') = W \ {t}
             /\ gate'.value = gate.value /\ gate'.queue = gate.queue /\ gate'.granted = gate.granted
             /\ gate'.waiting = gate.waiting - 1 /\ gate'.active = a /\ t \in Tasks
  <2> DEFINE n == gate.waiting - 1
             F == gate.flushed \ {t}
             h == [gate EXCEPT !.waiting = n, !.active = a, !.flushed = F]
  <2>1. gate \in GateType /\ gate.waiting > 0 /\ t \in Tasks /\ gate.flushed \subseteq Tasks
      BY <1>t, <1>g, <1>w DEF Sound, GateType
  <2>2. n \in Nat /\ F \in SUBSET Tasks /\ gate' = h
      BY <1>4, <1>t, <2>1
  <2> HIDE DEF n, F
  <2>3. /\ h \in GateType /\ h.value = gate.value /\ h.queue = gate.queue /\ h.granted = gate.granted
        /\ h.waiting = n /\ h.active = a /\ h.flushed = F /\ SameCap(gate, h)
      BY <1>4, <2>1, <2>2 DEF GateType, SameCap
  <2> HIDE DEF h
  <2>4. Sound(h) /\ Waiters(h) = W \ {t}
      BY <1>t, <1>4, <2>3 DEF Sound, Waiters, W, F
  <2>5. QED
      BY <2>1, <2>2, <2>3, <2>4 DEF n
<1>5. ASSUME NEW t \in Tasks, Resume(t), t \in gate.flushed, gate' = AdmitFlushed(gate, t),
             surplus' = IF gate.gated THEN surplus + 1 ELSE surplus
      PROVE  Books'
  <2>1. /\ gate' = [gate EXCEPT !.waiting = @ - 1, !.active = gate.active + 1, !.flushed = @ \ {t}]
        /\ gate.active + 1 \in Nat /\ inside' = inside \cup {t} /\ UNCHANGED <<doomed, resizes>>
      BY <1>5, <1>t DEF Resume, AdmitFlushed
  <2>2. /\ gate' \in GateType /\ Sound(gate') /\ SameCap(gate, gate') /\ Waiters(gate') = W \ {t}
        /\ gate'.value = gate.value /\ gate'.queue = gate.queue /\ gate'.granted = gate.granted
        /\ gate'.waiting = gate.waiting - 1 /\ gate'.active = gate.active + 1
      BY <1>4, <1>5, <2>1
  <2>3. QED
      BY <1>3, <1>5, <2>1, <2>2
<1>6. ASSUME NEW t \in Tasks, CancelQueued(t) PROVE Books'
  <2> DEFINE h == CancelWaiter(gate, t)
  <2>1. t \in Elems(gate.queue) /\ gate' = h /\ doomed' = doomed \cup {t}
        /\ UNCHANGED <<inside, surplus, resizes>>
      BY <1>6 DEF CancelQueued, Queued
  <2>2. /\ Sound(h) /\ SameCap(gate, h) /\ Waiters(h) = W \ {t} /\ gate.queue # <<>>
        /\ h.active = gate.active /\ h.waiting = gate.waiting /\ h.value = gate.value
        /\ h.granted = gate.granted
      BY <1>t, <2>1, CancelIs DEF W
  <2> HIDE DEF h
  <2>3. (W \ {t}) \cup (doomed \cup {t}) = W \cup doomed /\ t \in W
      BY <1>g, <2>1
  <2>4. Places'
      BY <1>b, <2>1, <2>2, <2>3 DEF Places, SameCap
  <2>5. gate.gated
      BY <1>c, <2>2
  <2>6. QED
      BY <1>c, <2>1, <2>2, <2>4, <2>5
         DEF Books, NobodyStranded, NoLostWakeup, PermitsConserved, SameCap
<1>7. ASSUME NEW t \in Tasks, UnwindCancelled(t) PROVE Books'
  <2> DEFINE n == gate.waiting - 1
             h == [gate EXCEPT !.waiting = n]
  <2>1. /\ t \in doomed /\ gate' = h /\ doomed' = doomed \ {t}
        /\ UNCHANGED <<inside, surplus, resizes>>
      BY <1>7 DEF UnwindCancelled, Unwind
  <2>2. gate \in GateType /\ n \in Nat /\ t \notin W
    <3>1. gate.waiting > 0
        BY <1>w, <2>1
    <3>2. QED
        BY <1>t, <1>b, <2>1, <3>1 DEF Sound
  <2> HIDE DEF n
  <2>3. /\ h \in GateType /\ h.value = gate.value /\ h.queue = gate.queue /\ h.granted = gate.granted
        /\ h.waiting = n /\ h.active = gate.active /\ h.flushed = gate.flushed /\ SameCap(gate, h)
      BY <2>2 DEF GateType, SameCap
  <2> HIDE DEF h
  <2>4. Sound(h) /\ Waiters(h) = W
      BY <1>t, <2>3 DEF Sound, Waiters, W
  <2>5. W \cup (doomed \ {t}) = (W \cup doomed) \ {t}
      BY <2>2
  <2>6. Cardinality(W \cup (doomed \ {t})) = n
      BY <1>w, <2>1, <2>5 DEF n
  <2>7. Places'
      BY <1>b, <2>1, <2>3, <2>4, <2>6 DEF Places, SameCap
  <2>8. QED
      BY <1>c, <2>1, <2>3, <2>7
         DEF Books, NobodyStranded, NoLostWakeup, PermitsConserved, SameCap
<1>8. ASSUME NEW t \in Tasks, CancelGranted(t), t \in gate.granted, gate' = Revoke(gate, t)
      PROVE  Books'
  <2> DEFINE h == Revoke(gate, t)
  <2>1. gate' = h /\ UNCHANGED <<inside, doomed, surplus, resizes>>
      BY <1>8 DEF CancelGranted
  <2>2. t \in W /\ t \notin inside /\ t \notin doomed /\ gate.waiting > 0 /\ t \in Tasks
      BY <1>8, <1>b, <1>g, <1>w
  <2>3. /\ Sound(h) /\ SameCap(gate, h) /\ Waiters(h) = W \ {t}
        /\ h.active = gate.active /\ h.waiting = gate.waiting - 1
        /\ h.value + Cardinality(h.granted) = gate.value + Cardinality(gate.granted)
        /\ h.queue = <<>> \/ h.granted # {}
      BY <1>8, <1>t, <2>2, RevokeIs DEF W
  <2> HIDE DEF h
  <2>4. h.value \in Nat /\ Cardinality(h.granted) \in Nat
      BY <2>3, GateFields
  <2>5. gate.gated
      BY <1>8, <1>c
  <2>6. gate'.value + Cardinality(gate'.granted) + gate'.active
          = gate'.limit + gate'.toReduce + surplus'
      BY <1>t, <1>c, <2>1, <2>3, <2>4, <2>5 DEF SameCap
  <2>7. (W \ {t}) \cup doomed = (W \cup doomed) \ {t}
      BY <2>2
  <2>8. Places'
      BY <1>b, <1>w, <1>i, <2>1, <2>2, <2>3, <2>7 DEF Places, SameCap
  <2>9. QED
      BY <2>1, <2>3, <2>5, <2>6, <2>8
         DEF Books, NobodyStranded, NoLostWakeup, PermitsConserved, SameCap
<1>9. ASSUME NEW t \in Tasks, CancelGranted(t), t \in gate.flushed, gate' = RevokeFlushed(gate, t)
      PROVE  Books'
  <2>1. gate' = [gate EXCEPT !.waiting = @ - 1, !.flushed = @ \ {t}]
        /\ UNCHANGED <<inside, doomed, surplus, resizes>>
      BY <1>9 DEF CancelGranted, RevokeFlushed
  <2>2. gate' = [gate EXCEPT !.waiting = @ - 1, !.active = gate.active, !.flushed = @ \ {t}]
      BY <1>t, <2>1 DEF Sound, GateType
  <2>3. /\ gate' \in GateType /\ Sound(gate') /\ SameCap(gate, gate') /\ Waiters(gate') = W \ {t}
        /\ gate'.value = gate.value /\ gate'.queue = gate.queue /\ gate'.granted = gate.granted
        /\ gate'.waiting = gate.waiting - 1 /\ gate'.active = gate.active
      BY <1>4, <1>9, <1>t, <2>2
  <2>4. QED
      BY <1>3, <1>9, <2>1, <2>3
<1>10. ASSUME NEW t \in Tasks, Leave(t) PROVE Books'
  <2> DEFINE h == Exit(gate)
  <2>1. t \in inside /\ gate' = h /\ inside' = inside \ {t} /\ UNCHANGED <<doomed, surplus, resizes>>
      BY <1>10 DEF Leave
  <2>2. /\ Sound(h) /\ Waiters(h) = W /\ h.limit = gate.limit /\ h.gated = gate.gated
        /\ h.active = gate.active - 1 /\ h.waiting = gate.waiting
        /\ h.value + Cardinality(h.granted) + h.active + gate.toReduce
             = gate.value + Cardinality(gate.granted) + gate.active + h.toReduce \/ ~gate.gated
        /\ \/ h.queue = gate.queue /\ h.value = gate.value /\ h.granted = gate.granted
           \/ gate.gated /\ (h.queue = <<>> \/ h.granted # {})
      BY <1>t, <1>i, <2>1, ExitIs DEF W
  <2> HIDE DEF h
  <2>3. h.value \in Nat /\ Cardinality(h.granted) \in Nat /\ h.toReduce \in Nat /\ h.active \in Nat
      BY <2>2, GateFields
  <2>4. gate.gated => h.value + Cardinality(h.granted) + h.active = h.limit + h.toReduce + surplus
    <3>1. SUFFICES ASSUME gate.gated
                   PROVE  h.value + Cardinality(h.granted) + h.active = h.limit + h.toReduce + surplus
        OBVIOUS
    <3>2. /\ h.value + Cardinality(h.granted) + h.active + gate.toReduce
               = gate.value + Cardinality(gate.granted) + gate.active + h.toReduce
          /\ h.limit = gate.limit
        BY <2>2, <3>1
    <3>3. gate.value + Cardinality(gate.granted) + gate.active = gate.limit + gate.toReduce + surplus
        BY <1>c, <3>1
    <3>4. /\ gate.value \in Nat /\ Cardinality(gate.granted) \in Nat /\ gate.limit \in Nat
          /\ gate.toReduce \in Nat /\ gate.active \in Nat /\ surplus \in Nat
        BY <1>t
    <3>5. h.value + Cardinality(h.granted) + h.active = gate.limit + h.toReduce + surplus
        BY <2>3, <3>2, <3>3, <3>4, LeftBooks
    <3>6. QED
        BY <3>2, <3>5
  <2>5. Places'
      BY <1>b, <1>i, <2>1, <2>2 DEF Places
  <2>6. NobodyStranded' /\ NoLostWakeup'
      BY <1>c, <2>1, <2>2 DEF NobodyStranded, NoLostWakeup
  <2>7. QED
      BY <2>1, <2>2, <2>4, <2>5, <2>6 DEF Books, PermitsConserved
<1>11. ASSUME NEW n \in Limits, Resize(n) PROVE Books'
  <2>1. /\ gate' = SetLimit(gate, n) /\ n # gate.limit /\ n \in Nat
        /\ surplus' = (IF gate.gated /\ gate'.gated THEN surplus ELSE 0)
        /\ resizes' = resizes + 1 /\ UNCHANGED <<inside, doomed>>
      BY <1>11, LimitsAssumption DEF Resize
  <2>2. CASE n = 0
    <3> DEFINE h == TurnOff(gate)
    <3>1. gate' = h
        BY <2>1, <2>2 DEF SetLimit
    <3>2. /\ Sound(h) /\ Waiters(h) = W
          /\ h.limit = 0 /\ h.gated = FALSE /\ h.queue = <<>> /\ h.granted = {}
          /\ h.active = gate.active /\ h.waiting = gate.waiting
        BY <1>t, TurnOffIs DEF W
    <3> HIDE DEF h
    <3>3. Places'
        BY <1>b, <2>1, <3>1, <3>2 DEF Places
    <3>4. QED
        BY <3>1, <3>2, <3>3 DEF Books, NobodyStranded, NoLostWakeup, PermitsConserved
  <2>3. CASE n # 0 /\ gate.limit = 0
    <3> DEFINE h == TurnOn(gate, n)
    <3>1. gate' = h /\ ~gate.gated
        BY <1>b, <2>1, <2>3 DEF SetLimit
    <3>2. /\ Sound(h) /\ Waiters(h) = W
          /\ h.limit = n /\ h.gated = TRUE /\ h.queue = gate.queue /\ h.granted = gate.granted
          /\ h.active = gate.active /\ h.waiting = gate.waiting
          /\ h.value + h.active = n + h.toReduce
        BY <1>t, <2>1, TurnOnIs DEF W
    <3> HIDE DEF h
    <3>3. Cardinality(h.granted) = 0 /\ h.queue = <<>> /\ h.value \in Nat /\ h.toReduce \in Nat
        BY <1>c, <3>1, <3>2, FS_EmptySet, GateFields
    <3>4. Places'
        BY <1>b, <2>1, <2>3, <3>1, <3>2 DEF Places
    <3>5. gate'.value + Cardinality(gate'.granted) + gate'.active
            = gate'.limit + gate'.toReduce + surplus'
        BY <1>t, <2>1, <3>1, <3>2, <3>3
    <3>6. QED
        BY <3>1, <3>2, <3>3, <3>4, <3>5 DEF Books, NobodyStranded, NoLostWakeup, PermitsConserved
  <2>4. CASE n # 0 /\ gate.limit # 0 /\ gate.limit < n
    <3> DEFINE h == Raise(gate, n)
    <3>1. gate' = h /\ gate.gated
        BY <1>b, <1>t, <2>1, <2>4 DEF SetLimit
    <3>2. /\ Sound(h) /\ Waiters(h) = W
          /\ h.limit = n /\ h.gated = gate.gated /\ h.active = gate.active
          /\ h.waiting = gate.waiting
          /\ h.value + Cardinality(h.granted) + gate.limit + gate.toReduce
               = gate.value + Cardinality(gate.granted) + n + h.toReduce
          /\ \/ h.queue = <<>> \/ h.granted # {}
             \/ h.queue = gate.queue /\ h.value = gate.value /\ h.granted = gate.granted
        BY <1>t, <2>1, <2>4, RaiseIs DEF W
    <3> HIDE DEF h
    <3>3. h.value \in Nat /\ Cardinality(h.granted) \in Nat /\ h.toReduce \in Nat
        BY <3>2, GateFields
    <3>4. gate'.value + Cardinality(gate'.granted) + gate'.active
            = gate'.limit + gate'.toReduce + surplus'
      <4>1. gate.value + Cardinality(gate.granted) + gate.active = gate.limit + gate.toReduce + surplus
          BY <1>c, <3>1
      <4>2. h.value + Cardinality(h.granted) + gate.active = n + h.toReduce + surplus
        <5>1. /\ gate.value \in Nat /\ Cardinality(gate.granted) \in Nat /\ gate.limit \in Nat
              /\ gate.toReduce \in Nat /\ gate.active \in Nat /\ surplus \in Nat /\ n \in Nat
            BY <1>t, <2>1
        <5>2. h.value + Cardinality(h.granted) + gate.limit + gate.toReduce
                = gate.value + Cardinality(gate.granted) + n + h.toReduce
            BY <3>2
        <5>3. PICK x \in Nat : x = gate.value + Cardinality(gate.granted)
            BY <5>1
        <5>4. PICK y \in Nat : y = h.value + Cardinality(h.granted)
            BY <3>3
        <5>5. y + gate.limit + gate.toReduce = x + n + h.toReduce
            BY <3>3, <5>1, <5>2, <5>3, <5>4
        <5>6. x + gate.active = gate.limit + gate.toReduce + surplus
            BY <4>1, <5>1, <5>3
        <5>7. y + gate.active = n + h.toReduce + surplus
            BY <3>3, <5>1, <5>5, <5>6
        <5>8. QED
            BY <3>3, <5>1, <5>4, <5>7
      <4>3. gate' = h /\ surplus' = surplus /\ h.limit = n /\ h.active = gate.active
          BY <2>1, <3>1, <3>2
      <4>4. QED
          BY <4>2, <4>3
    <3>5. Places'
        BY <1>b, <2>1, <2>4, <3>1, <3>2 DEF Places
    <3>6. QED
        BY <1>c, <3>1, <3>2, <3>4, <3>5 DEF Books, NobodyStranded, NoLostWakeup, PermitsConserved
  <2>5. CASE n # 0 /\ gate.limit # 0 /\ n < gate.limit
    <3> DEFINE h == Lower(gate, n)
    <3>1. gate' = h /\ gate.gated
        BY <1>b, <1>t, <2>1, <2>5 DEF SetLimit
    <3>2. /\ Sound(h) /\ Waiters(h) = W
          /\ h.limit = n /\ h.gated = gate.gated /\ h.queue = gate.queue /\ h.granted = gate.granted
          /\ h.active = gate.active /\ h.waiting = gate.waiting /\ h.value = gate.value
          /\ n + h.toReduce = gate.limit + gate.toReduce
        BY <1>t, <2>1, <2>5, LowerIs DEF W
    <3> HIDE DEF h
    <3>3. h.toReduce \in Nat
        BY <3>2, GateFields
    <3>4. gate'.value + Cardinality(gate'.granted) + gate'.active
            = gate'.limit + gate'.toReduce + surplus'
        BY <1>t, <1>c, <2>1, <3>1, <3>2, <3>3
    <3>5. Places'
        BY <1>b, <2>1, <2>5, <3>1, <3>2 DEF Places
    <3>6. QED
        BY <1>c, <3>1, <3>2, <3>4, <3>5 DEF Books, NobodyStranded, NoLostWakeup, PermitsConserved
  <2>6. QED
      BY <1>t, <2>1, <2>2, <2>3, <2>4, <2>5
<1>12. CASE UNCHANGED vars
    BY <1>12, <1>b, <1>c DEF vars, Books, Places, NobodyStranded, NoLostWakeup, PermitsConserved, W
<1>13. QED
  <2>1. ASSUME NEW t \in Tasks, Resume(t) PROVE Books'
      BY <1>2, <1>5, <2>1 DEF Resume
  <2>2. ASSUME NEW t \in Tasks, CancelGranted(t) PROVE Books'
      BY <1>8, <1>9, <2>2 DEF CancelGranted
  <2>3. QED
      BY <1>1, <1>6, <1>7, <1>10, <1>11, <1>12, <2>1, <2>2 DEF Next

LEMMA BooksHold == Spec => []Books
BY BooksInit, BooksStep, PTL DEF Spec

\* For any coroutines, caps and reloads (ResizableSemaphore.set_limit, __aenter__, __aexit__),
\* the counters of the snapshot are exact, nobody is queued on a discarded semaphore and no
\* wake-up is lost.
THEOREM GateIsConsistent == Spec => []GateConsistent
<1>1. Books => GateConsistent
  <2> SUFFICES ASSUME Books PROVE GateConsistent
      OBVIOUS
  <2>1. TypeOK
      BY DEF Books, Places, Sound, TypeOK
  <2>2. Cardinality(Waiters(gate) \cup doomed) = Cardinality(Waiters(gate)) + Cardinality(doomed)
    <3>1. Waiters(gate) \subseteq Tasks
        BY BooksFacts
    <3>2. QED
        BY <3>1, CountedTogether DEF Books, Places
  <2>3. Cardinality(Waiters(gate))
          = Len(gate.queue) + Cardinality(gate.granted) + Cardinality(gate.flushed)
      BY GateFields DEF Books, Places
  <2>4. CountersExact
      BY <2>2, <2>3 DEF Books, Places, CountersExact
  <2>5. QED
      BY <2>1, <2>4 DEF Books, GateConsistent
<1>2. QED
    BY <1>1, BooksHold, PTL

\* Permits are conserved through any resizes, for any caps: those free, handed out and in use
\* are the cap, what exits have to withhold, and those let in past the gate (resizable_semaphore.py).
THEOREM PermitsAreConserved == Spec => []PermitsConserved
<1>1. Books => PermitsConserved
    BY DEF Books
<1>2. QED
    BY <1>1, BooksHold, PTL

---------------------------------------------------------------------------
(* Two gates over the same coroutines: the lane and the ceiling of         *)
(* TurnSlots, whose turns and sub-agents are among Tasks.                  *)

---------------------------------------------------------------------------
(* A gate nobody resizes                                                   *)

\* A gate of cap l that nobody resizes: it counts those who wait, and its permits are
\* free, on their way or in use.
Capped(g, l) ==
    /\ Sound(g) /\ g.flushed = {} /\ g.gated = TRUE /\ g.limit = l /\ g.toReduce = 0
    /\ g.waiting = Cardinality(Waiters(g))
    /\ g.value + Cardinality(g.granted) + g.active = l

LEMMA WaitersCounted ==
    ASSUME NEW g, NEW l, Capped(g, l)
    PROVE  /\ Waiters(g) \in SUBSET Tasks /\ Waiters(g) = Elems(g.queue) \cup g.granted
           /\ g.active \in Nat /\ g.waiting \in Nat /\ g.value \in Nat
           /\ Cardinality(g.granted) \in Nat
           /\ \A t \in Waiters(g) : g.waiting > 0 /\ Cardinality(Waiters(g) \ {t}) = g.waiting - 1
           /\ \A t \in Tasks \ Waiters(g) : Cardinality(Waiters(g) \cup {t}) = g.waiting + 1
<1>1. Sound(g) /\ g.flushed = {} /\ g.waiting = Cardinality(Waiters(g))
    BY DEF Capped
<1>2. /\ Waiters(g) \in SUBSET Tasks /\ g.active \in Nat /\ g.waiting \in Nat /\ g.value \in Nat
      /\ Cardinality(g.granted) \in Nat
    BY <1>1, GateFields
<1>3. Waiters(g) = Elems(g.queue) \cup g.granted
    BY <1>1 DEF Waiters
<1>4. /\ \A t \in Waiters(g) : g.waiting > 0 /\ Cardinality(Waiters(g) \ {t}) = g.waiting - 1
      /\ \A t \in Tasks \ Waiters(g) : Cardinality(Waiters(g) \cup {t}) = g.waiting + 1
    BY <1>1, <1>2, Counted
<1>5. QED
    BY <1>2, <1>3, <1>4

\* Entering takes a permit at once, or joins the queue.
LEMMA CappedEnter ==
    ASSUME NEW g, NEW l \in Nat, Capped(g, l), NEW t \in Tasks, t \notin Waiters(g)
    PROVE  LET h == Enter(g, t) IN
           /\ Capped(h, l)
           /\ EntersAtOnce(g) => h.active = g.active + 1 /\ Waiters(h) = Waiters(g)
           /\ ~EntersAtOnce(g) => h.active = g.active /\ Waiters(h) = Waiters(g) \cup {t}
<1> DEFINE h == Enter(g, t)
<1>2. /\ Sound(g) /\ g.flushed = {} /\ g.gated = TRUE /\ g.limit = l /\ g.toReduce = 0
      /\ g.waiting = Cardinality(Waiters(g))
      /\ g.value + Cardinality(g.granted) + g.active = l
    BY DEF Capped
<1>3. /\ g.active \in Nat /\ g.waiting \in Nat /\ g.value \in Nat /\ Cardinality(g.granted) \in Nat
      /\ Cardinality(Waiters(g) \cup {t}) = g.waiting + 1
    BY WaitersCounted
<1>4. /\ Sound(h) /\ SameCap(g, h) /\ h.granted = g.granted
      /\ EntersAtOnce(g) =>
           /\ h.active = g.active + 1 /\ h.waiting = g.waiting
           /\ h.queue = g.queue /\ Waiters(h) = Waiters(g)
           /\ g.gated => h.value = g.value - 1 /\ g.queue = <<>>
      /\ ~EntersAtOnce(g) =>
           /\ g.gated /\ h.active = g.active /\ h.waiting = g.waiting + 1 /\ h.value = g.value
           /\ Waiters(h) = Waiters(g) \cup {t}
           /\ g.value = 0 \/ g.queue # <<>> \/ g.granted # {}
    BY <1>2, EnterIs
<1>5. h.flushed = {}
  <2>1. g \in GateType
      BY <1>2 DEF Sound
  <2>2. QED
      BY <1>2, <2>1 DEF Enter, GateType
<1> HIDE DEF h
<1>6. CASE EntersAtOnce(g)
  <2>1. h.value + Cardinality(h.granted) + h.active = l
      BY <1>2, <1>3, <1>4, <1>6
  <2>2. QED
      BY <1>2, <1>4, <1>5, <1>6, <2>1 DEF Capped, SameCap, h
<1>7. CASE ~EntersAtOnce(g)
  <2>1. h.value + Cardinality(h.granted) + h.active = l
      BY <1>2, <1>3, <1>4, <1>7
  <2>2. QED
      BY <1>2, <1>3, <1>4, <1>5, <1>7, <2>1 DEF Capped, SameCap, h
<1>8. QED
    BY <1>6, <1>7

\* Only a cap turned off flushes waiters.
LEMMA FlushedStays ==
    ASSUME NEW g \in GateType, NEW t
    PROVE  /\ Admit(g, t).flushed = g.flushed /\ Revoke(g, t).flushed = g.flushed
           /\ Unwind(CancelWaiter(g, t)).flushed = g.flushed /\ Exit(g).flushed = g.flushed
<1>1. ASSUME NEW h, DOMAIN h = DOMAIN g, NEW n PROVE WakeUp(h, n).flushed = h.flushed
    BY <1>1 DEF WakeUp, GateType
<1>2. ASSUME NEW h, DOMAIN h = DOMAIN g, NEW n PROVE ReleasePermits(h, n).flushed = h.flushed
  <2> DEFINE k == [h EXCEPT !.value = @ + n]
  <2>1. DOMAIN k = DOMAIN g /\ k.flushed = h.flushed /\ ReleasePermits(h, n) = WakeUp(k, n)
      BY <1>2 DEF GateType, ReleasePermits
  <2> HIDE DEF k
  <2>2. QED
      BY <2>1, <1>1
<1>3. Admit(g, t).flushed = g.flushed
  <2> DEFINE k == [g EXCEPT !.waiting = @ - 1, !.active = @ + 1, !.granted = @ \ {t}]
  <2>1. DOMAIN k = DOMAIN g /\ k.flushed = g.flushed
        /\ Admit(g, t) = IF k.value > 0 THEN WakeUp(k, 1) ELSE k
      BY DEF GateType, Admit
  <2> HIDE DEF k
  <2>2. QED
      BY <2>1, <1>1
<1>4. Revoke(g, t).flushed = g.flushed
  <2> DEFINE k == [g EXCEPT !.waiting = @ - 1, !.granted = @ \ {t}]
  <2>1. DOMAIN k = DOMAIN g /\ k.flushed = g.flushed /\ Revoke(g, t) = ReleasePermits(k, 1)
      BY DEF GateType, Revoke
  <2> HIDE DEF k
  <2>2. QED
      BY <2>1, <1>2
<1>5. Unwind(CancelWaiter(g, t)).flushed = g.flushed
  <2> DEFINE r == RemoveFirst(g.queue, t)
             k == [g EXCEPT !.queue = r]
  <2>1. CancelWaiter(g, t) = k
      BY DEF CancelWaiter
  <2> HIDE DEF r
  <2>2. k.flushed = g.flushed /\ [k EXCEPT !.waiting = @ - 1].flushed = k.flushed
      BY DEF GateType
  <2> HIDE DEF k
  <2>3. QED
      BY <2>1, <2>2 DEF Unwind
<1>6. Exit(g).flushed = g.flushed
  <2> DEFINE k == [g EXCEPT !.active = @ - 1]
  <2>1. DOMAIN k = DOMAIN g /\ k.flushed = g.flushed
        /\ [k EXCEPT !.toReduce = @ - 1].flushed = k.flushed
        /\ Exit(g) = IF ~g.gated THEN k
                     ELSE IF g.toReduce > 0 THEN [k EXCEPT !.toReduce = @ - 1]
                     ELSE ReleasePermits(k, 1)
      BY DEF GateType, Exit
  <2> HIDE DEF k
  <2>2. QED
      BY <2>1, <1>2
<1>7. QED
    BY <1>3, <1>4, <1>5, <1>6

\* What a step of one user makes of a capped gate, and the place it leaves.
LEMMA CappedAdmit ==
    ASSUME NEW g, NEW l \in Nat, Capped(g, l), NEW t \in g.granted
    PROVE  LET h == Admit(g, t) IN
           Capped(h, l) /\ h.active = g.active + 1 /\ Waiters(h) = Waiters(g) \ {t}
<1> DEFINE h == Admit(g, t)
<1>2. /\ Sound(g) /\ g.flushed = {} /\ g.gated = TRUE /\ g.limit = l /\ g.toReduce = 0
      /\ g.value + Cardinality(g.granted) + g.active = l
    BY DEF Capped
<1>3. /\ g.active \in Nat /\ g.waiting \in Nat /\ g.value \in Nat /\ Cardinality(g.granted) \in Nat
      /\ t \in Waiters(g) /\ t \in Tasks
      /\ g.waiting > 0 /\ Cardinality(Waiters(g) \ {t}) = g.waiting - 1
    BY WaitersCounted
<1>4. /\ Sound(h) /\ SameCap(g, h) /\ Waiters(h) = Waiters(g) \ {t}
      /\ h.active = g.active + 1 /\ h.waiting = g.waiting - 1
      /\ h.value + Cardinality(h.granted) + 1 = g.value + Cardinality(g.granted)
    BY <1>2, <1>3, AdmitIs
<1>5. h.flushed = {}
    BY <1>2, <1>3, FlushedStays DEF Sound
<1> HIDE DEF h
<1>6. h.value \in Nat /\ Cardinality(h.granted) \in Nat
    BY <1>4, GateFields
<1>7. h.value + Cardinality(h.granted) + h.active = l
    BY <1>2, <1>3, <1>4, <1>6
<1>8. QED
    BY <1>2, <1>3, <1>4, <1>5, <1>7 DEF Capped, SameCap, h

LEMMA CappedRevoke ==
    ASSUME NEW g, NEW l \in Nat, Capped(g, l), NEW t \in g.granted
    PROVE  LET h == Revoke(g, t) IN
           Capped(h, l) /\ h.active = g.active /\ Waiters(h) = Waiters(g) \ {t}
<1> DEFINE h == Revoke(g, t)
<1>2. /\ Sound(g) /\ g.flushed = {} /\ g.gated = TRUE /\ g.limit = l /\ g.toReduce = 0
      /\ g.value + Cardinality(g.granted) + g.active = l
    BY DEF Capped
<1>3. /\ g.active \in Nat /\ g.waiting \in Nat /\ g.value \in Nat /\ Cardinality(g.granted) \in Nat
      /\ t \in Waiters(g) /\ t \in Tasks
      /\ g.waiting > 0 /\ Cardinality(Waiters(g) \ {t}) = g.waiting - 1
    BY WaitersCounted
<1>4. /\ Sound(h) /\ SameCap(g, h) /\ Waiters(h) = Waiters(g) \ {t}
      /\ h.active = g.active /\ h.waiting = g.waiting - 1
      /\ h.value + Cardinality(h.granted) = g.value + Cardinality(g.granted)
    BY <1>2, <1>3, RevokeIs
<1>5. h.flushed = {}
    BY <1>2, <1>3, FlushedStays DEF Sound
<1> HIDE DEF h
<1>6. QED
    BY <1>2, <1>3, <1>4, <1>5 DEF Capped, SameCap, h

LEMMA CappedCancel ==
    ASSUME NEW g, NEW l \in Nat, Capped(g, l), NEW t \in Elems(g.queue)
    PROVE  LET h == Unwind(CancelWaiter(g, t)) IN
           Capped(h, l) /\ h.active = g.active /\ Waiters(h) = Waiters(g) \ {t}
<1> DEFINE k == CancelWaiter(g, t)
           n == k.waiting - 1
           h == Unwind(k)
<1>2. /\ Sound(g) /\ g.flushed = {} /\ g.gated = TRUE /\ g.limit = l /\ g.toReduce = 0
      /\ g.value + Cardinality(g.granted) + g.active = l
    BY DEF Capped
<1>3. /\ g.active \in Nat /\ g.waiting \in Nat /\ g.value \in Nat /\ Cardinality(g.granted) \in Nat
      /\ t \in Waiters(g) /\ t \in Tasks
      /\ g.waiting > 0 /\ Cardinality(Waiters(g) \ {t}) = g.waiting - 1
    BY WaitersCounted
<1>4. /\ Sound(k) /\ SameCap(g, k) /\ Waiters(k) = Waiters(g) \ {t}
      /\ k.active = g.active /\ k.waiting = g.waiting /\ k.value = g.value /\ k.granted = g.granted
    BY <1>2, CancelIs
<1>5. h.flushed = {}
    BY <1>2, <1>3, FlushedStays DEF Sound
<1>6. h = [k EXCEPT !.waiting = n] /\ n \in Nat /\ k \in GateType
    BY <1>3, <1>4 DEF Unwind, Sound
<1> HIDE DEF h, k, n
<1>7. /\ h \in GateType /\ h.limit = k.limit /\ h.gated = k.gated /\ h.active = k.active
      /\ h.waiting = n /\ h.toReduce = k.toReduce /\ h.value = k.value
      /\ h.queue = k.queue /\ h.granted = k.granted /\ h.flushed = k.flushed
    BY <1>6 DEF GateType
<1>8. Sound(h) /\ Waiters(h) = Waiters(g) \ {t}
    BY <1>4, <1>7 DEF Sound, Waiters
<1>9. n = Cardinality(Waiters(h))
    BY <1>3, <1>4, <1>8 DEF n
<1>10. QED
    BY <1>2, <1>4, <1>5, <1>7, <1>8, <1>9 DEF Capped, SameCap, h, k

LEMMA CappedExit ==
    ASSUME NEW g, NEW l \in Nat, Capped(g, l), g.active > 0
    PROVE  LET h == Exit(g) IN
           Capped(h, l) /\ h.active = g.active - 1 /\ Waiters(h) = Waiters(g)
<1> DEFINE h == Exit(g)
<1>2. /\ Sound(g) /\ g.flushed = {} /\ g.gated = TRUE /\ g.limit = l /\ g.toReduce = 0
      /\ g.waiting = Cardinality(Waiters(g))
      /\ g.value + Cardinality(g.granted) + g.active = l
    BY DEF Capped
<1>3. g.active \in Nat /\ g.value \in Nat /\ Cardinality(g.granted) \in Nat
    BY WaitersCounted
<1>4. /\ Sound(h) /\ Waiters(h) = Waiters(g)
      /\ h.limit = g.limit /\ h.gated = g.gated
      /\ h.active = g.active - 1 /\ h.waiting = g.waiting
      /\ h.value + Cardinality(h.granted) + h.active + g.toReduce
           = g.value + Cardinality(g.granted) + g.active + h.toReduce \/ ~g.gated
    BY <1>2, ExitIs
<1>5. h.flushed = {} /\ h.toReduce = 0
  <2>1. g \in GateType
      BY <1>2 DEF Sound
  <2>2. h.flushed = {}
      BY <1>2, <2>1, FlushedStays
  <2>3. h.toReduce = 0
    <3> DEFINE out == [g EXCEPT !.active = @ - 1]
               w == [out EXCEPT !.value = @ + 1]
    <3>1. DOMAIN w = DOMAIN g /\ w.toReduce = 0 /\ h = WakeUp(w, 1)
        BY <1>2, <2>1 DEF Exit, ReleasePermits, GateType
    <3> HIDE DEF w, h
    <3>2. WakeUp(w, 1).toReduce = w.toReduce
        BY <2>1, <3>1 DEF WakeUp, GateType
    <3>3. QED
        BY <3>1, <3>2
  <2>4. QED
      BY <2>2, <2>3
<1> HIDE DEF h
<1>6. h.value \in Nat /\ Cardinality(h.granted) \in Nat
    BY <1>4, GateFields
<1>7. h.value + Cardinality(h.granted) + h.active = l
    BY <1>2, <1>3, <1>4, <1>5, <1>6
<1>8. QED
    BY <1>2, <1>4, <1>5, <1>7 DEF Capped, h

---------------------------------------------------------------------------
(* TurnSlots: acquire, release and a cancelled wait                        *)

Cap(g) == IF g = "lane" THEN LaneLimit ELSE CeilingLimit
Names  == {"lane", "ceiling"}

TwoGates(gs) == DOMAIN gs = Names /\ gs = [g \in Names |-> gs[g]] /\ \A g \in Names : Capped(gs[g], Cap(g))

\* From gs to rs only t moves: it held h and holds k, and the others wait where they did.
OnlyMoves(t, gs, h, rs, k) ==
    \A g \in Names :
        /\ Waiters(rs[g]) \ {t} = Waiters(gs[g]) \ {t}
        /\ rs[g].active + (IF g \in h THEN 1 ELSE 0) = gs[g].active + (IF g \in k THEN 1 ELSE 0)

LEMMA TwoGatesIs ==
    ASSUME NEW gs, TwoGates(gs), NEW g \in Names
    PROVE  /\ Cap(g) \in Nat /\ Capped(gs[g], Cap(g)) /\ gs[g].active \in Nat
           /\ Waiters(gs[g]) \in SUBSET Tasks
           /\ Waiters(gs[g]) = Elems(gs[g].queue) \cup gs[g].granted
<1>1. Cap(g) \in Nat /\ Capped(gs[g], Cap(g))
    BY CapsAssumption DEF Cap, TwoGates
<1>2. QED
    BY <1>1, WaitersCounted

\* One gate is replaced.
LEMMA OneReplaced ==
    ASSUME NEW gs, TwoGates(gs), NEW g \in Names, NEW n, Capped(n, Cap(g))
    PROVE  LET rs == [gs EXCEPT ![g] = n] IN
           TwoGates(rs) /\ rs[g] = n /\ \A o \in Names \ {g} : rs[o] = gs[o]
BY DEF TwoGates

\* The turn t that held h has its ceiling slot, or queues for it: r is what it reaches.
CeilingTaken(gs, h, t, r) ==
    /\ TwoGates(r.gates) /\ OnlyMoves(t, gs, h, r.gates, r.held)
    /\ r.gates["lane"] = gs["lane"] /\ r.done \in BOOLEAN
    /\ r.done => r.held = h \cup {"ceiling"} /\ Waiters(r.gates["ceiling"]) = Waiters(gs["ceiling"])
    /\ ~r.done => /\ r.held = h /\ "ceiling" \notin h
                  /\ Waiters(r.gates["ceiling"]) = Waiters(gs["ceiling"]) \cup {t}

LEMMA TakeCeilingIs ==
    ASSUME NEW gs, TwoGates(gs), NEW t \in Tasks, NEW h \in SUBSET Names,
           t \notin Waiters(gs["ceiling"])
    PROVE  CeilingTaken(gs, h, t, TakeCeiling(gs, h, t))
<1> DEFINE r == TakeCeiling(gs, h, t)
           e == Enter(gs["ceiling"], t)
           rs == [gs EXCEPT !["ceiling"] = e]
<1>0. "ceiling" \in Names /\ "lane" \in Names /\ gs["lane"].active \in Nat /\ gs["ceiling"].active \in Nat
      /\ Cap("ceiling") \in Nat /\ Capped(gs["ceiling"], Cap("ceiling"))
    BY TwoGatesIs DEF Names
<1>1. CASE "ceiling" \in h
  <2>1. r.gates = gs /\ r.held = h /\ r.done = TRUE
      BY <1>1 DEF TakeCeiling
  <2> HIDE DEF r
  <2>2. h = h \cup {"ceiling"}
      BY <1>1
  <2>3. OnlyMoves(t, gs, h, gs, h)
      BY DEF OnlyMoves
  <2>4. QED
      BY <2>1, <2>2, <2>3 DEF r, CeilingTaken
<1>2. CASE "ceiling" \notin h
  <2>1. r = [gates |-> rs, done |-> EntersAtOnce(gs["ceiling"]),
             held |-> IF EntersAtOnce(gs["ceiling"]) THEN h \cup {"ceiling"} ELSE h]
      BY <1>2 DEF TakeCeiling
  <2>2. /\ Capped(e, Cap("ceiling"))
        /\ EntersAtOnce(gs["ceiling"]) =>
              e.active = gs["ceiling"].active + 1 /\ Waiters(e) = Waiters(gs["ceiling"])
        /\ ~EntersAtOnce(gs["ceiling"]) =>
              e.active = gs["ceiling"].active /\ Waiters(e) = Waiters(gs["ceiling"]) \cup {t}
      BY <1>0, <1>2, CappedEnter
  <2> HIDE DEF e
  <2>3. TwoGates(rs) /\ rs["ceiling"] = e /\ rs["lane"] = gs["lane"]
      BY <1>0, <2>2, OneReplaced
  <2> HIDE DEF rs
  <2>4. r.gates = rs /\ r.done = EntersAtOnce(gs["ceiling"]) /\ r.done \in BOOLEAN
        /\ r.held = IF EntersAtOnce(gs["ceiling"]) THEN h \cup {"ceiling"} ELSE h
      BY <2>1 DEF EntersAtOnce, Unlocked
  <2> HIDE DEF r
  <2>5. CASE EntersAtOnce(gs["ceiling"])
    <3>1. OnlyMoves(t, gs, h, rs, h \cup {"ceiling"})
        BY <1>0, <1>2, <2>2, <2>3, <2>5 DEF OnlyMoves, Names
    <3>2. QED
        BY <2>2, <2>3, <2>4, <2>5, <3>1 DEF r, CeilingTaken
  <2>6. CASE ~EntersAtOnce(gs["ceiling"])
    <3>1. OnlyMoves(t, gs, h, rs, h)
        BY <1>0, <1>2, <2>2, <2>3, <2>6 DEF OnlyMoves, Names
    <3>2. QED
        BY <1>2, <2>2, <2>3, <2>4, <2>6, <3>1 DEF r, CeilingTaken
  <2>7. QED
      BY <2>5, <2>6
<1>3. QED
    BY <1>1, <1>2 DEF CeilingTaken

\* A turn that holds nothing takes both slots, or waits for one of them with those
\* before it in hand.
LEMMA TakeSlotsIs ==
    ASSUME NEW gs, TwoGates(gs), NEW t \in Tasks,
           \A g \in Names : t \notin Waiters(gs[g])
    PROVE  LET r == TakeSlots(gs, {}, t) IN
           /\ TwoGates(r.gates) /\ OnlyMoves(t, gs, {}, r.gates, r.held) /\ r.done \in BOOLEAN
           /\ \/ /\ r.done /\ r.held = Names /\ \A g \in Names : t \notin Waiters(r.gates[g])
              \/ /\ ~r.done /\ r.held = {} /\ t \in Waiters(r.gates["lane"])
                 /\ t \notin Waiters(r.gates["ceiling"])
              \/ /\ ~r.done /\ r.held = {"lane"} /\ t \in Waiters(r.gates["ceiling"])
                 /\ t \notin Waiters(r.gates["lane"])
<1> DEFINE r == TakeSlots(gs, {}, t)
           e == Enter(gs["lane"], t)
           rs == [gs EXCEPT !["lane"] = e]
           q == TakeCeiling(rs, {"lane"}, t)
<1>0. "ceiling" \in Names /\ "lane" \in Names /\ gs["lane"].active \in Nat /\ gs["ceiling"].active \in Nat
      /\ Cap("lane") \in Nat /\ Capped(gs["lane"], Cap("lane"))
    BY TwoGatesIs DEF Names
<1>1. /\ Capped(e, Cap("lane"))
      /\ EntersAtOnce(gs["lane"]) =>
            e.active = gs["lane"].active + 1 /\ Waiters(e) = Waiters(gs["lane"])
      /\ ~EntersAtOnce(gs["lane"]) =>
            e.active = gs["lane"].active /\ Waiters(e) = Waiters(gs["lane"]) \cup {t}
    BY <1>0, CappedEnter
<1>2. r = IF EntersAtOnce(gs["lane"]) THEN q ELSE [gates |-> rs, held |-> {}, done |-> FALSE]
  <2>1. {} \cup {"lane"} = {"lane"}
      OBVIOUS
  <2>2. QED
      BY <2>1 DEF TakeSlots
<1> HIDE DEF e
<1>3. TwoGates(rs) /\ rs["lane"] = e /\ rs["ceiling"] = gs["ceiling"]
    BY <1>0, <1>1, OneReplaced
<1> HIDE DEF rs
<1>4. /\ TwoGates(q.gates) /\ OnlyMoves(t, rs, {"lane"}, q.gates, q.held)
      /\ q.gates["lane"] = rs["lane"] /\ q.done \in BOOLEAN
      /\ q.done => q.held = {"lane"} \cup {"ceiling"} /\ Waiters(q.gates["ceiling"]) = Waiters(rs["ceiling"])
      /\ ~q.done => /\ q.held = {"lane"}
                    /\ Waiters(q.gates["ceiling"]) = Waiters(rs["ceiling"]) \cup {t}
  <2>1. {"lane"} \in SUBSET Names /\ t \notin Waiters(rs["ceiling"])
      BY <1>0, <1>3
  <2>2. CeilingTaken(rs, {"lane"}, t, q)
      BY <1>3, <2>1, TakeCeilingIs
  <2> HIDE DEF q
  <2>3. QED
      BY <2>2 DEF CeilingTaken
<1> HIDE DEF q, r
<1>5. CASE EntersAtOnce(gs["lane"])
  <2>1. r = q
      BY <1>2, <1>5
  <2>2. OnlyMoves(t, gs, {}, q.gates, q.held)
    <3>1. q.gates["lane"].active \in Nat /\ q.gates["ceiling"].active \in Nat
        BY <1>0, <1>4, TwoGatesIs
    <3>2. "lane" \in q.held
        BY <1>4
    <3>3. /\ Waiters(q.gates["lane"]) \ {t} = Waiters(gs["lane"]) \ {t}
          /\ q.gates["lane"].active = gs["lane"].active + 1
        BY <1>1, <1>3, <1>4, <1>5
    <3>4. /\ Waiters(q.gates["ceiling"]) \ {t} = Waiters(gs["ceiling"]) \ {t}
          /\ q.gates["ceiling"].active + 0
               = gs["ceiling"].active + (IF "ceiling" \in q.held THEN 1 ELSE 0)
        BY <1>0, <1>3, <1>4 DEF OnlyMoves
    <3>5. QED
        BY <1>0, <3>1, <3>2, <3>3, <3>4 DEF OnlyMoves, Names
  <2>3. t \notin Waiters(q.gates["lane"])
      BY <1>0, <1>1, <1>3, <1>4, <1>5
  <2>4. CASE q.done
      BY <1>0, <1>3, <1>4, <2>1, <2>2, <2>3, <2>4 DEF Names, r
  <2>5. CASE ~q.done
      BY <1>0, <1>3, <1>4, <2>1, <2>2, <2>3, <2>5 DEF r
  <2>6. QED
      BY <2>4, <2>5
<1>6. CASE ~EntersAtOnce(gs["lane"])
  <2>1. r.gates = rs /\ r.held = {} /\ r.done = FALSE
      BY <1>2, <1>6
  <2>2. OnlyMoves(t, gs, {}, rs, {})
      BY <1>0, <1>1, <1>3, <1>6 DEF OnlyMoves, Names
  <2>3. QED
      BY <1>0, <1>1, <1>3, <1>6, <2>1, <2>2 DEF r
<1>7. QED
    BY <1>5, <1>6

\* release() gives back what is held and leaves the queues alone.
LEMMA GiveBackIs ==
    ASSUME NEW gs, TwoGates(gs), NEW t, NEW h \in SUBSET Names,
           \A g \in h : gs[g].active > 0
    PROVE  LET rs == GiveBack(gs, h) IN
           /\ TwoGates(rs) /\ OnlyMoves(t, gs, h, rs, {})
           /\ \A g \in Names : Waiters(rs[g]) = Waiters(gs[g])
<1> DEFINE rs == GiveBack(gs, h)
<1>1. rs = [g \in Names |-> IF g \in h THEN Exit(gs[g]) ELSE gs[g]]
    BY DEF GiveBack, Names
<1> HIDE DEF rs
<1>2. ASSUME NEW g \in Names
      PROVE  /\ Capped(rs[g], Cap(g)) /\ Waiters(rs[g]) = Waiters(gs[g])
             /\ rs[g].active + (IF g \in h THEN 1 ELSE 0) = gs[g].active + 0
  <2>1. Cap(g) \in Nat /\ Capped(gs[g], Cap(g)) /\ gs[g].active \in Nat
      BY TwoGatesIs
  <2>2. CASE g \in h
    <3>1. rs[g] = Exit(gs[g])
        BY <1>1, <2>2
    <3>2. Capped(rs[g], Cap(g)) /\ rs[g].active = gs[g].active - 1 /\ Waiters(rs[g]) = Waiters(gs[g])
        BY <2>1, <2>2, <3>1, CappedExit
    <3>3. QED
        BY <2>1, <2>2, <3>2
  <2>3. CASE g \notin h
      BY <1>1, <2>1, <2>3
  <2>4. QED
      BY <2>2, <2>3
<1>3. QED
    BY <1>1, <1>2 DEF TwoGates, OnlyMoves, rs

\* A cancelled wait leaves the queues, wherever it was, and no slot goes with it.
LEMMA WithdrawIs ==
    ASSUME NEW gs, TwoGates(gs), NEW t
    PROVE  LET rs == Withdraw(gs, t) IN
           /\ TwoGates(rs)
           /\ \A g \in Names : Waiters(rs[g]) = Waiters(gs[g]) \ {t} /\ rs[g].active = gs[g].active
<1> DEFINE rs == Withdraw(gs, t)
<1>1. rs = [g \in Names |->
              IF t \in gs[g].granted THEN Revoke(gs[g], t)
              ELSE IF t \in Elems(gs[g].queue) THEN Unwind(CancelWaiter(gs[g], t))
              ELSE gs[g]]
    BY DEF Withdraw, GateNames, Names
<1> HIDE DEF rs
<1>2. ASSUME NEW g \in Names
      PROVE  /\ Capped(rs[g], Cap(g)) /\ Waiters(rs[g]) = Waiters(gs[g]) \ {t}
             /\ rs[g].active = gs[g].active
  <2>1. /\ Cap(g) \in Nat /\ Capped(gs[g], Cap(g))
        /\ Waiters(gs[g]) = Elems(gs[g].queue) \cup gs[g].granted
      BY TwoGatesIs
  <2>2. CASE t \in gs[g].granted
    <3>1. rs[g] = Revoke(gs[g], t)
        BY <1>1, <2>2
    <3>2. QED
        BY <2>1, <2>2, <3>1, CappedRevoke
  <2>3. CASE t \notin gs[g].granted /\ t \in Elems(gs[g].queue)
    <3>1. rs[g] = Unwind(CancelWaiter(gs[g], t))
        BY <1>1, <2>3
    <3>2. QED
        BY <2>1, <2>3, <3>1, CappedCancel
  <2>4. CASE t \notin Waiters(gs[g])
      BY <1>1, <2>1, <2>4
  <2>5. QED
      BY <2>1, <2>2, <2>3, <2>4
<1>3. QED
    BY <1>1, <1>2 DEF TwoGates, rs

\* A turn that is granted what it queued for goes on to the next slot, and one that is
\* over gives it back.
LEMMA GoOnIs ==
    ASSUME TwoGates(gates), NEW t \in Tasks, NEW g \in Names, t \in gates[g].granted,
           \A o \in Names \ {g} : t \notin Waiters(gates[o]),
           t \in closed => held[t] = {},
           t \notin closed => held[t] = IF g = "lane" THEN {} ELSE {"lane"}
    PROVE  LET r == GoOn(t, g) IN
           /\ TwoGates(r.gates) /\ OnlyMoves(t, gates, held[t], r.gates, r.held) /\ r.done \in BOOLEAN
           /\ t \in closed => r.done /\ r.held = {} /\ \A o \in Names : t \notin Waiters(r.gates[o])
           /\ t \notin closed =>
                \/ r.done /\ r.held = Names /\ \A o \in Names : t \notin Waiters(r.gates[o])
                \/ /\ ~r.done /\ r.held = {"lane"} /\ t \in Waiters(r.gates["ceiling"])
                   /\ t \notin Waiters(r.gates["lane"])
<1> DEFINE r  == GoOn(t, g)
           a  == Admit(gates[g], t)
           gs == [gates EXCEPT ![g] = a]
           h  == held[t] \cup {g}
           b  == GiveBack(gs, h)
           q  == TakeCeiling(gs, h, t)
<1>1. Cap(g) \in Nat /\ Capped(gates[g], Cap(g)) /\ \A o \in Names : gates[o].active \in Nat
    BY TwoGatesIs
<1>2. Capped(a, Cap(g)) /\ a.active = gates[g].active + 1 /\ Waiters(a) = Waiters(gates[g]) \ {t}
    BY <1>1, CappedAdmit
<1>3. r = IF t \in closed THEN [gates |-> b, held |-> {}, done |-> TRUE] ELSE q
    BY DEF GoOn
<1> HIDE DEF a
<1>4. TwoGates(gs) /\ gs[g] = a /\ \A o \in Names \ {g} : gs[o] = gates[o]
    BY <1>2, OneReplaced
<1> HIDE DEF gs
<1>5. \A o \in Names : t \notin Waiters(gs[o])
    BY <1>2, <1>4
<1>6. \A o \in Names : Waiters(gs[o]) \ {t} = Waiters(gates[o]) \ {t}
    BY <1>2, <1>4
<1> HIDE DEF r, q, b
<1>7. CASE t \in closed
  <2>1. held[t] = {} /\ h = {g} /\ h \in SUBSET Names /\ \A o \in h : gs[o].active > 0
      BY <1>1, <1>2, <1>4, <1>7
  <2>2. /\ TwoGates(b) /\ OnlyMoves(t, gs, h, b, {})
        /\ \A o \in Names : Waiters(b[o]) = Waiters(gs[o])
      BY <1>4, <2>1, GiveBackIs DEF b
  <2>3. OnlyMoves(t, gates, {}, b, {})
    <3> SUFFICES ASSUME NEW o \in Names
                 PROVE  /\ Waiters(b[o]) \ {t} = Waiters(gates[o]) \ {t}
                        /\ b[o].active + 0 = gates[o].active + 0
        BY DEF OnlyMoves
    <3>1. b[o].active + (IF o \in h THEN 1 ELSE 0) = gs[o].active + 0 /\ b[o].active \in Nat
        BY <2>2, TwoGatesIs DEF OnlyMoves
    <3>2. CASE o = g
        BY <1>1, <1>2, <1>4, <1>6, <2>1, <2>2, <3>1, <3>2
    <3>3. CASE o # g
        BY <1>1, <1>4, <1>6, <2>1, <2>2, <3>1, <3>3
    <3>4. QED
        BY <3>2, <3>3
  <2>4. r.gates = b /\ r.held = {} /\ r.done = TRUE
      BY <1>3, <1>7
  <2>5. QED
      BY <1>5, <1>7, <2>1, <2>2, <2>3, <2>4 DEF r
<1>8. CASE t \notin closed
  <2>1. r = q /\ held[t] = (IF g = "lane" THEN {} ELSE {"lane"}) /\ h \in SUBSET Names
      BY <1>3, <1>8 DEF Names
  <2>2. /\ TwoGates(q.gates) /\ OnlyMoves(t, gs, h, q.gates, q.held)
        /\ q.gates["lane"] = gs["lane"] /\ q.done \in BOOLEAN
        /\ q.done => q.held = h \cup {"ceiling"} /\ Waiters(q.gates["ceiling"]) = Waiters(gs["ceiling"])
        /\ ~q.done => /\ q.held = h /\ "ceiling" \notin h
                      /\ Waiters(q.gates["ceiling"]) = Waiters(gs["ceiling"]) \cup {t}
    <3>1. t \notin Waiters(gs["ceiling"])
        BY <1>5 DEF Names
    <3>2. CeilingTaken(gs, h, t, q)
        BY <1>4, <2>1, <3>1, TakeCeilingIs DEF q
    <3>3. QED
        BY <3>2 DEF CeilingTaken
  <2>3. OnlyMoves(t, gates, held[t], q.gates, q.held)
    <3> SUFFICES ASSUME NEW o \in Names
                 PROVE  /\ Waiters(q.gates[o]) \ {t} = Waiters(gates[o]) \ {t}
                        /\ q.gates[o].active + (IF o \in held[t] THEN 1 ELSE 0)
                             = gates[o].active + (IF o \in q.held THEN 1 ELSE 0)
        BY DEF OnlyMoves
    <3>1. /\ q.gates[o].active + (IF o \in h THEN 1 ELSE 0)
                = gs[o].active + (IF o \in q.held THEN 1 ELSE 0)
          /\ Waiters(q.gates[o]) \ {t} = Waiters(gs[o]) \ {t}
          /\ q.gates[o].active \in Nat
        BY <2>2, TwoGatesIs DEF OnlyMoves
    <3>2. CASE o = g
      <4>1. o \in h /\ o \notin held[t] /\ gs[o].active = gates[o].active + 1
          BY <1>2, <1>4, <2>1, <3>2 DEF Names
      <4>2. QED
          BY <1>1, <1>6, <3>1, <4>1
    <3>3. CASE o # g
      <4>1. (o \in h <=> o \in held[t]) /\ gs[o] = gates[o]
          BY <1>4, <3>3
      <4>2. QED
          BY <1>1, <1>6, <3>1, <4>1
    <3>4. QED
        BY <3>2, <3>3
  <2>4. CASE q.done
    <3>1. q.held = Names
        BY <2>1, <2>2, <2>4 DEF Names
    <3>2. \A o \in Names : t \notin Waiters(q.gates[o])
        BY <1>5, <2>2, <2>4 DEF Names
    <3>3. QED
        BY <1>8, <2>1, <2>2, <2>3, <2>4, <3>1, <3>2 DEF r
  <2>5. CASE ~q.done
    <3>1. q.held = {"lane"} /\ t \in Waiters(q.gates["ceiling"]) /\ t \notin Waiters(q.gates["lane"])
        BY <1>5, <2>1, <2>2, <2>5 DEF Names
    <3>2. QED
        BY <1>8, <2>1, <2>2, <2>3, <2>5, <3>1 DEF r
  <2>6. QED
      BY <2>4, <2>5
<1>9. QED
    BY <1>7, <1>8

---------------------------------------------------------------------------
(* Turns, waits and sub-agents over the two gates                          *)

\* The turns and the sub-agents are coroutines of the one event loop.
Actors == Turns \subseteq Tasks /\ Subagents \subseteq Tasks

Pcs == {"idle", "entering", "running", "person", "retaking", "children", "over"}

Typed ==
    /\ held \in [Turns -> SUBSET Names] /\ closed \subseteq Turns
    /\ pc \in [Turns -> Pcs] /\ late \in [Turns -> {"none", "person", "retaking"}]
    /\ parent \in [Subagents -> Turns \cup {NoTurn}]
    /\ sub \in [Subagents -> {"idle", "queued", "running", "done"}]

\* What a turn holds fits where it is; it is in one queue at most, the lane's with
\* nothing in hand or the ceiling's with its lane slot, and only while it, or a wait
\* that it left behind, is there to take what it is granted.
Waits(t) == pc[t] \in {"entering", "retaking"} \/ late[t] = "retaking"
Fit(t) ==
    /\ t \in closed <=> pc[t] = "over"
    /\ late[t] # "none" => t \in closed
    /\ pc[t] \in {"running", "children"} => held[t] = Names
    /\ pc[t] \in {"idle", "person", "over"} => held[t] = {}
    /\ pc[t] \in {"entering", "retaking"} => held[t] = {} \/ held[t] = {"lane"}
    /\ t \in Waiters(gates["lane"]) =>
         Waits(t) /\ held[t] = {} /\ t \notin Waiters(gates["ceiling"])
    /\ t \in Waiters(gates["ceiling"]) => Waits(t) /\ (t \notin closed => held[t] = {"lane"})

SlotBooks ==
    /\ TwoGates(gates) /\ Typed
    /\ \A g \in Names : gates[g].active = Cardinality(Holders(g))
    /\ Waiters(gates["lane"]) \subseteq Turns /\ Waiters(gates["ceiling"]) \subseteq Turns \cup Subagents
    /\ \A t \in Turns : Fit(t)
    /\ \A s \in Subagents : s \in Waiters(gates["ceiling"]) => sub[s] = "queued"

LEMMA HoldersCounted ==
    ASSUME Actors, NEW S \in SUBSET (Turns \cup Subagents)
    PROVE  /\ Cardinality(S) \in Nat
           /\ \A u \in S : Cardinality(S \ {u}) = Cardinality(S) - 1 /\ Cardinality(S) > 0
           /\ \A u \in (Turns \cup Subagents) \ S : Cardinality(S \cup {u}) = Cardinality(S) + 1
<1>1. S \in SUBSET Tasks /\ Turns \cup Subagents \subseteq Tasks
    BY DEF Actors
<1>2. QED
    BY <1>1, Counted

LEMMA SlotBooksInit ==
    ASSUME Actors, SlotsInit
    PROVE  SlotBooks
<1>1. /\ gates = [lane |-> NewGate(LaneLimit), ceiling |-> NewGate(CeilingLimit)]
      /\ held = [t \in Turns |-> {}] /\ closed = {} /\ pc = [t \in Turns |-> "idle"]
      /\ late = [t \in Turns |-> "none"] /\ parent = [s \in Subagents |-> NoTurn]
      /\ sub = [s \in Subagents |-> "idle"]
    BY DEF SlotsInit
<1>2. ASSUME NEW l \in Nat \ {0} PROVE Capped(NewGate(l), l) /\ Waiters(NewGate(l)) = {} /\ NewGate(l).active = 0
  <2> DEFINE n == NewGate(l)
  <2>1. /\ n \in GateType /\ n.limit = l /\ n.gated = TRUE /\ n.active = 0 /\ n.waiting = 0 /\ n.toReduce = 0
        /\ n.value = l /\ n.queue = <<>> /\ n.granted = {} /\ n.flushed = {}
    <3>1. l \in Nat /\ l > 0 /\ <<>> \in Seq(Tasks)
        BY <1>2, EmptySeq
    <3>2. (l > 0) = TRUE
        BY <3>1
    <3>3. QED
        BY <3>1, <3>2 DEF NewGate, GateType
  <2> HIDE DEF n
  <2>2. Len(n.queue) = 0 /\ Elems(n.queue) = {} /\ Distinct(n.queue)
      BY <2>1 DEF Elems, Distinct
  <2>3. Sound(n) /\ Waiters(n) = {} /\ Cardinality({}) = 0
      BY <2>1, <2>2, FS_EmptySet DEF Sound, Waiters
  <2>4. QED
      BY <1>2, <2>1, <2>3 DEF Capped, n
<1>3. LaneLimit \in Nat \ {0} /\ CeilingLimit \in Nat \ {0}
    BY CapsAssumption
<1>4. TwoGates(gates) /\ \A g \in Names : Waiters(gates[g]) = {} /\ gates[g].active = 0
    BY <1>1, <1>2, <1>3 DEF TwoGates, Names, Cap
<1>5. \A g \in Names : Holders(g) = {}
    BY <1>1 DEF Holders
<1>6. \A g \in Names : gates[g].active = Cardinality(Holders(g))
    BY <1>4, <1>5, FS_EmptySet
<1>7. Typed
    BY <1>1 DEF Typed, Pcs
<1>8. \A t \in Turns : Fit(t)
    BY <1>1, <1>4 DEF Fit, Names
<1>9. QED
    BY <1>4, <1>6, <1>7, <1>8 DEF SlotBooks, Names

\* Where only u moves, the slots in use stay those somebody holds.
LEMMA HoldersFollow ==
    ASSUME Actors, SlotBooks, NEW u \in Turns \cup Subagents, NEW h, NEW k,
           TwoGates(gates'), OnlyMoves(u, gates, h, gates', k),
           \A g \in Names : /\ u \in Holders(g) <=> g \in h
                            /\ u \in Holders(g)' <=> g \in k
                            /\ Holders(g)' \ {u} = Holders(g) \ {u}
    PROVE  \A g \in Names : gates'[g].active = Cardinality(Holders(g)')
<1> SUFFICES ASSUME NEW g \in Names PROVE gates'[g].active = Cardinality(Holders(g)')
    OBVIOUS
<1> DEFINE H == Holders(g)
           J == Holders(g)'
<1>1. H \in SUBSET (Turns \cup Subagents) /\ J \in SUBSET (Turns \cup Subagents)
    BY DEF Holders
<1>2. gates[g].active = Cardinality(H) /\ gates[g].active \in Nat /\ gates'[g].active \in Nat
  <2>1. TwoGates(gates)
      BY DEF SlotBooks
  <2>2. QED
      BY <2>1, TwoGatesIs DEF SlotBooks
<1>3. (u \in H <=> g \in h) /\ (u \in J <=> g \in k) /\ J \ {u} = H \ {u}
    OBVIOUS
<1>4. gates'[g].active + (IF g \in h THEN 1 ELSE 0) = gates[g].active + (IF g \in k THEN 1 ELSE 0)
    BY DEF OnlyMoves
<1> HIDE DEF H, J
<1>5. CASE u \in H /\ u \in J
  <2>1. H = J
      BY <1>3, <1>5
  <2>2. QED
      BY <1>2, <1>3, <1>4, <1>5, <2>1 DEF J
<1>6. CASE u \in H /\ u \notin J
  <2>1. J = H \ {u}
      BY <1>3, <1>6
  <2>2. Cardinality(J) = Cardinality(H) - 1 /\ Cardinality(H) \in Nat
      BY <1>1, <1>6, <2>1, HoldersCounted
  <2>3. QED
      BY <1>2, <1>3, <1>4, <1>6, <2>2 DEF J
<1>7. CASE u \notin H /\ u \in J
  <2>1. J = H \cup {u}
      BY <1>3, <1>7
  <2>2. Cardinality(J) = Cardinality(H) + 1 /\ Cardinality(H) \in Nat
      BY <1>1, <1>7, <2>1, HoldersCounted
  <2>3. QED
      BY <1>2, <1>3, <1>4, <1>7, <2>2 DEF J
<1>8. CASE u \notin H /\ u \notin J
  <2>1. H = J
      BY <1>3, <1>8
  <2>2. QED
      BY <1>2, <1>3, <1>4, <1>8, <2>1 DEF J
<1>9. QED
    BY <1>5, <1>6, <1>7, <1>8

\* A step of one turn: what it held and waited for changes, nobody else's place does.
LEMMA TurnMoves ==
    ASSUME Actors, SlotBooks, NEW t \in Turns, NEW k \in SUBSET Names,
           TwoGates(gates'), OnlyMoves(t, gates, held[t], gates', k),
           held' = [held EXCEPT ![t] = k], Typed', Fit(t)', sub' = sub,
           \A u \in Turns \ {t} : /\ pc'[u] = pc[u] /\ late'[u] = late[u]
                                  /\ u \in closed' <=> u \in closed
    PROVE  SlotBooks'
<1>1. Typed /\ "lane" \in Names /\ "ceiling" \in Names /\ Turns \cap Subagents = {}
    BY ActorsAssumption DEF SlotBooks, Names
<1>2. held'[t] = k /\ \A u \in Turns \ {t} : held'[u] = held[u]
    BY <1>1 DEF Typed
<1>3. \A g \in Names : gates'[g].active = Cardinality(Holders(g)')
  <2>1. ASSUME NEW g \in Names
        PROVE  /\ t \in Holders(g) <=> g \in held[t]
               /\ t \in Holders(g)' <=> g \in k
               /\ Holders(g)' \ {t} = Holders(g) \ {t}
      BY <1>1, <1>2 DEF Holders
  <2>2. QED
      BY <2>1, HoldersFollow
<1>4. \A g \in Names : Waiters(gates'[g]) \ {t} = Waiters(gates[g]) \ {t}
    BY DEF OnlyMoves
<1>5. ASSUME NEW u \in Turns PROVE Fit(u)'
  <2>1. CASE u = t
      BY <2>1
  <2>2. CASE u # t
    <3>1. Fit(u)
        BY DEF SlotBooks
    <3>2. /\ pc'[u] = pc[u] /\ late'[u] = late[u] /\ held'[u] = held[u] /\ (u \in closed' <=> u \in closed)
          /\ u \in Waiters(gates'["lane"]) <=> u \in Waiters(gates["lane"])
          /\ u \in Waiters(gates'["ceiling"]) <=> u \in Waiters(gates["ceiling"])
        BY <1>1, <1>2, <1>4, <2>2
    <3>3. QED
        BY <3>1, <3>2 DEF Fit, Waits
  <2>3. QED
      BY <2>1, <2>2
<1>6. /\ Waiters(gates'["lane"]) \subseteq Turns /\ Waiters(gates'["ceiling"]) \subseteq Turns \cup Subagents
      /\ \A s \in Subagents : s \in Waiters(gates'["ceiling"]) => sub'[s] = "queued"
    BY <1>1, <1>4 DEF SlotBooks
<1>7. QED
    BY <1>3, <1>5, <1>6 DEF SlotBooks

\* A step of one sub-agent; a turn that waits for it may go on.
Has(b) == IF b = "running" THEN {"ceiling"} ELSE {}

LEMMA SubMoves ==
    ASSUME Actors, SlotBooks, NEW s \in Subagents,
           TwoGates(gates'), OnlyMoves(s, gates, Has(sub[s]), gates', Has(sub'[s])),
           s \notin Waiters(gates'["lane"]), s \in Waiters(gates'["ceiling"]) => sub'[s] = "queued",
           \A o \in Subagents \ {s} : sub'[o] = sub[o],
           Typed', held' = held, closed' = closed, late' = late,
           \A u \in Turns : pc'[u] = pc[u] \/ (pc[u] = "children" /\ pc'[u] = "running")
    PROVE  SlotBooks'
<1>1. Typed /\ "lane" \in Names /\ "ceiling" \in Names /\ Turns \cap Subagents = {}
    BY ActorsAssumption DEF SlotBooks, Names
<1>2. \A g \in Names : gates'[g].active = Cardinality(Holders(g)')
  <2>1. ASSUME NEW g \in Names
        PROVE  /\ s \in Holders(g) <=> g \in Has(sub[s])
               /\ s \in Holders(g)' <=> g \in Has(sub'[s])
               /\ Holders(g)' \ {s} = Holders(g) \ {s}
      BY <1>1 DEF Holders, Has
  <2>2. QED
      BY <2>1, HoldersFollow
<1>3. \A g \in Names : Waiters(gates'[g]) \ {s} = Waiters(gates[g]) \ {s}
    BY DEF OnlyMoves
<1>4. ASSUME NEW u \in Turns PROVE Fit(u)'
  <2>1. Fit(u) /\ u # s
      BY <1>1 DEF SlotBooks
  <2>2. /\ u \in Waiters(gates'["lane"]) <=> u \in Waiters(gates["lane"])
        /\ u \in Waiters(gates'["ceiling"]) <=> u \in Waiters(gates["ceiling"])
      BY <1>1, <1>3, <2>1
  <2>3. CASE pc'[u] = pc[u]
      BY <2>1, <2>2, <2>3 DEF Fit, Waits
  <2>4. CASE pc[u] = "children" /\ pc'[u] = "running"
      BY <2>1, <2>2, <2>4 DEF Fit, Waits
  <2>5. QED
      BY <2>3, <2>4
<1>5. /\ Waiters(gates'["lane"]) \subseteq Turns /\ Waiters(gates'["ceiling"]) \subseteq Turns \cup Subagents
      /\ \A o \in Subagents : o \in Waiters(gates'["ceiling"]) => sub'[o] = "queued"
    BY <1>1, <1>3 DEF SlotBooks
<1>6. QED
    BY <1>2, <1>4, <1>5 DEF SlotBooks

\* What a turn that may move finds.
LEMMA TurnFinds ==
    ASSUME Actors, SlotBooks, NEW t \in Turns
    PROVE  /\ TwoGates(gates) /\ Typed /\ Fit(t) /\ t \in Tasks
           /\ held[t] \in SUBSET Names /\ \A g \in Names : gates[g].active \in Nat
           /\ \A g \in held[t] : gates[g].active > 0
           /\ \A g \in Names : Waiters(gates[g]) = Elems(gates[g].queue) \cup gates[g].granted
           /\ pc[t] \in {"idle", "running", "person", "children"}
                => late[t] = "none" /\ t \notin closed /\ \A g \in Names : t \notin Waiters(gates[g])
           /\ pc[t] \in {"entering", "retaking"} => late[t] = "none" /\ t \notin closed
<1>1. TwoGates(gates) /\ Typed /\ Fit(t) /\ t \in Tasks
    BY DEF Actors, SlotBooks
<1>2. held[t] \in SUBSET Names
    BY <1>1 DEF Typed
<1>3. \A g \in Names : /\ gates[g].active \in Nat
                       /\ Waiters(gates[g]) = Elems(gates[g].queue) \cup gates[g].granted
    BY <1>1, TwoGatesIs
<1>4. \A g \in held[t] : gates[g].active > 0
  <2> SUFFICES ASSUME NEW g \in held[t] PROVE gates[g].active > 0
      OBVIOUS
  <2>1. t \in Holders(g) /\ Holders(g) \in SUBSET (Turns \cup Subagents)
      BY DEF Holders
  <2>2. Cardinality(Holders(g)) > 0
      BY <2>1, HoldersCounted
  <2>3. QED
      BY <1>2, <2>2 DEF SlotBooks
<1>5. /\ pc[t] \in {"idle", "running", "person", "children"}
           => late[t] = "none" /\ t \notin closed /\ \A g \in Names : t \notin Waiters(gates[g])
      /\ pc[t] \in {"entering", "retaking"} => late[t] = "none" /\ t \notin closed
    BY <1>1 DEF Fit, Waits, Names
<1>6. QED
    BY <1>1, <1>2, <1>3, <1>4, <1>5

\* A turn that enters, or comes back from a person, takes its slots.
LEMMA TakesSlots ==
    ASSUME Actors, SlotBooks, NEW t \in Turns, pc[t] \in {"idle", "person"},
           NEW b \in {"entering", "retaking"},
           gates' = TakeSlots(gates, held[t], t).gates,
           held' = [held EXCEPT ![t] = TakeSlots(gates, held[t], t).held],
           pc' = [pc EXCEPT ![t] = IF TakeSlots(gates, held[t], t).done THEN "running" ELSE b],
           UNCHANGED <<closed, late, parent, sub>>
    PROVE  SlotBooks'
<1> DEFINE r == TakeSlots(gates, held[t], t)
<1>1. /\ Typed /\ TwoGates(gates) /\ t \in Tasks /\ Fit(t)
      /\ late[t] = "none" /\ t \notin closed /\ \A g \in Names : t \notin Waiters(gates[g])
    BY TurnFinds
<1>2. held[t] = {}
    BY <1>1 DEF Fit
<1>3. /\ TwoGates(r.gates) /\ OnlyMoves(t, gates, {}, r.gates, r.held) /\ r.done \in BOOLEAN
      /\ \/ /\ r.done /\ r.held = Names /\ \A g \in Names : t \notin Waiters(r.gates[g])
         \/ /\ ~r.done /\ r.held = {} /\ t \in Waiters(r.gates["lane"])
            /\ t \notin Waiters(r.gates["ceiling"])
         \/ /\ ~r.done /\ r.held = {"lane"} /\ t \in Waiters(r.gates["ceiling"])
            /\ t \notin Waiters(r.gates["lane"])
  <2>1. r = TakeSlots(gates, {}, t)
      BY <1>2
  <2> HIDE DEF r
  <2>2. QED
      BY <1>1, <2>1, TakeSlotsIs
<1>4. /\ gates' = r.gates /\ held' = [held EXCEPT ![t] = r.held]
      /\ pc' = [pc EXCEPT ![t] = IF r.done THEN "running" ELSE b]
    OBVIOUS
<1> HIDE DEF r
<1>5. r.held \in SUBSET Names /\ pc'[t] = (IF r.done THEN "running" ELSE b) /\ held'[t] = r.held
      /\ \A u \in Turns \ {t} : pc'[u] = pc[u]
    BY <1>1, <1>3, <1>4 DEF Typed, Names
<1>6. Typed'
    BY <1>1, <1>4, <1>5 DEF Typed, Pcs
<1>7. Fit(t)'
    BY <1>1, <1>3, <1>4, <1>5 DEF Fit, Waits, Names
<1>8. QED
    BY <1>1, <1>2, <1>3, <1>4, <1>5, <1>6, <1>7, TurnMoves

\* A turn that gives back what it holds, cancelled in a queue or not.
LEMMA GivesBack ==
    ASSUME Actors, SlotBooks, NEW t \in Turns, NEW gs, TwoGates(gs),
           \A g \in Names : /\ Waiters(gs[g]) \ {t} = Waiters(gates[g]) \ {t}
                            /\ gs[g].active = gates[g].active,
           gates' = GiveBack(gs, held[t]), held' = [held EXCEPT ![t] = {}]
    PROVE  /\ TwoGates(gates') /\ OnlyMoves(t, gates, held[t], gates', {}) /\ held'[t] = {}
           /\ \A g \in Names : Waiters(gates'[g]) = Waiters(gs[g])
<1>1. /\ Typed /\ held[t] \in SUBSET Names
      /\ \A g \in held[t] : gs[g].active > 0
    BY TurnFinds
<1>2. /\ TwoGates(gates') /\ OnlyMoves(t, gs, held[t], gates', {})
      /\ \A g \in Names : Waiters(gates'[g]) = Waiters(gs[g])
    BY <1>1, GiveBackIs
<1>3. held'[t] = {}
    BY <1>1 DEF Typed
<1>4. OnlyMoves(t, gates, held[t], gates', {})
    BY <1>2 DEF OnlyMoves
<1>5. QED
    BY <1>2, <1>3, <1>4

\* A granted slot is taken, or given back by a wait whose turn is over.
LEMMA GrantKeepsBooks ==
    ASSUME Actors, SlotBooks, NEW t \in Turns, NEW g \in Names,
           SlotGranted(t, g) \/ LateGranted(t, g)
    PROVE  SlotBooks'
<1> DEFINE r == GoOn(t, g)
<1>1. /\ Typed /\ TwoGates(gates) /\ t \in Tasks /\ Fit(t)
      /\ Waiters(gates[g]) = Elems(gates[g].queue) \cup gates[g].granted
      /\ pc[t] \in {"entering", "retaking"} => late[t] = "none" /\ t \notin closed
    BY TurnFinds
<1>2. t \in gates[g].granted /\ t \in Waiters(gates[g])
    BY <1>1 DEF SlotGranted, LateGranted, Granted
<1>3. /\ gates' = r.gates /\ held' = [held EXCEPT ![t] = r.held] /\ UNCHANGED <<closed, parent, sub>>
      /\ \/ /\ pc[t] \in {"entering", "retaking"} /\ late' = late
            /\ pc' = [pc EXCEPT ![t] = IF r.done THEN "running" ELSE pc[t]]
         \/ /\ late[t] = "retaking" /\ pc' = pc
            /\ late' = [late EXCEPT ![t] = IF r.done THEN "none" ELSE late[t]]
    BY DEF SlotGranted, LateGranted
<1>4. /\ \A o \in Names \ {g} : t \notin Waiters(gates[o])
      /\ t \in closed => held[t] = {}
      /\ t \notin closed => held[t] = IF g = "lane" THEN {} ELSE {"lane"}
    BY <1>1, <1>2 DEF Fit, Names
<1>5. /\ TwoGates(r.gates) /\ OnlyMoves(t, gates, held[t], r.gates, r.held) /\ r.done \in BOOLEAN
      /\ t \in closed => r.done /\ r.held = {} /\ \A o \in Names : t \notin Waiters(r.gates[o])
      /\ t \notin closed =>
           \/ r.done /\ r.held = Names /\ \A o \in Names : t \notin Waiters(r.gates[o])
           \/ /\ ~r.done /\ r.held = {"lane"} /\ t \in Waiters(r.gates["ceiling"])
              /\ t \notin Waiters(r.gates["lane"])
    BY <1>1, <1>2, <1>4, GoOnIs
<1> HIDE DEF r
<1>6. r.held \in SUBSET Names /\ held'[t] = r.held
    BY <1>1, <1>3, <1>5 DEF Typed, Names
<1>7. CASE /\ pc[t] \in {"entering", "retaking"} /\ late' = late
           /\ pc' = [pc EXCEPT ![t] = IF r.done THEN "running" ELSE pc[t]]
  <2>1. /\ t \notin closed /\ late[t] = "none" /\ pc'[t] = (IF r.done THEN "running" ELSE pc[t])
        /\ \A u \in Turns \ {t} : pc'[u] = pc[u]
      BY <1>1, <1>7 DEF Typed
  <2>2. Typed'
      BY <1>1, <1>3, <1>6, <1>7, <2>1 DEF Typed, Pcs
  <2>3. Fit(t)'
      BY <1>1, <1>3, <1>5, <1>6, <1>7, <2>1 DEF Fit, Waits, Names
  <2>4. QED
      BY <1>1, <1>3, <1>5, <1>6, <1>7, <2>1, <2>2, <2>3, TurnMoves
<1>8. CASE /\ late[t] = "retaking" /\ pc' = pc
           /\ late' = [late EXCEPT ![t] = IF r.done THEN "none" ELSE late[t]]
  <2>1. t \in closed /\ pc[t] = "over"
      BY <1>1, <1>8 DEF Fit
  <2>2. late'[t] = "none" /\ \A u \in Turns \ {t} : late'[u] = late[u]
      BY <1>1, <1>5, <1>8, <2>1 DEF Typed
  <2>3. Typed'
      BY <1>1, <1>3, <1>6, <1>8, <2>2 DEF Typed
  <2>4. Fit(t)'
      BY <1>1, <1>3, <1>5, <1>6, <1>8, <2>1, <2>2 DEF Fit, Waits, Names
  <2>5. QED
      BY <1>1, <1>3, <1>5, <1>6, <1>8, <2>1, <2>2, <2>3, <2>4, TurnMoves
<1>9. QED
    BY <1>3, <1>7, <1>8

\* A turn that asks a person, ends, is cancelled, or ends under a wait of its own.
LEMMA ReleaseKeepsBooks ==
    ASSUME Actors, SlotBooks, NEW t \in Turns,
           \/ AskPerson(t) \/ Finish(t) \/ Cancel(t) \/ EndUnderWait(t)
    PROVE  SlotBooks'
<1>1. /\ Typed /\ TwoGates(gates) /\ Fit(t) /\ "lane" \in Names /\ "ceiling" \in Names
      /\ pc[t] \in {"idle", "running", "person", "children"}
           => late[t] = "none" /\ t \notin closed /\ \A g \in Names : t \notin Waiters(gates[g])
      /\ pc[t] \in {"entering", "retaking"} => late[t] = "none" /\ t \notin closed
    BY TurnFinds DEF Names
<1>2. {} \in SUBSET Names /\ held' = [held EXCEPT ![t] = {}] /\ UNCHANGED <<parent, sub>>
    BY DEF AskPerson, Finish, Cancel, EndUnderWait
<1>3. ASSUME NEW gs, TwoGates(gs), gates' = GiveBack(gs, held[t]),
             \A g \in Names : /\ Waiters(gs[g]) \ {t} = Waiters(gates[g]) \ {t}
                              /\ gs[g].active = gates[g].active,
             NEW b \in Pcs, pc' = [pc EXCEPT ![t] = b],
             closed' = closed \/ closed' = closed \cup {t},
             NEW w \in {"none", "person", "retaking"}, late' = [late EXCEPT ![t] = w],
             b \in {"person", "over"}, b = "over" <=> t \in closed', w # "none" => b = "over",
             \A g \in Names : t \in Waiters(gs[g]) => w = "retaking",
             t \in Waiters(gs["lane"]) => t \notin Waiters(gs["ceiling"])
      PROVE  SlotBooks'
  <2>1. /\ TwoGates(gates') /\ OnlyMoves(t, gates, held[t], gates', {}) /\ held'[t] = {}
        /\ \A g \in Names : Waiters(gates'[g]) = Waiters(gs[g])
      BY <1>2, <1>3, GivesBack
  <2>2. /\ pc'[t] = b /\ late'[t] = w
        /\ \A u \in Turns \ {t} : pc'[u] = pc[u] /\ late'[u] = late[u] /\ (u \in closed' <=> u \in closed)
      BY <1>1, <1>3 DEF Typed
  <2>3. Typed'
      BY <1>1, <1>2, <1>3 DEF Typed
  <2>4. Fit(t)'
      BY <1>1, <1>3, <2>1, <2>2 DEF Fit, Waits
  <2>5. QED
      BY <1>2, <2>1, <2>2, <2>3, <2>4, TurnMoves
<1>4. late = [late EXCEPT ![t] = late[t]]
    BY <1>1 DEF Typed
<1>5. CASE AskPerson(t)
  <2>1. /\ pc[t] = "running" /\ gates' = GiveBack(gates, held[t])
        /\ pc' = [pc EXCEPT ![t] = "person"] /\ closed' = closed /\ late' = late
      BY <1>5 DEF AskPerson
  <2>2. late[t] = "none" /\ t \notin closed /\ \A g \in Names : t \notin Waiters(gates[g])
      BY <1>1, <2>1
  <2>3. QED
      BY <1>1, <1>3, <1>4, <2>1, <2>2 DEF Pcs
<1>6. CASE Finish(t)
  <2>1. /\ pc[t] = "running" /\ gates' = GiveBack(gates, held[t])
        /\ pc' = [pc EXCEPT ![t] = "over"] /\ closed' = closed \cup {t} /\ late' = late
      BY <1>6 DEF Finish
  <2>2. late[t] = "none" /\ t \in closed' /\ \A g \in Names : t \notin Waiters(gates[g])
      BY <1>1, <2>1
  <2>3. QED
      BY <1>1, <1>3, <1>4, <2>1, <2>2 DEF Pcs
<1>7. CASE Cancel(t)
  <2> DEFINE gs == Withdraw(gates, t)
  <2>1. /\ pc[t] \in {"entering", "running", "person", "retaking", "children"}
        /\ gates' = GiveBack(gs, held[t])
        /\ pc' = [pc EXCEPT ![t] = "over"] /\ closed' = closed \cup {t} /\ late' = late
      BY <1>7 DEF Cancel
  <2>2. /\ TwoGates(gs)
        /\ \A g \in Names : Waiters(gs[g]) = Waiters(gates[g]) \ {t} /\ gs[g].active = gates[g].active
      BY <1>1, WithdrawIs
  <2> HIDE DEF gs
  <2>3. /\ late[t] = "none" /\ t \in closed' /\ \A g \in Names : t \notin Waiters(gs[g])
        /\ \A g \in Names : Waiters(gs[g]) \ {t} = Waiters(gates[g]) \ {t}
      BY <1>1, <2>1, <2>2
  <2>4. QED
      BY <1>1, <1>3, <1>4, <2>1, <2>2, <2>3 DEF Pcs
<1>8. CASE EndUnderWait(t)
  <2>1. /\ pc[t] \in {"person", "retaking"} /\ gates' = GiveBack(gates, held[t])
        /\ pc' = [pc EXCEPT ![t] = "over"] /\ closed' = closed \cup {t}
        /\ late' = [late EXCEPT ![t] = pc[t]]
      BY <1>8 DEF EndUnderWait
  <2>2. /\ t \in closed' /\ \A g \in Names : t \in Waiters(gates[g]) => pc[t] = "retaking"
        /\ t \in Waiters(gates["lane"]) => t \notin Waiters(gates["ceiling"])
      BY <1>1, <2>1 DEF Fit
  <2>3. QED
      BY <1>1, <1>3, <2>1, <2>2 DEF Pcs
<1>9. QED
    BY <1>5, <1>6, <1>7, <1>8

\* A turn that waits for its children, or stops to, and an answer nobody needs now.
LEMMA WaitKeepsBooks ==
    ASSUME Actors, SlotBooks, NEW t \in Turns,
           LateAnswer(t) \/ AwaitChildren(t) \/ GiveUpOnChildren(t)
    PROVE  SlotBooks'
<1>1. /\ Typed /\ TwoGates(gates) /\ Fit(t) /\ held[t] \in SUBSET Names
    BY TurnFinds
<1>2. /\ UNCHANGED <<gates, held, closed, parent, sub>>
      /\ \/ late[t] = "person" /\ late' = [late EXCEPT ![t] = "none"] /\ pc' = pc
         \/ pc[t] = "running" /\ pc' = [pc EXCEPT ![t] = "children"] /\ late' = late
         \/ pc[t] = "children" /\ pc' = [pc EXCEPT ![t] = "running"] /\ late' = late
    BY DEF LateAnswer, AwaitChildren, GiveUpOnChildren
<1>3. TwoGates(gates') /\ OnlyMoves(t, gates, held[t], gates', held[t])
    BY <1>1, <1>2 DEF OnlyMoves
<1>4. held' = [held EXCEPT ![t] = held[t]]
    BY <1>1, <1>2 DEF Typed
<1>5. Typed' /\ \A u \in Turns \ {t} : /\ pc'[u] = pc[u] /\ late'[u] = late[u]
                                       /\ u \in closed' <=> u \in closed
    BY <1>1, <1>2 DEF Typed, Pcs
<1>6. Fit(t)'
  <2>1. \/ late[t] = "person" /\ late'[t] = "none" /\ pc'[t] = pc[t]
        \/ pc[t] = "running" /\ pc'[t] = "children" /\ late'[t] = late[t]
        \/ pc[t] = "children" /\ pc'[t] = "running" /\ late'[t] = late[t]
      BY <1>1, <1>2 DEF Typed
  <2>2. QED
      BY <1>1, <1>2, <2>1 DEF Fit, Waits
<1>7. QED
    BY <1>1, <1>2, <1>3, <1>4, <1>5, <1>6, TurnMoves

\* Spawned, let in, done or cancelled, a sub-agent is one user of the ceiling.
LEMMA SubKeepsBooks ==
    ASSUME Actors, SlotBooks, NEW s \in Subagents,
           \/ \E t \in Turns : Spawn(t, s)
           \/ SubGranted(s) \/ SubDone(s) \/ SubCancel(s)
    PROVE  SlotBooks'
<1> DEFINE c == gates["ceiling"]
<1>1. /\ Typed /\ TwoGates(gates) /\ s \in Tasks /\ s \notin Turns
      /\ "lane" \in Names /\ "ceiling" \in Names /\ "lane" # "ceiling" /\ Cap("ceiling") \in Nat
      /\ Capped(c, Cap("ceiling")) /\ c.active \in Nat /\ Waiters(c) = Elems(c.queue) \cup c.granted
      /\ s \notin Waiters(gates["lane"]) /\ (s \in Waiters(c) => sub[s] = "queued")
  <2>1. "lane" \in Names /\ "ceiling" \in Names /\ "lane" # "ceiling"
      BY DEF Names
  <2>2. /\ Typed /\ TwoGates(gates) /\ s \in Tasks /\ s \notin Turns
        /\ s \notin Waiters(gates["lane"]) /\ (s \in Waiters(c) => sub[s] = "queued")
      BY ActorsAssumption DEF SlotBooks, Actors
  <2>3. QED
      BY <2>1, <2>2, TwoGatesIs
<1>2. sub[s] = "running" => c.active > 0
  <2>1. SUFFICES ASSUME sub[s] = "running" PROVE c.active > 0
      OBVIOUS
  <2>2. s \in Holders("ceiling") /\ Holders("ceiling") \in SUBSET (Turns \cup Subagents)
      BY <2>1 DEF Holders
  <2>3. Cardinality(Holders("ceiling")) > 0
      BY <2>2, HoldersCounted
  <2>4. QED
      BY <1>1, <2>3 DEF SlotBooks
<1>3. UNCHANGED <<held, closed, late>>
    BY DEF Spawn, SubGranted, SubDone, SubCancel
\* The ceiling becomes n.
<1>4. ASSUME NEW n, Capped(n, Cap("ceiling")), gates' = [gates EXCEPT !["ceiling"] = n],
             Waiters(n) \ {s} = Waiters(c) \ {s},
             NEW b \in {"queued", "running", "done"}, sub' = [sub EXCEPT ![s] = b],
             s \in Waiters(n) => b = "queued",
             n.active + (IF sub[s] = "running" THEN 1 ELSE 0)
               = c.active + (IF b = "running" THEN 1 ELSE 0),
             parent' \in [Subagents -> Turns \cup {NoTurn}], pc' \in [Turns -> Pcs],
             \A u \in Turns : pc'[u] = pc[u] \/ (pc[u] = "children" /\ pc'[u] = "running")
      PROVE  SlotBooks'
  <2>1. TwoGates(gates') /\ gates'["ceiling"] = n /\ gates'["lane"] = gates["lane"]
    <3> DEFINE rs == [gates EXCEPT !["ceiling"] = n]
    <3>1. TwoGates(rs) /\ rs["ceiling"] = n /\ \A o \in Names \ {"ceiling"} : rs[o] = gates[o]
      <4>1. TwoGates(gates) /\ "ceiling" \in Names
          BY <1>1
      <4>2. Capped(n, Cap("ceiling"))
          BY <1>4
      <4>3. QED
          BY <4>1, <4>2, OneReplaced
    <3>2. gates' = rs
        BY <1>4
    <3> HIDE DEF rs
    <3>3. QED
        BY <1>1, <3>1, <3>2
  <2>2. sub'[s] = b /\ Typed' /\ \A o \in Subagents \ {s} : sub'[o] = sub[o]
      BY <1>1, <1>3, <1>4 DEF Typed
  <2>3. OnlyMoves(s, gates, Has(sub[s]), gates', Has(sub'[s]))
    <3>1. /\ Waiters(gates'["lane"]) \ {s} = Waiters(gates["lane"]) \ {s}
          /\ gates'["lane"].active + 0 = gates["lane"].active + 0
          /\ "lane" \notin Has(sub[s]) /\ "lane" \notin Has(sub'[s])
        BY <2>1 DEF Has
    <3>2. /\ Waiters(gates'["ceiling"]) \ {s} = Waiters(gates["ceiling"]) \ {s}
          /\ gates'["ceiling"].active + (IF "ceiling" \in Has(sub[s]) THEN 1 ELSE 0)
               = gates["ceiling"].active + (IF "ceiling" \in Has(sub'[s]) THEN 1 ELSE 0)
        BY <1>4, <2>1, <2>2 DEF Has
    <3>3. QED
        BY <3>1, <3>2 DEF OnlyMoves, Names
  <2>4. /\ s \notin Waiters(gates'["lane"]) /\ (s \in Waiters(gates'["ceiling"]) => sub'[s] = "queued")
        /\ held' = held /\ closed' = closed /\ late' = late
      BY <1>1, <1>3, <1>4, <2>1, <2>2
  <2>5. QED
      BY <1>4, <2>1, <2>2, <2>3, <2>4, SubMoves
<1>5. ASSUME NEW t \in Turns, Spawn(t, s) PROVE SlotBooks'
  <2> DEFINE n == Enter(c, s)
  <2>1. /\ sub[s] = "idle" /\ parent' = [parent EXCEPT ![s] = t] /\ pc' = pc
        /\ gates' = [gates EXCEPT !["ceiling"] = n]
        /\ sub' = [sub EXCEPT ![s] = IF EntersAtOnce(c) THEN "running" ELSE "queued"]
      BY <1>5 DEF Spawn
  <2>2. /\ Capped(n, Cap("ceiling"))
        /\ EntersAtOnce(c) => n.active = c.active + 1 /\ Waiters(n) = Waiters(c)
        /\ ~EntersAtOnce(c) => n.active = c.active /\ Waiters(n) = Waiters(c) \cup {s}
    <3>1. s \notin Waiters(c)
        BY <1>1, <2>1
    <3> HIDE DEF c
    <3>2. QED
        BY <1>1, <3>1, CappedEnter
  <2> HIDE DEF n
  <2>3. parent' \in [Subagents -> Turns \cup {NoTurn}] /\ pc' \in [Turns -> Pcs]
      BY <1>1, <2>1 DEF Typed
  <2> HIDE DEF c
  <2>4. CASE EntersAtOnce(c)
    <3>1. /\ sub' = [sub EXCEPT ![s] = "running"] /\ s \notin Waiters(n)
          /\ Waiters(n) \ {s} = Waiters(c) \ {s}
          /\ n.active + (IF sub[s] = "running" THEN 1 ELSE 0)
               = c.active + (IF "running" = "running" THEN 1 ELSE 0)
        BY <1>1, <2>1, <2>2, <2>4
    <3>2. QED
        BY <1>4, <2>1, <2>2, <2>3, <3>1
  <2>5. CASE ~EntersAtOnce(c)
    <3>1. /\ sub' = [sub EXCEPT ![s] = "queued"]
          /\ Waiters(n) \ {s} = Waiters(c) \ {s}
          /\ n.active + (IF sub[s] = "running" THEN 1 ELSE 0)
               = c.active + (IF "queued" = "running" THEN 1 ELSE 0)
        BY <1>1, <2>1, <2>2, <2>5
    <3>2. QED
        BY <1>4, <2>1, <2>2, <2>3, <3>1
  <2>6. QED
      BY <2>4, <2>5
<1>6. CASE SubGranted(s)
  <2> DEFINE n == Admit(c, s)
  <2>1. /\ sub[s] = "queued" /\ s \in c.granted /\ parent' = parent /\ pc' = pc
        /\ gates' = [gates EXCEPT !["ceiling"] = n]
        /\ sub' = [sub EXCEPT ![s] = "running"]
      BY <1>6 DEF SubGranted
  <2>2. Capped(n, Cap("ceiling")) /\ n.active = c.active + 1 /\ Waiters(n) = Waiters(c) \ {s}
      BY <1>1, <2>1, CappedAdmit
  <2> HIDE DEF n
  <2>3. parent' \in [Subagents -> Turns \cup {NoTurn}] /\ pc' \in [Turns -> Pcs]
      BY <1>1, <2>1 DEF Typed
  <2> HIDE DEF c
  <2>4. /\ s \notin Waiters(n) /\ Waiters(n) \ {s} = Waiters(c) \ {s}
        /\ n.active + (IF sub[s] = "running" THEN 1 ELSE 0)
             = c.active + (IF "running" = "running" THEN 1 ELSE 0)
      BY <1>1, <2>1, <2>2
  <2>5. QED
      BY <1>4, <2>1, <2>2, <2>3, <2>4
<1>7. CASE SubDone(s)
  <2> DEFINE n == Exit(c)
  <2>1. /\ sub[s] = "running" /\ parent' = parent
        /\ pc' = [u \in Turns |-> IF u = parent[s] /\ pc[u] = "children" THEN "running" ELSE pc[u]]
        /\ gates' = [gates EXCEPT !["ceiling"] = n]
        /\ sub' = [sub EXCEPT ![s] = "done"]
      BY <1>7 DEF SubDone
  <2>2. Capped(n, Cap("ceiling")) /\ n.active = c.active - 1 /\ Waiters(n) = Waiters(c)
      BY <1>1, <1>2, <2>1, CappedExit
  <2> HIDE DEF n
  <2>3. /\ parent' \in [Subagents -> Turns \cup {NoTurn}] /\ pc' \in [Turns -> Pcs]
        /\ \A u \in Turns : pc'[u] = pc[u] \/ (pc[u] = "children" /\ pc'[u] = "running")
      BY <1>1, <2>1 DEF Typed, Pcs
  <2> HIDE DEF c
  <2>4. /\ s \notin Waiters(n) /\ Waiters(n) \ {s} = Waiters(c) \ {s}
        /\ n.active + (IF sub[s] = "running" THEN 1 ELSE 0)
             = c.active + (IF "done" = "running" THEN 1 ELSE 0)
      BY <1>1, <2>1, <2>2
  <2>5. QED
      BY <1>4, <2>1, <2>2, <2>3, <2>4
<1>8. CASE SubCancel(s)
  <2>1. /\ sub[s] \in {"queued", "running"} /\ parent' = parent /\ pc' = pc
        /\ gates' = IF sub[s] = "queued" THEN Withdraw(gates, s)
                     ELSE [gates EXCEPT !["ceiling"] = Exit(c)]
        /\ sub' = [sub EXCEPT ![s] = "done"]
      BY <1>8 DEF SubCancel
  <2>2. parent' \in [Subagents -> Turns \cup {NoTurn}] /\ pc' \in [Turns -> Pcs]
      BY <1>1, <2>1 DEF Typed
  <2>3. CASE sub[s] = "running"
    <3> DEFINE n == Exit(c)
    <3>1. Capped(n, Cap("ceiling")) /\ n.active = c.active - 1 /\ Waiters(n) = Waiters(c)
        BY <1>1, <1>2, <2>3, CappedExit
    <3>2. gates' = [gates EXCEPT !["ceiling"] = n]
        BY <2>1, <2>3
    <3> HIDE DEF n, c
    <3>3. /\ s \notin Waiters(n) /\ Waiters(n) \ {s} = Waiters(c) \ {s}
          /\ n.active + (IF sub[s] = "running" THEN 1 ELSE 0)
               = c.active + (IF "done" = "running" THEN 1 ELSE 0)
        BY <1>1, <2>3, <3>1
    <3>4. QED
        BY <1>4, <2>1, <2>2, <3>1, <3>2, <3>3
  <2>4. CASE sub[s] = "queued"
    <3> DEFINE gs == Withdraw(gates, s)
    <3>1. /\ TwoGates(gs)
          /\ \A g \in Names : Waiters(gs[g]) = Waiters(gates[g]) \ {s} /\ gs[g].active = gates[g].active
        BY <1>1, WithdrawIs
    <3>2. gates' = gs
        BY <2>1, <2>4
    <3> HIDE DEF gs
    <3>3. sub'[s] = "done" /\ Typed' /\ \A o \in Subagents \ {s} : sub'[o] = sub[o]
        BY <1>1, <1>3, <2>1, <2>2 DEF Typed
    <3>4. TwoGates(gates') /\ OnlyMoves(s, gates, Has(sub[s]), gates', Has(sub'[s]))
        BY <2>4, <3>1, <3>2, <3>3 DEF OnlyMoves, Has
    <3>5. QED
        BY <1>1, <1>3, <2>1, <3>1, <3>2, <3>3, <3>4, SubMoves
  <2>5. QED
      BY <2>1, <2>3, <2>4
<1>9. QED
    BY <1>5, <1>6, <1>7, <1>8

LEMMA SlotBooksStep ==
    ASSUME Actors, SlotBooks, [SlotsNext]_slotVars
    PROVE  SlotBooks'
<1>1. CASE UNCHANGED slotVars
  <2>1. /\ gates' = gates /\ held' = held /\ closed' = closed /\ pc' = pc /\ late' = late
        /\ parent' = parent /\ sub' = sub
      BY <1>1 DEF slotVars
  <2>2. Typed' /\ \A g \in Names : Holders(g)' = Holders(g)
      BY <2>1 DEF SlotBooks, Typed, Holders
  <2>3. ASSUME NEW t \in Turns PROVE Fit(t)'
      BY <2>1 DEF SlotBooks, Fit, Waits
  <2>4. QED
      BY <2>1, <2>2, <2>3 DEF SlotBooks
<1>2. ASSUME NEW t \in Turns, Dispatch(t) \/ PersonAnswers(t) PROVE SlotBooks'
  <2>1. CASE Dispatch(t)
    <3>1. /\ pc[t] \in {"idle", "person"} /\ "entering" \in {"entering", "retaking"}
          /\ gates' = TakeSlots(gates, held[t], t).gates
          /\ held' = [held EXCEPT ![t] = TakeSlots(gates, held[t], t).held]
          /\ pc' = [pc EXCEPT ![t] = IF TakeSlots(gates, held[t], t).done THEN "running" ELSE "entering"]
          /\ UNCHANGED <<closed, late, parent, sub>>
        BY <2>1 DEF Dispatch
    <3>2. QED
        BY <3>1, TakesSlots
  <2>2. CASE PersonAnswers(t)
    <3>1. /\ pc[t] \in {"idle", "person"} /\ "retaking" \in {"entering", "retaking"}
          /\ gates' = TakeSlots(gates, held[t], t).gates
          /\ held' = [held EXCEPT ![t] = TakeSlots(gates, held[t], t).held]
          /\ pc' = [pc EXCEPT ![t] = IF TakeSlots(gates, held[t], t).done THEN "running" ELSE "retaking"]
          /\ UNCHANGED <<closed, late, parent, sub>>
        BY <2>2 DEF PersonAnswers
    <3>2. QED
        BY <3>1, TakesSlots
  <2>3. QED
      BY <1>2, <2>1, <2>2
<1>3. ASSUME NEW t \in Turns, NEW g \in GateNames, SlotGranted(t, g) \/ LateGranted(t, g)
      PROVE  SlotBooks'
  <2>1. g \in Names
      BY DEF GateNames, Names
  <2>2. QED
      BY <1>3, <2>1, GrantKeepsBooks
<1>4. ASSUME NEW t \in Turns,
             AskPerson(t) \/ Finish(t) \/ Cancel(t) \/ EndUnderWait(t)
      PROVE  SlotBooks'
    BY <1>4, ReleaseKeepsBooks
<1>5. ASSUME NEW t \in Turns,
             LateAnswer(t) \/ AwaitChildren(t) \/ GiveUpOnChildren(t)
      PROVE  SlotBooks'
    BY <1>5, WaitKeepsBooks
<1>6. ASSUME NEW s \in Subagents,
             \/ \E t \in Turns : Spawn(t, s)
             \/ SubGranted(s) \/ SubDone(s) \/ SubCancel(s)
      PROVE  SlotBooks'
    BY <1>6, SubKeepsBooks
<1>7. QED
  <2>1. CASE SlotsNext
      BY <2>1, <1>2, <1>3, <1>4, <1>5, <1>6 DEF SlotsNext
  <2>2. QED
      BY <1>1, <2>1

\* The books say what SlotsConsistent does.
LEMMA SlotBooksAgree ==
    ASSUME Actors, SlotBooks
    PROVE  SlotsConsistent
<1>1. /\ Typed /\ TwoGates(gates) /\ "lane" \in Names /\ "ceiling" \in Names
      /\ Waiters(gates["lane"]) \subseteq Turns /\ Waiters(gates["ceiling"]) \subseteq Turns \cup Subagents
    BY DEF SlotBooks, Names
<1>2. ASSUME NEW g \in Names
      PROVE  /\ gates[g] \in SlotGate /\ gates[g].limit = Cap(g)
             /\ gates[g].value + Cardinality(gates[g].granted) + gates[g].active = Cap(g)
             /\ Waiters(gates[g]) = Elems(gates[g].queue) \cup gates[g].granted
  <2> DEFINE x == gates[g]
  <2>1. /\ Sound(x) /\ x.flushed = {} /\ x.limit = Cap(g)
        /\ x.value + Cardinality(x.granted) + x.active = Cap(g)
        /\ Waiters(x) = Elems(x.queue) \cup x.granted
      BY <1>1, TwoGatesIs DEF Capped
  <2>2. Waiters(x) \subseteq Turns \cup Subagents
      BY <1>1 DEF Names
  <2> HIDE DEF x
  <2>3. x.queue \in Seq(Users)
    <3>1. x.queue \in Seq(Tasks) /\ Len(x.queue) \in Nat
        BY <2>1, GateFields
    <3>2. ASSUME NEW i \in 1..Len(x.queue) PROVE x.queue[i] \in Users
        BY <2>1, <2>2 DEF Elems, Users
    <3>3. x.queue = [i \in 1..Len(x.queue) |-> x.queue[i]]
        BY <3>1
    <3>4. QED
        BY <3>1, <3>2, <3>3
  <2>4. x.granted \in SUBSET Users /\ x.flushed \in SUBSET Users
      BY <2>1, <2>2 DEF Users
  <2>5. x \in SlotGate
    <3>1. x \in GateType
        BY <2>1 DEF Sound
    <3>2. QED
        BY <2>3, <2>4, <3>1 DEF GateType, SlotGate
  <2>6. QED
      BY <2>1, <2>5 DEF x
<1>3. SlotsTypeOK
  <2>1. gates \in [lane : SlotGate, ceiling : SlotGate]
    <3>1. /\ gates["lane"] \in SlotGate /\ gates["ceiling"] \in SlotGate
          /\ gates = [g \in {"lane", "ceiling"} |-> gates[g]]
        BY <1>1, <1>2 DEF TwoGates, Names
    <3> HIDE DEF SlotGate
    <3>2. QED
        BY <3>1
  <2>2. QED
      BY <1>1, <2>1 DEF SlotsTypeOK, Typed, Pcs, GateNames, Names
<1>4. SlotsConserved
  <2>1. \A S : Cardinality(S) = Cardinality(S)
      BY DEF Cardinality, Cardinality
  <2>2. QED
      BY <1>2, <2>1 DEF SlotsConserved, SlotBooks, GateNames, Names
<1>5. OverMeansGivenBack
  <2> SUFFICES ASSUME NEW t \in closed
               PROVE  held[t] = {} /\ (InQueue(t) => late[t] = "retaking")
      BY DEF OverMeansGivenBack
  <2>1. t \in Turns /\ Fit(t) /\ pc[t] = "over" /\ held[t] = {}
      BY <1>1 DEF SlotBooks, Typed, Fit
  <2>2. InQueue(t) => t \in Waiters(gates["lane"]) \/ t \in Waiters(gates["ceiling"])
      BY <1>1, <1>2 DEF InQueue, GateNames
  <2>3. QED
      BY <2>1, <2>2 DEF Fit, Waits
<1>6. WorksWithBothSlots
    BY DEF WorksWithBothSlots, SlotBooks, Fit, Both, GateNames, Names
<1>7. QED
    BY <1>3, <1>4, <1>5, <1>6 DEF SlotsConsistent

\* Turns and sub-agents over the lane and the ceiling: no slot is given back twice and
\* none is lost, a turn that is over holds nothing, and one at work holds both, for
\* any caps, turns and sub-agents (turn_slots.py).
THEOREM SlotsAgree ==
    ASSUME Actors
    PROVE  SlotsSpec => []SlotsConsistent
<1>1. SlotsInit => SlotBooks
    BY SlotBooksInit
<1>2. SlotBooks /\ [SlotsNext]_slotVars => SlotBooks'
    BY SlotBooksStep
<1>3. SlotBooks => SlotsConsistent
    BY SlotBooksAgree
<1>4. QED
    BY <1>1, <1>2, <1>3, PTL DEF SlotsSpec
=============================================================================
