------------------------- MODULE CronServiceProofs -------------------------
(***************************************************************************)
(* What holds of the cron scheduler (CronService) for every set of jobs,    *)
(* schedules and schedulers, any clock and any number of deaths: the store, *)
(* its tasks and the pool agree (StoreAgrees), an occurrence is taken up    *)
(* once (OccurrenceFiresOnce) and stays on the books (OwedStaysOnTheBooks), *)
(* and the owner's last word on a job holds (OwnersWordHolds).              *)
(*                                                                         *)
(* What the store is, is a recursion over the action log.  It is reasoned  *)
(* about by the two facts MergeEmpty and MergeAppend, which come from an    *)
(* induction over the naturals put as a fact about sets (NatSet).           *)
(***************************************************************************)
EXTENDS CronService, SequenceTheorems, FiniteSetTheorems, WellFoundedInduction, TLAPS

USE DEF None

---------------------------------------------------------------------------
(* Induction over the naturals, without a predicate as a parameter         *)

LEMMA LessIsWellFounded == IsWellFoundedOn({r \in Nat \X Nat : r[1] < r[2]}, Nat)
BY NatLessThanWellFounded, Zenon DEF OpToRel

\* A set that has 0, and with n also n + 1, has every natural number.
LEMMA NatSet ==
    ASSUME NEW S, 0 \in S, \A n \in Nat : n \in S => n + 1 \in S
    PROVE  Nat \subseteq S
<1> DEFINE T == Nat \ S
           R == {r \in Nat \X Nat : r[1] < r[2]}
<1> SUFFICES ASSUME T # {} PROVE FALSE
    OBVIOUS
<1>1. T \subseteq Nat
    OBVIOUS
<1>2. IsWellFoundedOn(R, Nat)
    BY LessIsWellFounded
<1> HIDE DEF R
<1>3. PICK x \in T : \A y \in T : ~(<<y, x>> \in R)
    BY <1>1, <1>2, WFMin, Zenon
<1>4. x \in Nat /\ x # 0
    OBVIOUS
<1>5. x - 1 \in Nat /\ x = (x - 1) + 1
    BY <1>4
<1>6. x - 1 \in T
    BY <1>5
<1>7. <<x - 1, x>> \in R
    BY <1>4, <1>5 DEF R
<1> QED
    BY <1>3, <1>6, <1>7

---------------------------------------------------------------------------
(* The merge of the action log                                             *)

\* m is what _merge_action has after each of the edits.
Merges(m, d, es) ==
    m = [n \in 0..Len(es) |-> IF n = 0 THEN d ELSE Edited(m[n - 1], es[n])]

\* Two merges of the same edits into the same jobs agree at every edit that both have.
LEMMA MergesAgree ==
    ASSUME NEW d, NEW es, NEW fs, NEW m, NEW q, Len(es) \in Nat, Len(fs) \in Nat,
           Merges(m, d, es), Merges(q, d, fs), Len(es) <= Len(fs),
           \A n \in 1..Len(es) : es[n] = fs[n]
    PROVE  \A n \in 0..Len(es) : m[n] = q[n]
<1> DEFINE S == {n \in Nat : n <= Len(es) => m[n] = q[n]}
<1>1. 0 \in S
    BY DEF Merges
<1>2. ASSUME NEW n \in Nat, n \in S PROVE n + 1 \in S
    <2>1. CASE n + 1 <= Len(es)
        <3>1. m[n] = q[n]
            BY <1>2, <2>1
        <3>2. n + 1 \in 1..Len(es) /\ n + 1 \in 0..Len(es) /\ n + 1 \in 0..Len(fs) /\ (n + 1) - 1 = n /\ n + 1 # 0
            BY <2>1
        <3>3. m[n + 1] = Edited(m[n], es[n + 1]) /\ q[n + 1] = Edited(q[n], fs[n + 1])
            BY <3>2 DEF Merges
        <3> QED
            BY <3>1, <3>2, <3>3
    <2>2. CASE ~(n + 1 <= Len(es))
        BY <2>2
    <2> QED
        BY <2>1, <2>2
<1>3. Nat \subseteq S
    <2> HIDE DEF S
    <2> QED
        BY <1>1, <1>2, NatSet
<1> QED
    BY <1>3

LEMMA MergeExists ==
    ASSUME NEW d, NEW es, Len(es) \in Nat
    PROVE  \E m : Merges(m, d, es)
<1> DEFINE At(m, k) == m = [n \in 0..k |-> IF n = 0 THEN d ELSE Edited(m[n - 1], es[n])]
           S == {k \in Nat : \E m : At(m, k)}
<1>1. 0 \in S
    <2> DEFINE m == [n \in 0..0 |-> d]
    <2>1. At(m, 0)
        OBVIOUS
    <2> QED
        BY <2>1
<1>2. ASSUME NEW k \in Nat, k \in S PROVE k + 1 \in S
    <2>1. PICK m : At(m, k)
        BY <1>2
    <2> DEFINE q == [n \in 0..(k + 1) |-> IF n = k + 1 THEN Edited(m[k], es[k + 1]) ELSE m[n]]
    <2>2. \A n \in 0..(k + 1) : q[n] = IF n = 0 THEN d ELSE Edited(q[n - 1], es[n])
        <3> TAKE n \in 0..(k + 1)
        <3>1. CASE n = 0
            BY <2>1, <3>1
        <3>2. CASE n # 0 /\ n # k + 1
            <4>1. n \in 0..k /\ n - 1 \in 0..k /\ n - 1 \in 0..(k + 1) /\ n - 1 # k + 1
                BY <3>2
            <4>2. m[n] = Edited(m[n - 1], es[n])
                BY <2>1, <3>2, <4>1
            <4>3. q[n] = m[n] /\ q[n - 1] = m[n - 1]
                BY <3>2, <4>1
            <4> QED
                BY <3>2, <4>2, <4>3
        <3>3. CASE n = k + 1
            <4>1. k \in 0..(k + 1) /\ n - 1 = k /\ k # k + 1 /\ n # 0
                BY <3>3
            <4>2. q[k] = m[k] /\ q[n] = Edited(m[k], es[k + 1])
                BY <3>3, <4>1
            <4> QED
                BY <3>3, <4>1, <4>2
        <3> QED
            BY <3>1, <3>2, <3>3
    <2>3. At(q, k + 1)
        <3> HIDE DEF q
        <3>1. q = [n \in 0..(k + 1) |-> q[n]]
            BY DEF q
        <3> QED
            BY <2>2, <3>1
    <2> HIDE DEF q
    <2>4. k + 1 \in Nat
        OBVIOUS
    <2> QED
        BY <2>3, <2>4
<1>3. Nat \subseteq S
    <2> HIDE DEF S
    <2> QED
        BY <1>1, <1>2, NatSet
<1> QED
    BY <1>3 DEF Merges

\* The recursion of Merge is well-founded: its value is that of the merge there is.
LEMMA MergeIs ==
    ASSUME NEW d, NEW es, Len(es) \in Nat
    PROVE  \E m : Merges(m, d, es) /\ Merge(d, es) = m[Len(es)]
<1> DEFINE c == CHOOSE m : Merges(m, d, es)
<1>1. Merges(c, d, es)
    BY MergeExists
<1>2. Merge(d, es) = c[Len(es)]
    BY DEF Merge, Merges
<1> QED
    BY <1>1, <1>2
LEMMA MergeEmpty == ASSUME NEW d PROVE Merge(d, <<>>) = d
<1>1. Len(<<>>) \in Nat /\ Len(<<>>) = 0
    OBVIOUS
<1>2. PICK m : Merges(m, d, <<>>) /\ Merge(d, <<>>) = m[Len(<<>>)]
    BY <1>1, MergeIs
<1>3. m[0] = d
    BY <1>1, <1>2 DEF Merges
<1> QED
    BY <1>1, <1>2, <1>3

LEMMA MergeAppend ==
    ASSUME NEW d, NEW X, NEW es \in Seq(X), NEW a \in X
    PROVE  Merge(d, Append(es, a)) = Edited(Merge(d, es), a)
<1> DEFINE fs == Append(es, a)
<1>1. /\ Len(es) \in Nat /\ Len(fs) = Len(es) + 1 /\ fs[Len(es) + 1] = a
      /\ \A n \in 1..Len(es) : es[n] = fs[n]
    OBVIOUS
<1> HIDE DEF fs
<1>2. PICK m : Merges(m, d, es) /\ Merge(d, es) = m[Len(es)]
    BY <1>1, MergeIs
<1>3. Len(fs) \in Nat /\ Len(es) <= Len(fs)
    BY <1>1
<1>4. PICK q : Merges(q, d, fs) /\ Merge(d, fs) = q[Len(fs)]
    BY <1>3, MergeIs
<1>5. \A n \in 0..Len(es) : m[n] = q[n]
    BY <1>1, <1>2, <1>3, <1>4, MergesAgree
<1>6. m[Len(es)] = q[Len(es)]
    BY <1>1, <1>5
<1>7. Len(fs) \in 0..Len(fs) /\ Len(fs) # 0 /\ Len(fs) - 1 = Len(es)
    BY <1>1
<1>8. q[Len(fs)] = Edited(q[Len(fs) - 1], fs[Len(fs)])
    BY <1>4, <1>7 DEF Merges
<1>9. Merge(d, fs) = Edited(Merge(d, es), a)
    BY <1>1, <1>2, <1>4, <1>6, <1>7, <1>8
<1> QED
    BY <1>9 DEF fs

---------------------------------------------------------------------------
(* The tasks that a death leaves                                           *)

\* Of the first n tasks those of others, in their order.
Others(left, ts, p, k) ==
    left = [n \in 0..k |->
              IF n = 0 THEN <<>>
              ELSE IF ts[n].by = p THEN left[n - 1] ELSE Append(left[n - 1], ts[n])]

LEMMA OthersExist ==
    ASSUME NEW ts, NEW p, NEW len \in Nat
    PROVE  \E left : Others(left, ts, p, len)
<1> DEFINE S == {k \in Nat : \E left : Others(left, ts, p, k)}
<1>1. 0 \in S
    <2> DEFINE m == [n \in 0..0 |-> <<>>]
    <2>1. Others(m, ts, p, 0)
        BY DEF Others
    <2> QED
        BY <2>1
<1>2. ASSUME NEW k \in Nat, k \in S PROVE k + 1 \in S
    <2>1. PICK m : Others(m, ts, p, k)
        BY <1>2
    <2> DEFINE last == IF ts[k + 1].by = p THEN m[k] ELSE Append(m[k], ts[k + 1])
               q == [n \in 0..(k + 1) |-> IF n = k + 1 THEN last ELSE m[n]]
    <2>2. \A n \in 0..(k + 1) : q[n] = IF n = 0 THEN <<>>
                ELSE IF ts[n].by = p THEN q[n - 1] ELSE Append(q[n - 1], ts[n])
        <3> TAKE n \in 0..(k + 1)
        <3>1. CASE n = 0
            BY <2>1, <3>1 DEF Others
        <3>2. CASE n # 0 /\ n # k + 1
            <4>1. n \in 0..k /\ n - 1 \in 0..k /\ n - 1 \in 0..(k + 1) /\ n - 1 # k + 1
                BY <3>2
            <4>2. m[n] = IF ts[n].by = p THEN m[n - 1] ELSE Append(m[n - 1], ts[n])
                BY <2>1, <3>2, <4>1 DEF Others
            <4>3. q[n] = m[n] /\ q[n - 1] = m[n - 1]
                BY <3>2, <4>1
            <4> HIDE DEF q
            <4> QED
                BY <3>2, <4>2, <4>3
        <3>3. CASE n = k + 1
            <4>1. k \in 0..(k + 1) /\ n - 1 = k /\ k # k + 1 /\ n # 0
                BY <3>3
            <4>2. q[k] = m[k] /\ q[n] = last
                BY <3>3, <4>1
            <4> HIDE DEF q
            <4> QED
                BY <3>3, <4>1, <4>2
        <3> QED
            BY <3>1, <3>2, <3>3
    <2>3. Others(q, ts, p, k + 1)
        <3> HIDE DEF q
        <3>1. q = [n \in 0..(k + 1) |-> q[n]]
            BY DEF q
        <3> QED
            BY <2>2, <3>1 DEF Others
    <2> HIDE DEF q
    <2>4. k + 1 \in Nat
        OBVIOUS
    <2> QED
        BY <2>3, <2>4
<1>3. Nat \subseteq S
    <2> HIDE DEF S
    <2> QED
        BY <1>1, <1>2, NatSet
<1> QED
    BY <1>3

\* left is made of some of the first n of ts, none of them of p, each taken once.
Taken(left, ts, p, n) ==
    \E g \in [1..Len(left) -> 1..n] :
        /\ \A k, l \in 1..Len(left) : g[k] = g[l] => k = l
        /\ \A k \in 1..Len(left) : left[k] = ts[g[k]] /\ ts[g[k]].by # p

\* What is left of the tasks when p dies: some of them, in places of their own.
LEMMA LeftOver ==
    ASSUME NEW X, tasks \in Seq(X), NEW p
    PROVE  LeftOf(p) \in Seq(X) /\ Taken(LeftOf(p), tasks, p, Len(tasks))
<1> DEFINE c == CHOOSE left : Others(left, tasks, p, Len(tasks))
           S == {n \in Nat : n <= Len(tasks) => c[n] \in Seq(X) /\ Taken(c[n], tasks, p, n)}
<1>0. Len(tasks) \in Nat /\ \A n \in 1..Len(tasks) : tasks[n] \in X
    OBVIOUS
<1>1. Others(c, tasks, p, Len(tasks))
    BY <1>0, OthersExist
<1>2. LeftOf(p) = c[Len(tasks)]
    BY DEF LeftOf, Others
<1> HIDE DEF c
<1>3. 0 \in S
    <2>1. c[0] = <<>>
        BY <1>0, <1>1 DEF Others
    <2>2. Len(c[0]) = 0 /\ c[0] \in Seq(X)
        BY <2>1
    <2> DEFINE g == [k \in 1..Len(c[0]) |-> k]
    <2>3. g \in [1..Len(c[0]) -> 1..0] /\ \A k \in 1..Len(c[0]) : FALSE
        BY <2>2
    <2>4. Taken(c[0], tasks, p, 0)
        BY <2>3 DEF Taken
    <2> QED
        BY <2>2, <2>4
<1>4. ASSUME NEW n \in Nat, n \in S PROVE n + 1 \in S
    <2> SUFFICES ASSUME n + 1 <= Len(tasks)
                 PROVE  c[n + 1] \in Seq(X) /\ Taken(c[n + 1], tasks, p, n + 1)
        OBVIOUS
    <2>1. /\ n + 1 \in 0..Len(tasks) /\ n + 1 \in 1..Len(tasks) /\ n + 1 # 0 /\ (n + 1) - 1 = n
          /\ n <= Len(tasks)
        BY <1>0
    <2>2. c[n] \in Seq(X) /\ Taken(c[n], tasks, p, n)
        BY <1>4, <2>1
    <2>3. PICK g \in [1..Len(c[n]) -> 1..n] :
            /\ \A k, l \in 1..Len(c[n]) : g[k] = g[l] => k = l
            /\ \A k \in 1..Len(c[n]) : c[n][k] = tasks[g[k]] /\ tasks[g[k]].by # p
        BY <2>2 DEF Taken
    <2>4. c[n + 1] = IF tasks[n + 1].by = p THEN c[n] ELSE Append(c[n], tasks[n + 1])
        BY <1>1, <2>1 DEF Others
    <2>5. CASE tasks[n + 1].by = p
        <3>1. c[n + 1] = c[n]
            BY <2>4, <2>5
        <3>2. g \in [1..Len(c[n]) -> 1..(n + 1)]
            BY <1>4
        <3>3. Taken(c[n], tasks, p, n + 1)
            BY <2>3, <3>2 DEF Taken
        <3> QED
            BY <2>2, <3>1, <3>3
    <2>6. CASE tasks[n + 1].by # p
        <3> DEFINE q == Append(c[n], tasks[n + 1])
                   h == [k \in 1..(Len(c[n]) + 1) |-> IF k = Len(c[n]) + 1 THEN n + 1 ELSE g[k]]
        <3>1. /\ c[n + 1] = q
              /\ q \in Seq(X) /\ Len(c[n]) \in Nat /\ Len(q) = Len(c[n]) + 1 /\ q[Len(c[n]) + 1] = tasks[n + 1]
              /\ \A k \in 1..Len(c[n]) : q[k] = c[n][k]
            BY <1>0, <2>1, <2>2, <2>4, <2>6
        <3> HIDE DEF q
        <3>2. \A k \in 1..(Len(c[n]) + 1) : k # Len(c[n]) + 1 => k \in 1..Len(c[n])
            BY <3>1
        <3>3. \A k \in 1..(Len(c[n]) + 1) : h[k] \in 1..(n + 1)
            <4>1. \A k \in 1..Len(c[n]) : g[k] \in 1..n
                BY <2>3
            <4>2. 1..n \subseteq 1..(n + 1) /\ n + 1 \in 1..(n + 1)
                BY <1>4
            <4> QED
                BY <3>2, <4>1, <4>2
        <3>4. h \in [1..Len(q) -> 1..(n + 1)]
            BY <3>1, <3>3
        <3>5. \A k, l \in 1..Len(q) : h[k] = h[l] => k = l
            <4>1. \A k \in 1..Len(c[n]) : g[k] \in 1..n /\ g[k] # n + 1
                BY <1>4
            <4>2. \A k \in 1..Len(q) :
                    \/ k = Len(c[n]) + 1 /\ h[k] = n + 1
                    \/ k \in 1..Len(c[n]) /\ h[k] = g[k] /\ h[k] # n + 1
                BY <3>1, <3>2, <4>1
            <4> HIDE DEF h
            <4> QED
                BY <2>3, <4>2
        <3>6. \A k \in 1..Len(q) : q[k] = tasks[h[k]] /\ tasks[h[k]].by # p
            BY <2>3, <2>6, <3>1, <3>2
        <3> HIDE DEF h
        <3>7. Taken(q, tasks, p, n + 1)
            BY <3>4, <3>5, <3>6 DEF Taken
        <3> QED
            BY <3>1, <3>7
    <2> QED
        BY <2>5, <2>6
<1>5. Nat \subseteq S
    <2> HIDE DEF S
    <2> QED
        BY <1>3, <1>4, NatSet
<1> QED
    BY <1>0, <1>2, <1>5
---------------------------------------------------------------------------
(* What the steps do to one job                                            *)

\* _compute_next_run: an interval's and a cron expression's next run is in the future.
LEMMA NextRunAhead ==
    ASSUME NEW s \in Schedules, NEW n \in Nat
    PROVE  /\ NextRun(s, n) \in Nat
           /\ s.kind = "at" => NextRun(s, n) \in {None, s.t} /\ (NextRun(s, n) # None => n < NextRun(s, n))
           /\ s.kind # "at" => n < NextRun(s, n)
<1>1. s.kind \in {"at", "every", "cron"} /\ s.t \in Nat /\ s.t # 0
    BY SchedulesAssumption
<1>2. CASE s.kind = "at"
    <2>1. NextRun(s, n) = IF s.t > n THEN s.t ELSE None
        BY <1>2 DEF NextRun
    <2> QED
        BY <1>1, <1>2, <2>1
<1>3. CASE s.kind = "every"
    <2>1. NextRun(s, n) = n + s.t
        BY <1>3 DEF NextRun
    <2> QED
        BY <1>1, <1>3, <2>1
<1>4. CASE s.kind = "cron"
    <2>1. NextRun(s, n) = (n \div s.t + 1) * s.t
        BY <1>4 DEF NextRun
    <2>2. (n \div s.t + 1) * s.t \in Nat /\ n < (n \div s.t + 1) * s.t
        <3> DEFINE t == s.t
        <3> SUFFICES (n \div t + 1) * t \in Nat /\ n < (n \div t + 1) * t
            OBVIOUS
        <3>1. t \in Nat /\ t > 0
            BY <1>1
        <3> HIDE DEF t
        <3>2. n \div t \in Nat /\ n % t \in Nat /\ n % t < t
            BY <3>1
        <3>3. n = t * (n \div t) + (n % t)
            BY <3>1
        <3> DEFINE q == n \div t
        <3>4. (q + 1) * t = t * q + t
            BY <3>1, <3>2
        <3>5. t * q \in Nat
            BY <3>1, <3>2
        <3> HIDE DEF q
        <3> QED
            BY <3>1, <3>2, <3>3, <3>4, <3>5 DEF q
    <2> QED
        BY <1>4, <2>1, <2>2
<1> QED
    BY <1>1, <1>2, <1>3, <1>4

\* A job that is taken up is off, or its next run is in the future.
LEMMA AdvancedIs ==
    ASSUME NEW job \in Job, now \in Times
    PROVE  /\ Advanced(job) \in Job
           /\ Advanced(job).sched = job.sched /\ Advanced(job).once = job.once
           /\ job.sched.kind = "at" => ~Advanced(job).on /\ Advanced(job).next = None
           /\ job.sched.kind # "at" => Advanced(job).on = job.on /\ now < Advanced(job).next
<1>1. now \in Nat /\ job.sched \in Schedules
    BY BoundAssumption DEF Times, Job
<1>2. NextRun(job.sched, now) \in Nat /\ (job.sched.kind # "at" => now < NextRun(job.sched, now))
    BY <1>1, NextRunAhead
<1>3. CASE job.sched.kind = "at"
    BY <1>3 DEF Advanced, Job
<1>4. CASE job.sched.kind # "at"
    BY <1>2, <1>4 DEF Advanced, Job
<1> QED
    BY <1>3, <1>4

\* A start records the run that a job missed, or leaves what is due to the next tick.
LEMMA SettledIs ==
    ASSUME NEW job \in Job, now \in Times
    PROVE  /\ Settled(job) \in Job /\ Settled(job).sched = job.sched
           /\ job.hist \subseteq Settled(job).hist
           /\ Settled(job).on => job.on
           /\ job.on /\ job.sched.kind = "at" =>
                IF Late(job) THEN <<"skipped", job.sched.t>> \in Settled(job).hist /\ Settled(job).next = None
                             ELSE Settled(job).on /\ Settled(job).next = job.sched.t
           /\ job.on /\ job.sched.kind # "at" =>
                /\ Settled(job).on
                /\ \/ now < job.next /\ Settled(job).next = job.next
                   \/ /\ ~(job.next # None /\ now < job.next) /\ now < Settled(job).next
                      /\ job.next # None => <<"skipped", job.next>> \in Settled(job).hist
<1>1. now \in Nat /\ job.sched \in Schedules /\ job.next \in Nat /\ job.on \in BOOLEAN /\ MaxTime \in Nat
    BY BoundAssumption DEF Times, Job
<1>2. NextRun(job.sched, now) \in Nat /\ (job.sched.kind # "at" => now < NextRun(job.sched, now))
    BY <1>1, NextRunAhead
<1>3. job.sched.t \in Nat /\ job.sched.t # 0 /\ Grace \in Nat
    BY <1>1, SchedulesAssumption, ServicesAssumption
<1>4. CASE ~job.on
    BY <1>4 DEF Settled
<1>5. CASE job.on /\ job.sched.kind = "at" /\ Late(job)
    <2>1. job.sched.t \in Times
        BY <1>1, <1>3, <1>5 DEF Late, Times
    <2>2. Settled(job) = [job EXCEPT !.on = FALSE, !.next = None, !.hist = @ \cup {<<"skipped", job.sched.t>>}]
        BY <1>5 DEF Settled
    <2> DEFINE hist == job.hist \cup {<<"skipped", job.sched.t>>}
    <2>3. hist \in SUBSET ({"ran", "skipped"} \X (Times \cup {None}))
        BY <2>1 DEF Job
    <2>4. job.hist \subseteq hist /\ <<"skipped", job.sched.t>> \in hist
        OBVIOUS
    <2>5. Settled(job) = [job EXCEPT !.on = FALSE, !.next = None, !.hist = hist]
        BY <2>2
    <2> HIDE DEF hist
    <2>6. Settled(job) = [on |-> FALSE, sched |-> job.sched, once |-> job.once, next |-> None, hist |-> hist]
        BY <2>5 DEF Job
    <2>7. Settled(job) \in Job
        BY <1>1, <2>3, <2>6 DEF Job
    <2> QED
        BY <1>5, <2>4, <2>6, <2>7
<1>6. CASE job.on /\ job.sched.kind = "at" /\ ~Late(job)
    <2>1. Settled(job) = [job EXCEPT !.next = job.sched.t]
        BY <1>6 DEF Settled
    <2> QED
        BY <1>3, <1>6, <2>1 DEF Job
<1>7. CASE job.on /\ job.sched.kind # "at" /\ job.next # None /\ job.next > now
    <2>1. Settled(job) = job
        BY <1>7 DEF Settled
    <2> QED
        BY <1>1, <1>7, <2>1
<1>8. CASE job.on /\ job.sched.kind # "at" /\ ~(job.next # None /\ job.next > now)
    <2> DEFINE hist == IF job.next = None THEN job.hist ELSE job.hist \cup {<<"skipped", job.next>>}
    <2>1. Settled(job) = [job EXCEPT !.next = NextRun(job.sched, now), !.hist = hist]
        BY <1>8 DEF Settled
    <2>2. job.next # None => job.next \in Times
        BY <1>1, <1>8 DEF Times
    <2>3. hist \in SUBSET ({"ran", "skipped"} \X (Times \cup {None}))
        BY <2>2 DEF Job
    <2>4. job.hist \subseteq hist /\ (job.next # None => <<"skipped", job.next>> \in hist)
        OBVIOUS
    <2> HIDE DEF hist
    <2>5. Settled(job) \in Job /\ Settled(job).hist = hist /\ Settled(job).sched = job.sched
          /\ Settled(job).on = job.on /\ Settled(job).next = NextRun(job.sched, now)
        BY <1>2, <2>1, <2>3 DEF Job
    <2> QED
        BY <1>1, <1>2, <1>8, <2>4, <2>5
<1> QED
    BY <1>4, <1>5, <1>6, <1>7, <1>8
---------------------------------------------------------------------------
(* The base invariant                                                      *)

Entry ==
    [op : {"put"}, id : Jobs, job : Job] \cup [op : {"del"}, id : Jobs, job : {None}]

JobTask ==
    [by : Services, id : Jobs, snap : Job, due : Nat, pc : {"spawned", "waiting", "executing"}]

Word == [gone : BOOLEAN, off : BOOLEAN, sched : Schedules]

\* A store holds jobs.
Holds(d) == DOMAIN d \subseteq Jobs /\ \A j \in DOMAIN d : d[j] \in Job

Logged == {log[i].id : i \in DOMAIN log}

\* A job that no edit in the log is about is in jobs.json as it is in the store.
StoreOK ==
    /\ Holds(disk) /\ Holds(Store) /\ log \in Seq(Entry)
    /\ \A j \in Jobs \ Logged : Alike(disk, Store, j)

TasksOK ==
    /\ tasks \in Seq(JobTask)
    /\ \A i \in DOMAIN tasks : tasks[i].by \in up /\ tasks[i].due <= now
    /\ NoOverlap

\* What is in the store, the log and the tasks was given by the owner.
Given ==
    /\ DOMAIN wish \subseteq Jobs /\ \A j \in DOMAIN wish : wish[j] \in Word
    /\ DOMAIN disk \subseteq DOMAIN wish /\ DOMAIN Store \subseteq DOMAIN wish
    /\ Logged \subseteq DOMAIN wish
    /\ \A i \in DOMAIN tasks : tasks[i].id \in DOMAIN wish

BooksOK ==
    /\ now \in Times /\ up \subseteq Services
    /\ fired \in [Jobs -> [Times -> Nat]]
    /\ owed \subseteq Jobs \X Times /\ torn \subseteq Jobs /\ reverted \subseteq Jobs

\* What a look has read, and what the merge would make of it now, was given by the owner.
Sound(c) ==
    /\ Holds(c) /\ DOMAIN c \subseteq DOMAIN wish
    /\ Holds(Merge(c, log)) /\ DOMAIN Merge(c, log) \subseteq DOMAIN wish

ReadOK == DOMAIN reading \subseteq up /\ \A p \in DOMAIN reading : Sound(reading[p])

Base == StoreOK /\ TasksOK /\ Given /\ BooksOK /\ ReadOK

LEMMA BaseConsistent == Base => CronConsistent
<1> SUFFICES ASSUME Base PROVE CronConsistent
    OBVIOUS
<1>1. now \in Nat
    BY BoundAssumption DEF Base, BooksOK, Times
<1>2. \A i \in DOMAIN log : log[i] \in Entry
    BY DEF Base, StoreOK
<1>3. \A i \in DOMAIN log : log[i].id \in Jobs /\ (log[i].op = "put" => log[i].job \in Job)
    BY <1>2 DEF Entry
<1>4. \A i \in DOMAIN tasks : tasks[i] \in JobTask
    BY DEF Base, TasksOK
<1>5. \A i \in DOMAIN tasks :
        /\ tasks[i].id \in Jobs /\ tasks[i].snap \in Job /\ tasks[i].due \in Nat
        /\ tasks[i].pc \in {"spawned", "waiting", "executing"}
    BY <1>4 DEF JobTask
<1>6. \A i \in DOMAIN tasks : tasks[i].by \in up /\ tasks[i].due \in 0..now
    BY <1>1, <1>5 DEF Base, TasksOK
<1>7. \A p \in DOMAIN reading : \A j \in DOMAIN reading[p] : j \in Jobs /\ reading[p][j] \in Job
    BY DEF Base, ReadOK, Sound, Holds
<1>8. TypeOK
    BY <1>3, <1>5, <1>6, <1>7 DEF TypeOK, Base, StoreOK, Holds, BooksOK, ReadOK
<1> QED
    BY <1>8 DEF CronConsistent, Base, TasksOK

LEMMA InitBase == Init => Base
<1> SUFFICES ASSUME Init PROVE Base
    OBVIOUS
<1>1. Store = <<>> /\ DOMAIN <<>> = {} /\ Logged = {}
    BY MergeEmpty DEF Init, Store, Logged
<1>2. StoreOK
    BY <1>1 DEF Init, StoreOK, Holds, Alike
<1>3. TasksOK
    BY DEF Init, TasksOK, NoOverlap, Mine
<1>4. Given
    BY <1>1 DEF Init, Given
<1>5. BooksOK
    BY BoundAssumption DEF Init, BooksOK, Times
<1>6. ReadOK
    <2>1. DOMAIN reading = {}
        BY DEF Init
    <2> QED
        BY <2>1 DEF ReadOK
<1> QED
    BY <1>2, <1>3, <1>4, <1>5, <1>6 DEF Base

---------------------------------------------------------------------------
(* What the steps do to the store                                          *)

\* Saving makes the store what is saved, and clears the log.
LEMMA Saved ==
    ASSUME NEW d, Holds(d), Save(d)
    PROVE  Store' = d /\ disk' = d /\ log' = <<>> /\ Logged' = {} /\ StoreOK'
<1>1. disk' = d /\ log' = <<>>
    BY DEF Save
<1>2. Store' = d
    BY <1>1, MergeEmpty DEF Store
<1>3. Logged' = {}
    BY <1>1 DEF Logged
<1>4. Holds(disk') /\ Holds(Store') /\ log' \in Seq(Entry)
    BY <1>1, <1>2
<1>5. \A j \in Jobs : Alike(disk', Store', j)
    BY <1>1, <1>2 DEF Alike
<1>6. StoreOK'
    BY <1>4, <1>5 DEF StoreOK, Holds, Alike
<1> QED
    BY <1>1, <1>2, <1>3, <1>6

LEMMA StoreSame ==
    ASSUME StoreOK, UNCHANGED <<disk, log>>
    PROVE  Store' = Store /\ Logged' = Logged /\ StoreOK'
<1>1. Store' = Store /\ Logged' = Logged
    BY DEF Store, Logged
<1> QED
    BY <1>1 DEF StoreOK, Holds, Alike

\* An edit touches the job it is about and no other.
LEMMA EditedIs ==
    ASSUME NEW d, Holds(d), NEW a \in Entry
    PROVE  /\ Holds(Edited(d, a))
           /\ \A j \in Jobs \ {a.id} : Alike(d, Edited(d, a), j)
           /\ a.op = "del" => DOMAIN Edited(d, a) = DOMAIN d \ {a.id}
           /\ a.op = "put" => DOMAIN Edited(d, a) = DOMAIN d \cup {a.id} /\ Edited(d, a)[a.id] = a.job
<1>1. CASE a.op = "del"
    <2>1. Edited(d, a) = [i \in DOMAIN d \ {a.id} |-> d[i]]
        BY <1>1 DEF Edited, Without
    <2> QED
        BY <1>1, <2>1 DEF Holds, Alike
<1>2. CASE a.op = "put"
    <2>1. Edited(d, a) = [i \in DOMAIN d \cup {a.id} |-> IF i = a.id THEN a.job ELSE d[i]]
        BY <1>2 DEF Edited, With
    <2>2. a.id \in Jobs /\ a.job \in Job
        BY <1>2 DEF Entry
    <2> QED
        BY <1>2, <2>1, <2>2 DEF Holds, Alike
<1>3. a.op \in {"put", "del"}
    BY DEF Entry
<1> QED
    BY <1>1, <1>2, <1>3

\* Whether an edit goes to the log or to the store, the store is the edited one.
LEMMA WrittenIs ==
    ASSUME StoreOK, NEW a \in Entry, Written(a)
    PROVE  Store' = Edited(Store, a) /\ StoreOK' /\ Logged' \subseteq Logged \cup {a.id}
           /\ DOMAIN disk' \subseteq DOMAIN disk \cup DOMAIN Store \cup {a.id}
<1>0. Holds(Store) /\ Holds(disk) /\ log \in Seq(Entry)
    BY DEF StoreOK
<1>1. /\ Holds(Edited(Store, a)) /\ \A j \in Jobs \ {a.id} : Alike(Store, Edited(Store, a), j)
      /\ DOMAIN Edited(Store, a) \subseteq DOMAIN Store \cup {a.id}
    <2>1. a.op \in {"put", "del"}
        BY DEF Entry
    <2> DEFINE d == Store
    <2>2. Holds(d)
        BY <1>0
    <2> HIDE DEF d
    <2> SUFFICES /\ Holds(Edited(d, a)) /\ \A j \in Jobs \ {a.id} : Alike(d, Edited(d, a), j)
                 /\ DOMAIN Edited(d, a) \subseteq DOMAIN d \cup {a.id}
        BY DEF d
    <2>3. /\ Holds(Edited(d, a)) /\ \A j \in Jobs \ {a.id} : Alike(d, Edited(d, a), j)
          /\ a.op = "del" => DOMAIN Edited(d, a) = DOMAIN d \ {a.id}
          /\ a.op = "put" => DOMAIN Edited(d, a) = DOMAIN d \cup {a.id}
        BY <2>2, EditedIs
    <2> QED
        BY <2>1, <2>3
<1>2. CASE log' = Append(log, a) /\ UNCHANGED disk
    <2>1. Store' = Edited(Store, a)
        BY <1>0, <1>2, MergeAppend DEF Store
    <2>2. /\ log' \in Seq(Entry) /\ DOMAIN log' = 1..(Len(log) + 1) /\ Len(log) \in Nat
          /\ log'[Len(log) + 1] = a /\ \A i \in 1..Len(log) : log'[i] = log[i]
          /\ DOMAIN log = 1..Len(log)
        BY <1>0, <1>2
    <2>3. Logged' = Logged \cup {a.id}
        <3>1. \A i \in DOMAIN log' : i \in DOMAIN log \/ log'[i] = a
            BY <2>2
        <3>2. \A i \in DOMAIN log : i \in DOMAIN log' /\ log'[i] = log[i]
            BY <2>2
        <3>3. Len(log) + 1 \in DOMAIN log'
            BY <2>2
        <3> QED
            BY <2>2, <3>1, <3>2, <3>3 DEF Logged
    <2>4. \A j \in Jobs \ Logged' : Alike(disk', Store', j)
        <3> TAKE j \in Jobs \ Logged'
        <3>1. j \in Jobs \ Logged /\ j \in Jobs \ {a.id}
            BY <2>3
        <3>2. Alike(disk, Store, j) /\ Alike(Store, Edited(Store, a), j)
            BY <1>1, <3>1 DEF StoreOK
        <3> QED
            BY <1>2, <2>1, <3>2 DEF Alike
    <2>5. Holds(disk') /\ Holds(Store')
        BY <1>0, <1>1, <1>2, <2>1
    <2>6. StoreOK'
        BY <2>2, <2>4, <2>5 DEF StoreOK, Holds, Alike
    <2> QED
        BY <1>2, <2>1, <2>3, <2>6
<1>3. CASE Save(Edited(Store, a))
    <2> DEFINE d == Edited(Store, a)
    <2>1. Holds(d) /\ Save(d) /\ DOMAIN d \subseteq DOMAIN Store \cup {a.id}
        BY <1>1, <1>3
    <2> HIDE DEF d
    <2>2. Store' = d /\ disk' = d /\ Logged' = {} /\ StoreOK'
        BY <2>1, Saved
    <2> QED
        BY <2>1, <2>2 DEF d
<1> QED
    BY <1>2, <1>3 DEF Written

\* Nothing is read that was not read before, and no word of the owner is lost.
ReadKept ==
    /\ DOMAIN reading' \subseteq DOMAIN reading /\ \A p \in DOMAIN reading' : reading'[p] = reading[p]
    /\ DOMAIN reading' \subseteq up' /\ DOMAIN wish \subseteq DOMAIN wish'

LEMMA ReadSame ==
    ASSUME ReadOK, ReadKept, log' = log
    PROVE  ReadOK'
<1>1. \A p \in DOMAIN reading' : Sound(reading[p]) /\ reading'[p] = reading[p]
    BY DEF ReadOK, ReadKept
<1>2. \A p \in DOMAIN reading' : Sound(reading[p])'
    BY <1>1 DEF Sound, ReadKept, Holds
<1> QED
    BY <1>2 DEF ReadOK, ReadKept

\* Once the log is cleared, a look that goes on leaves what it has read.
LEMMA ReadSaved ==
    ASSUME ReadOK, ReadKept, log' = <<>>
    PROVE  ReadOK'
<1>1. \A p \in DOMAIN reading' : Sound(reading[p]) /\ reading'[p] = reading[p]
    BY DEF ReadOK, ReadKept
<1>2. \A p \in DOMAIN reading' : Merge(reading[p], <<>>) = reading[p]
    BY MergeEmpty
<1>3. \A p \in DOMAIN reading' : Sound(reading[p])'
    BY <1>1, <1>2 DEF Sound, ReadKept, Holds
<1> QED
    BY <1>3 DEF ReadOK, ReadKept

LEMMA ReadWritten ==
    ASSUME ReadOK, StoreOK, NEW a \in Entry, Written(a), ReadKept, a.id \in DOMAIN wish'
    PROVE  ReadOK'
<1>1. CASE log' = <<>>
    BY <1>1, ReadSaved
<1>2. CASE log' = Append(log, a)
    <2>1. ASSUME NEW p \in DOMAIN reading' PROVE Sound(reading[p])'
        <3> DEFINE c == reading[p]
                   m == Merge(c, log)
        <3>1. /\ Holds(c) /\ DOMAIN c \subseteq DOMAIN wish' /\ reading'[p] = c
              /\ Holds(m) /\ DOMAIN m \subseteq DOMAIN wish'
            BY <2>1 DEF ReadOK, ReadKept, Sound
        <3>2. Merge(c, log') = Edited(m, a)
            BY <1>2, MergeAppend DEF StoreOK
        <3> HIDE DEF c, m
        <3>3. a.op \in {"put", "del"}
            BY DEF Entry
        <3>4. Holds(Edited(m, a)) /\ DOMAIN Edited(m, a) \subseteq DOMAIN m \cup {a.id}
            BY <3>1, <3>3, EditedIs
        <3>5. Holds(Merge(c, log')) /\ DOMAIN Merge(c, log') \subseteq DOMAIN wish'
            BY <3>1, <3>2, <3>4
        <3> QED
            BY <3>1, <3>5 DEF Sound, Holds, c
    <2> QED
        BY <2>1 DEF ReadOK, ReadKept
<1>3. log' = <<>> \/ log' = Append(log, a)
    BY DEF Written, Save
<1> QED
    BY <1>1, <1>2, <1>3
---------------------------------------------------------------------------
(* What the steps do to the tasks                                          *)

\* A task's like: of the same job, with the same copy of it.
OldTask(u) == \E i \in DOMAIN tasks : tasks[i].id = u.id /\ tasks[i].snap = u.snap

\* ts is made of some of the tasks, each once.
Fewer(ts) ==
    /\ ts \in Seq(JobTask)
    /\ \E g \in [1..Len(ts) -> 1..Len(tasks)] :
          /\ \A k, l \in 1..Len(ts) : g[k] = g[l] => k = l
          /\ \A k \in 1..Len(ts) : ts[k] = tasks[g[k]]

LEMMA FewerOK ==
    ASSUME TasksOK, Fewer(tasks'), now' = now,
           \A k \in DOMAIN tasks' : tasks'[k].by \in up'
    PROVE  TasksOK' /\ \A k \in DOMAIN tasks' : OldTask(tasks'[k])
<1>1. PICK g \in [1..Len(tasks') -> 1..Len(tasks)] :
        /\ \A k, l \in 1..Len(tasks') : g[k] = g[l] => k = l
        /\ \A k \in 1..Len(tasks') : tasks'[k] = tasks[g[k]]
    BY DEF Fewer
<1>2. DOMAIN tasks' = 1..Len(tasks') /\ DOMAIN tasks = 1..Len(tasks) /\ tasks' \in Seq(JobTask)
    BY DEF TasksOK, Fewer
<1>3. \A k \in DOMAIN tasks' : g[k] \in DOMAIN tasks /\ tasks'[k] = tasks[g[k]]
    BY <1>1, <1>2
<1>4. \A k \in DOMAIN tasks' : OldTask(tasks'[k])
    BY <1>3 DEF OldTask
<1>5. \A k \in DOMAIN tasks' : tasks'[k].due <= now'
    BY <1>3 DEF TasksOK
<1>6. NoOverlap'
    <2> SUFFICES ASSUME NEW p \in Services, NEW k \in Mine(p, "executing")', NEW l \in Mine(p, "executing")',
                        tasks'[k].id = tasks'[l].id
                 PROVE  k = l
        BY DEF NoOverlap
    <2>1. k \in DOMAIN tasks' /\ l \in DOMAIN tasks'
        BY DEF Mine
    <2>2. g[k] \in Mine(p, "executing") /\ g[l] \in Mine(p, "executing")
        BY <1>3, <2>1 DEF Mine
    <2>3. g[k] = g[l]
        BY <1>3, <2>1, <2>2 DEF TasksOK, NoOverlap
    <2> QED
        BY <1>1, <1>2, <2>1, <2>3
<1> QED
    BY <1>2, <1>4, <1>5, <1>6 DEF TasksOK

LEMMA DropIs ==
    ASSUME TasksOK, NEW i \in DOMAIN tasks
    PROVE  Fewer(Drop(i))
<1> DEFINE a == SubSeq(tasks, 1, i - 1)
           b == SubSeq(tasks, i + 1, Len(tasks))
           ts == a \o b
           g == [k \in 1..(Len(tasks) - 1) |-> IF k < i THEN k ELSE k + 1]
<1>1. tasks \in Seq(JobTask) /\ Len(tasks) \in Nat /\ DOMAIN tasks = 1..Len(tasks) /\ i \in 1..Len(tasks)
    BY DEF TasksOK
<1>2. /\ a \in Seq(JobTask) /\ Len(a) = i - 1 /\ \A k \in 1..(i - 1) : a[k] = tasks[k]
      /\ b \in Seq(JobTask) /\ Len(b) = Len(tasks) - i /\ \A k \in 1..(Len(tasks) - i) : b[k] = tasks[i + k]
    BY <1>1, SMTT(30)
<1> HIDE DEF a, b
<1>3. /\ ts \in Seq(JobTask) /\ Len(ts) = Len(tasks) - 1
      /\ \A k \in 1..Len(ts) : ts[k] = IF k < i THEN tasks[k] ELSE tasks[k + 1]
    <2>1. ts \in Seq(JobTask) /\ Len(ts) = Len(tasks) - 1
        <3>1. a \in Seq(JobTask) /\ b \in Seq(JobTask)
            BY <1>2
        <3>2. ts \in Seq(JobTask) /\ Len(ts) = Len(a) + Len(b)
            BY <3>1, ConcatProperties
        <3> HIDE DEF ts
        <3> QED
            BY <1>1, <1>2, <3>2
    <2>2. \A k \in 1..Len(ts) : ts[k] = IF k <= Len(a) THEN a[k] ELSE b[k - Len(a)]
        <3>1. a \in Seq(JobTask) /\ b \in Seq(JobTask)
            BY <1>2
        <3>2. \A k \in 1..(Len(a) + Len(b)) : (a \o b)[k] = IF k <= Len(a) THEN a[k] ELSE b[k - Len(a)]
            BY <3>1, ConcatProperties
        <3>3. Len(ts) = Len(a) + Len(b)
            BY <3>1, ConcatProperties
        <3> QED
            BY <3>2, <3>3
    <2>3. \A k \in 1..Len(ts) : ts[k] = IF k < i THEN tasks[k] ELSE tasks[k + 1]
        <3> TAKE k \in 1..Len(ts)
        <3>1. CASE k < i
            BY <1>1, <1>2, <2>1, <2>2, <3>1
        <3>2. CASE ~(k < i)
            <4>1. k - Len(a) \in 1..(Len(tasks) - i) /\ i + (k - Len(a)) = k + 1 /\ ~(k <= Len(a))
                BY <1>1, <1>2, <2>1, <3>2
            <4> QED
                BY <1>2, <2>2, <3>2, <4>1
        <3> QED
            BY <3>1, <3>2
    <2> QED
        BY <2>1, <2>3
<1>4. Drop(i) = ts
    BY DEF Drop, RemoveAt, a, b
<1> HIDE DEF ts
<1>5. g \in [1..Len(ts) -> 1..Len(tasks)]
    BY <1>1, <1>3
<1>6. \A k, l \in 1..Len(ts) : g[k] = g[l] => k = l
    BY <1>1, <1>3
<1>7. \A k \in 1..Len(ts) : ts[k] = tasks[g[k]]
    BY <1>1, <1>3
<1> HIDE DEF g
<1>8. Fewer(ts)
    BY <1>3, <1>5, <1>6, <1>7 DEF Fewer
<1> QED
    BY <1>4, <1>8

LEMMA DropOK ==
    ASSUME TasksOK, NEW i \in DOMAIN tasks, tasks' = Drop(i), UNCHANGED <<now, up>>
    PROVE  TasksOK' /\ \A k \in DOMAIN tasks' : OldTask(tasks'[k])
<1>1. Fewer(tasks')
    BY DropIs
<1>2. \A k \in DOMAIN tasks' : tasks'[k].by \in up'
    <2>1. PICK g \in [1..Len(tasks') -> 1..Len(tasks)] : \A k \in 1..Len(tasks') : tasks'[k] = tasks[g[k]]
        BY <1>1 DEF Fewer
    <2>2. DOMAIN tasks' = 1..Len(tasks') /\ DOMAIN tasks = 1..Len(tasks)
        BY <1>1 DEF TasksOK, Fewer
    <2> QED
        BY <2>1, <2>2 DEF TasksOK
<1> QED
    BY <1>1, <1>2, FewerOK

\* A task moves on, and executes only if its job does not already.
LEMMA GoesOK ==
    ASSUME TasksOK, NEW i \in DOMAIN tasks, NEW pc \in {"waiting", "executing"}, tasks' = Goes(i, pc),
           pc = "executing" => tasks[i].id \notin Executing(tasks[i].by), UNCHANGED <<now, up>>
    PROVE  TasksOK' /\ \A k \in DOMAIN tasks' : OldTask(tasks'[k])
<1>1. tasks \in Seq(JobTask) /\ DOMAIN tasks = 1..Len(tasks) /\ tasks[i] \in JobTask
    BY DEF TasksOK
<1>2. DOMAIN tasks' = DOMAIN tasks /\ \A k \in DOMAIN tasks : k # i => tasks'[k] = tasks[k]
    BY <1>1 DEF Goes
<1>3. tasks'[i] = [tasks[i] EXCEPT !.pc = pc]
    BY <1>1 DEF Goes
<1>4. /\ tasks'[i] \in JobTask /\ tasks'[i].by = tasks[i].by /\ tasks'[i].id = tasks[i].id
      /\ tasks'[i].snap = tasks[i].snap /\ tasks'[i].due = tasks[i].due /\ tasks'[i].pc = pc
    BY <1>1, <1>3 DEF JobTask
<1>5. tasks' \in Seq(JobTask)
    BY <1>1, <1>4 DEF Goes
<1>6. \A k \in DOMAIN tasks' : OldTask(tasks'[k]) /\ tasks'[k].by \in up' /\ tasks'[k].due <= now'
    BY <1>2, <1>4 DEF OldTask, TasksOK
<1>7. NoOverlap'
    <2> SUFFICES ASSUME NEW p \in Services, NEW k \in Mine(p, "executing")', NEW l \in Mine(p, "executing")',
                        tasks'[k].id = tasks'[l].id
                 PROVE  k = l
        BY DEF NoOverlap
    <2>1. /\ k \in DOMAIN tasks /\ l \in DOMAIN tasks /\ tasks'[k].by = p /\ tasks'[l].by = p
          /\ tasks'[k].pc = "executing" /\ tasks'[l].pc = "executing"
        BY <1>2 DEF Mine
    <2>2. k # i => k \in Mine(p, "executing") /\ tasks[k].id = tasks'[k].id
        BY <1>2, <2>1 DEF Mine
    <2>3. l # i => l \in Mine(p, "executing") /\ tasks[l].id = tasks'[l].id
        BY <1>2, <2>1 DEF Mine
    <2>4. CASE k # i /\ l # i
        BY <2>2, <2>3, <2>4 DEF TasksOK, NoOverlap
    <2>5. CASE k = i /\ l # i
        BY <1>4, <2>1, <2>3, <2>5 DEF Executing
    <2>6. CASE k # i /\ l = i
        BY <1>4, <2>1, <2>2, <2>6 DEF Executing
    <2> QED
        BY <2>4, <2>5, <2>6
<1> QED
    BY <1>5, <1>6, <1>7 DEF TasksOK

LEMMA EnterOK ==
    ASSUME TasksOK, NEW i \in DOMAIN tasks, Enter(i), UNCHANGED <<now, up>>
    PROVE  TasksOK' /\ \A k \in DOMAIN tasks' : OldTask(tasks'[k])
<1>1. CASE tasks[i].id \in Executing(tasks[i].by)
    BY <1>1, DropOK DEF Enter
<1>2. CASE tasks[i].id \notin Executing(tasks[i].by)
    <2>1. tasks' = Goes(i, "executing")
        BY <1>2 DEF Enter
    <2> QED
        BY <1>2, <2>1, GoesOK
<1> QED
    BY <1>1, <1>2
---------------------------------------------------------------------------
(* Every step keeps the base invariant                                     *)

\* A tick: the jobs that are due are advanced, and each gets a task with that copy.
LEMMA TickIs ==
    ASSUME Base, NEW p \in Services, Tick(p)
    PROVE  /\ Base' /\ Logged' = {}
           /\ DOMAIN Store' \subseteq DOMAIN Store
           /\ \A j \in DOMAIN Store' : Store'[j] = IF Due(Store[j]) THEN Advanced(Store[j]) ELSE Store[j]
           /\ \A k \in DOMAIN tasks' :
                \/ OldTask(tasks'[k])
                \/ tasks'[k].id \in DOMAIN Store /\ Due(Store[tasks'[k].id])
                     /\ tasks'[k].snap = Advanced(Store[tasks'[k].id])
<1> DEFINE d == Store
           due == {j \in DOMAIN d : Due(d[j])}
           e == [j \in DOMAIN d \ {i \in due : Forgets(d[i])} |-> IF j \in due THEN Advanced(d[j]) ELSE d[j]]
<1>1. /\ p \in up /\ Save(e)
      /\ \E order \in Bijection(1..Cardinality(due), due) :
            tasks' = tasks \o [i \in DOMAIN order |->
                Task(p, order[i], Advanced(d[order[i]]), d[order[i]].next, "spawned")]
      /\ fired' = [j \in Jobs |-> IF j \in due THEN [fired[j] EXCEPT ![d[j].next] = @ + 1] ELSE fired[j]]
      /\ owed' = {o \in owed : o[1] \notin due}
      /\ UNCHANGED <<now, up, reading, wish, torn, reverted>>
    BY DEF Tick, Idle
<1>2. Holds(d) /\ StoreOK /\ TasksOK /\ Given /\ BooksOK /\ ReadOK /\ now \in Times /\ now \in Nat
    BY BoundAssumption DEF Base, StoreOK, BooksOK, Times
<1>3. DOMAIN Store \subseteq DOMAIN wish
    BY <1>2 DEF Given
<1> HIDE DEF d
<1>4. \A j \in DOMAIN d : j \in Jobs /\ d[j] \in Job /\ Advanced(d[j]) \in Job
    BY <1>2, AdvancedIs DEF Holds
<1>5. Holds(e) /\ DOMAIN e \subseteq DOMAIN d /\ \A j \in DOMAIN e : e[j] = IF Due(d[j]) THEN Advanced(d[j]) ELSE d[j]
    BY <1>4 DEF Holds
<1>6. due \subseteq DOMAIN d /\ \A j \in due : Due(d[j])
    OBVIOUS
<1>7. due \subseteq Jobs /\ IsFiniteSet(due)
    BY <1>4, <1>6, ServicesAssumption, FS_Subset
<1>8. \A j \in due : d[j].next \in Times /\ d[j].next <= now
    <2> TAKE j \in due
    <2>1. d[j] \in Job /\ d[j].next # 0 /\ now >= d[j].next
        BY <1>4, <1>6 DEF Due
    <2>2. d[j].next \in Nat
        BY <2>1 DEF Job
    <2> QED
        BY <1>2, <2>1, <2>2, BoundAssumption DEF Times
<1> HIDE DEF e, due
<1>9. Store' = e /\ disk' = e /\ Logged' = {} /\ StoreOK'
    BY <1>1, <1>5, Saved
<1>10. PICK order \in Bijection(1..Cardinality(due), due) :
            tasks' = tasks \o [i \in DOMAIN order |->
                Task(p, order[i], Advanced(d[order[i]]), d[order[i]].next, "spawned")]
    BY <1>1
<1> DEFINE new == [i \in DOMAIN order |-> Task(p, order[i], Advanced(d[order[i]]), d[order[i]].next, "spawned")]
<1>11. DOMAIN order = 1..Cardinality(due) /\ Cardinality(due) \in Nat /\ \A i \in DOMAIN order : order[i] \in due
    BY <1>7, <1>10, FS_CardinalityType DEF Bijection, Injection
<1>12. \A i \in DOMAIN order : /\ new[i] \in JobTask /\ new[i].by = p /\ new[i].pc = "spawned" /\ new[i].due <= now
                               /\ new[i].id \in due /\ new[i].snap = Advanced(d[new[i].id])
    <2> TAKE i \in DOMAIN order
    <2>1. order[i] \in due /\ order[i] \in Jobs /\ Advanced(d[order[i]]) \in Job /\ d[order[i]].next \in Nat
          /\ d[order[i]].next <= now
        BY <1>4, <1>6, <1>7, <1>8, <1>11 DEF Times
    <2>2. new[i] = [by |-> p, id |-> order[i], snap |-> Advanced(d[order[i]]), due |-> d[order[i]].next, pc |-> "spawned"]
        BY DEF Task
    <2> HIDE DEF new
    <2> QED
        BY <2>1, <2>2 DEF JobTask
<1>13. new \in Seq(JobTask) /\ Len(new) = Cardinality(due)
    <2>1. new = [i \in 1..Cardinality(due) |-> new[i]]
        BY <1>11
    <2>2. \A i \in 1..Cardinality(due) : new[i] \in JobTask
        BY <1>11, <1>12
    <2> HIDE DEF new
    <2> QED
        BY <1>11, <2>1, <2>2
<1>14. tasks' = tasks \o new
    BY <1>10
<1> HIDE DEF new
<1>15. /\ tasks' \in Seq(JobTask) /\ DOMAIN tasks' = 1..(Len(tasks) + Len(new))
       /\ \A k \in DOMAIN tasks' : tasks'[k] = IF k <= Len(tasks) THEN tasks[k] ELSE new[k - Len(tasks)]
    <2>1. tasks \in Seq(JobTask)
        BY <1>2 DEF TasksOK
    <2>2. /\ tasks \o new \in Seq(JobTask) /\ Len(tasks \o new) = Len(tasks) + Len(new)
          /\ \A k \in 1..(Len(tasks) + Len(new)) :
                (tasks \o new)[k] = IF k <= Len(tasks) THEN tasks[k] ELSE new[k - Len(tasks)]
        BY <1>13, <2>1, ConcatProperties
    <2> QED
        BY <1>14, <2>2
<1>16. \A k \in DOMAIN tasks' :
          \/ k \in DOMAIN tasks /\ tasks'[k] = tasks[k]
          \/ k \notin DOMAIN tasks /\ \E i \in DOMAIN order : tasks'[k] = new[i]
    <2> TAKE k \in DOMAIN tasks'
    <2>1. Len(tasks) \in Nat /\ DOMAIN tasks = 1..Len(tasks)
        BY <1>2 DEF TasksOK
    <2>2. CASE k <= Len(tasks)
        BY <1>15, <2>1, <2>2
    <2>3. CASE ~(k <= Len(tasks))
        <3>1. k - Len(tasks) \in DOMAIN order
            BY <1>11, <1>13, <1>15, <2>1, <2>3
        <3> QED
            BY <1>15, <2>1, <2>3, <3>1
    <2> QED
        BY <2>2, <2>3
<1>17. \A k \in DOMAIN tasks' :
            \/ OldTask(tasks'[k])
            \/ tasks'[k].id \in due /\ tasks'[k].snap = Advanced(d[tasks'[k].id])
    BY <1>12, <1>16 DEF OldTask
<1>18. TasksOK'
    <2>1. \A k \in DOMAIN tasks' : tasks'[k].by \in up' /\ tasks'[k].due <= now'
        BY <1>1, <1>2, <1>12, <1>16 DEF TasksOK
    <2>2. \A q \in Services : \A k \in Mine(q, "executing")' :
            k \in Mine(q, "executing") /\ tasks'[k] = tasks[k]
        BY <1>12, <1>16 DEF Mine
    <2>3. NoOverlap'
        BY <1>2, <2>2 DEF NoOverlap, TasksOK
    <2> QED
        BY <1>15, <2>1, <2>3 DEF TasksOK
<1>19. Given'
    <2>1. \A k \in DOMAIN tasks' : tasks'[k].id \in DOMAIN wish
        BY <1>2, <1>3, <1>6, <1>17 DEF OldTask, Given, d
    <2>2. DOMAIN e \subseteq DOMAIN wish
        BY <1>3, <1>5 DEF d
    <2> QED
        BY <1>1, <1>2, <1>9, <2>1, <2>2 DEF Given
<1>20. BooksOK'
    <2>1. fired' \in [Jobs -> [Times -> Nat]]
        <3>1. \A j \in Jobs : fired[j] \in [Times -> Nat]
            BY <1>2 DEF BooksOK
        <3>2. \A j \in due : [fired[j] EXCEPT ![d[j].next] = @ + 1] \in [Times -> Nat]
            BY <1>7, <1>8, <3>1
        <3> QED
            BY <1>1, <3>1, <3>2
    <2> QED
        BY <1>1, <1>2, <2>1 DEF BooksOK
<1>21. ReadOK'
    BY <1>1, <1>2, ReadSaved DEF Save, ReadKept, ReadOK
<1>22. Base'
    BY <1>9, <1>18, <1>19, <1>20, <1>21 DEF Base
<1> QED
    BY <1>5, <1>6, <1>9, <1>17, <1>22 DEF d

LEMMA BeginIs ==
    ASSUME Base, NEW i \in DOMAIN tasks, Begin(i) \/ SlotGiven(i)
    PROVE  Base' /\ Store' = Store /\ Logged' = Logged /\ \A k \in DOMAIN tasks' : OldTask(tasks'[k])
<1>1. UNCHANGED <<now, disk, log, up, reading, wish, fired, owed, torn, reverted>>
    BY DEF Begin, SlotGiven, history
<1>2. StoreOK /\ TasksOK /\ Given /\ BooksOK /\ ReadOK
    BY DEF Base
<1>3. Enter(i) \/ tasks' = Drop(i) \/ (tasks' = Goes(i, "waiting"))
    BY DEF Begin, SlotGiven
<1>4. TasksOK' /\ \A k \in DOMAIN tasks' : OldTask(tasks'[k])
    <2>1. CASE Enter(i)
        BY <1>1, <1>2, <2>1, EnterOK
    <2>2. CASE tasks' = Goes(i, "waiting")
        BY <1>1, <1>2, <2>2, GoesOK
    <2>3. CASE tasks' = Drop(i)
        BY <1>1, <1>2, <2>3, DropOK
    <2> QED
        BY <1>3, <2>1, <2>2, <2>3
<1>5. Store' = Store /\ Logged' = Logged /\ StoreOK'
    BY <1>1, <1>2, StoreSame
<1>6. Given' /\ BooksOK'
    BY <1>1, <1>2, <1>4, <1>5 DEF Given, BooksOK, OldTask
<1>7. ReadOK'
    BY <1>1, <1>2, ReadSame DEF ReadKept, ReadOK
<1> QED
    BY <1>4, <1>5, <1>6, <1>7 DEF Base

\* A run's end writes its run state onto the job as it is, and onto no other.
LEMMA PersistedIs ==
    ASSUME NEW d, Holds(d), NEW j \in Jobs, NEW job \in Job
    PROVE  /\ Holds(Persisted(d, j, job)) /\ DOMAIN Persisted(d, j, job) \subseteq DOMAIN d
           /\ \A q \in Jobs \ {j} : Alike(d, Persisted(d, j, job), q)
           /\ j \in DOMAIN Persisted(d, j, job) =>
                /\ Persisted(d, j, job)[j].sched = d[j].sched
                /\ Persisted(d, j, job)[j].next = job.next
                /\ Persisted(d, j, job)[j].on => d[j].on /\ ~(job.sched.kind = "at" /\ ~job.on)
<1>1. CASE Forgets(job)
    <2>1. Persisted(d, j, job) = [i \in DOMAIN d \ {j} |-> d[i]]
        BY <1>1 DEF Persisted, Without
    <2> QED
        BY <2>1 DEF Holds, Alike
<1>2. CASE ~Forgets(job) /\ j \notin DOMAIN d
    <2>1. Persisted(d, j, job) = d
        BY <1>2 DEF Persisted
    <2> QED
        BY <1>2, <2>1 DEF Alike
<1>3. CASE ~Forgets(job) /\ j \in DOMAIN d
    <2> DEFINE on == IF job.sched.kind = "at" /\ ~job.on THEN FALSE ELSE d[j].on
               new == [d[j] EXCEPT !.next = job.next, !.hist = job.hist, !.on = on]
    <2>1. Persisted(d, j, job) = [i \in DOMAIN d \cup {j} |-> IF i = j THEN new ELSE d[i]]
        BY <1>3 DEF Persisted, With
    <2>2. d[j] \in Job /\ on \in BOOLEAN /\ (on => d[j].on /\ ~(job.sched.kind = "at" /\ ~job.on))
        BY <1>3 DEF Holds, Job
    <2> HIDE DEF on
    <2>3. /\ new \in Job /\ new.sched = d[j].sched /\ new.next = job.next /\ new.on = on
        BY <2>2 DEF Job
    <2> HIDE DEF new
    <2> QED
        BY <1>3, <2>1, <2>2, <2>3 DEF Holds, Alike
<1> QED
    BY <1>1, <1>2, <1>3

\* The end of a run: its job is off, or its next run is in the future.
LEMMA EndIs ==
    ASSUME Base, NEW i \in DOMAIN tasks, End(i), NEW j, j = tasks[i].id
    PROVE  /\ Base' /\ Logged' = {} /\ j \in Jobs
           /\ \A k \in DOMAIN tasks' : OldTask(tasks'[k])
           /\ DOMAIN Store' \subseteq DOMAIN Store
           /\ \A q \in Jobs \ {j} : Alike(Store, Store', q)
           /\ j \in DOMAIN Store' =>
                /\ Store'[j].sched = Store[j].sched
                /\ Store'[j].on => Store[j].on /\ tasks[i].snap.sched.kind # "at" /\ now < Store'[j].next
<1>1. /\ Save(Persisted(Store, j, Ran(tasks[i]))) /\ tasks' = Drop(i) /\ owed' = {o \in owed : o[1] # j}
      /\ UNCHANGED <<now, up, reading, wish, fired, torn, reverted>>
    BY DEF End
<1>2. StoreOK /\ TasksOK /\ Given /\ BooksOK /\ ReadOK /\ now \in Times
    BY DEF Base, BooksOK
<1>3. tasks[i] \in JobTask /\ tasks[i].due <= now
    BY <1>2 DEF TasksOK
<1>4. j \in Jobs /\ tasks[i].snap \in Job /\ tasks[i].due \in Nat
    BY <1>3 DEF JobTask
<1> DEFINE copy == [tasks[i].snap EXCEPT !.hist = @ \cup {<<"ran", tasks[i].due>>}]
           job == Ran(tasks[i])
           d == Store
           e == Persisted(d, j, job)
<1>5. copy \in Job /\ copy.sched = tasks[i].snap.sched
    <2>1. tasks[i].due \in Times \cup {None}
        BY <1>2, <1>3, <1>4, BoundAssumption DEF Times
    <2> DEFINE hist == tasks[i].snap.hist \cup {<<"ran", tasks[i].due>>}
    <2>2. hist \in SUBSET ({"ran", "skipped"} \X (Times \cup {None}))
        BY <1>4, <2>1 DEF Job
    <2>3. copy = [tasks[i].snap EXCEPT !.hist = hist]
        OBVIOUS
    <2> HIDE DEF hist, copy
    <2> QED
        BY <1>4, <2>2, <2>3 DEF Job
<1>6. job = Advanced(copy)
    BY DEF Ran
<1> HIDE DEF copy
<1>7. /\ job \in Job /\ job.sched = tasks[i].snap.sched
      /\ job.sched.kind = "at" => ~job.on
      /\ job.sched.kind # "at" => now < job.next
    BY <1>2, <1>5, <1>6, AdvancedIs
<1>8. Holds(d)
    BY <1>2 DEF StoreOK
<1> HIDE DEF job, d
<1>9. /\ Holds(e) /\ DOMAIN e \subseteq DOMAIN d
      /\ \A q \in Jobs \ {j} : Alike(d, e, q)
      /\ j \in DOMAIN e => /\ e[j].sched = d[j].sched /\ e[j].next = job.next
                           /\ e[j].on => d[j].on /\ ~(job.sched.kind = "at" /\ ~job.on)
    BY <1>4, <1>7, <1>8, PersistedIs
<1>10. Save(e)
    BY <1>1 DEF job, d
<1> HIDE DEF e
<1>11. Store' = e /\ disk' = e /\ Logged' = {} /\ StoreOK'
    BY <1>9, <1>10, Saved
<1>12. TasksOK' /\ \A k \in DOMAIN tasks' : OldTask(tasks'[k])
    BY <1>1, <1>2, DropOK
<1>13. Given'
    BY <1>1, <1>2, <1>9, <1>11, <1>12 DEF Given, OldTask, d
<1>14. BooksOK'
    BY <1>1, <1>2 DEF BooksOK
<1>15. ReadOK'
    BY <1>1, <1>2, ReadSaved DEF Save, ReadKept, ReadOK
<1>16. Base'
    BY <1>11, <1>12, <1>13, <1>14, <1>15 DEF Base
<1> QED
    BY <1>4, <1>7, <1>9, <1>11, <1>12, <1>16 DEF d

\* What every edit does besides what it says: the other jobs are left alone.
Edits(j, w) ==
    /\ Base' /\ Says(j, w) /\ UNCHANGED <<now, up, reading, tasks>>
    /\ Logged' \subseteq Logged \cup {j}
    /\ \A q \in Jobs \ {j} : Alike(Store, Store', q)
    /\ DOMAIN wish' = DOMAIN wish \cup {j} /\ wish'[j] = w
    /\ \A q \in DOMAIN wish \ {j} : wish'[q] = wish[q]

\* The owner's last word on j holds.
WordHolds(j) ==
    j \in DOMAIN Store =>
        ~wish[j].gone /\ Store[j].sched = wish[j].sched /\ (wish[j].off => ~Store[j].on)

\* A one-shot that is on is due at its time.
OnTime(j) ==
    j \in DOMAIN Store =>
        (Store[j].on /\ Store[j].sched.kind = "at" /\ Store[j].next # None => Store[j].next = Store[j].sched.t)

LEMMA EditBase ==
    ASSUME Base, NEW j \in Jobs, NEW w \in Word, NEW a \in Entry, a.id = j, Written(a), Says(j, w),
           UNCHANGED <<now, up, reading, tasks>>
    PROVE  /\ Edits(j, w)
           /\ a.op = "del" => j \notin DOMAIN Store'
           /\ a.op = "put" => j \in DOMAIN Store' /\ Store'[j] = a.job
<1> DEFINE d == Store
<1>1. StoreOK /\ TasksOK /\ Given /\ BooksOK /\ ReadOK /\ Holds(d)
    BY DEF Base, StoreOK
<1>2. /\ Store' = Edited(d, a) /\ StoreOK' /\ Logged' \subseteq Logged \cup {j}
      /\ DOMAIN disk' \subseteq DOMAIN disk \cup DOMAIN d \cup {j}
    BY <1>1, WrittenIs
<1> HIDE DEF d
<1>3. /\ \A q \in Jobs \ {j} : Alike(d, Edited(d, a), q)
      /\ a.op = "del" => DOMAIN Edited(d, a) = DOMAIN d \ {j}
      /\ a.op = "put" => DOMAIN Edited(d, a) = DOMAIN d \cup {j} /\ Edited(d, a)[j] = a.job
    BY <1>1, EditedIs
<1>4. DOMAIN Store' \subseteq DOMAIN d \cup {j}
    <2>1. a.op \in {"put", "del"}
        BY DEF Entry
    <2> QED
        BY <1>2, <1>3, <2>1
<1>5. wish' = [i \in DOMAIN wish \cup {j} |-> IF i = j THEN w ELSE wish[i]]
    BY DEF Says, With
<1>6. Given'
    <2>1. DOMAIN wish' = DOMAIN wish \cup {j} /\ DOMAIN wish' \subseteq Jobs /\ \A q \in DOMAIN wish' : wish'[q] \in Word
        BY <1>1, <1>5 DEF Given
    <2> QED
        BY <1>1, <1>2, <1>4, <2>1 DEF Given, d
<1>7. TasksOK'
    BY <1>1 DEF TasksOK, NoOverlap, Mine
<1>8. BooksOK'
    <2>1. fired' = [fired EXCEPT ![j] = [t \in Times |-> 0]] /\ owed' = {o \in owed : o[1] # j} /\ UNCHANGED <<torn, reverted>>
        BY DEF Says
    <2>2. fired' \in [Jobs -> [Times -> Nat]]
        BY <1>1, <2>1 DEF BooksOK
    <2> QED
        BY <1>1, <2>1, <2>2 DEF BooksOK
<1>9. DOMAIN wish' = DOMAIN wish \cup {j} /\ wish'[j] = w /\ \A q \in DOMAIN wish \ {j} : wish'[q] = wish[q]
    BY <1>5
<1>10. ReadOK'
    BY <1>1, <1>9, ReadWritten DEF ReadKept, ReadOK
<1>11. Base'
    BY <1>2, <1>6, <1>7, <1>8, <1>10 DEF Base
<1>12. \A q \in Jobs \ {j} : Alike(Store, Store', q)
    BY <1>2, <1>3 DEF d
<1> QED
    BY <1>2, <1>3, <1>9, <1>11, <1>12 DEF Edits

\* The same for an edit that puts a job.
LEMMA PutBase ==
    ASSUME Base, NEW j \in Jobs, NEW w \in Word, NEW job \in Job, Put(j, job), Says(j, w),
           UNCHANGED <<now, up, reading, tasks>>
    PROVE  Edits(j, w) /\ j \in DOMAIN Store' /\ Store'[j] = job
<1> DEFINE a == [op |-> "put", id |-> j, job |-> job]
<1>1. a \in Entry /\ a.id = j /\ a.op = "put" /\ a.job = job
    BY DEF Entry
<1>2. Written(a)
    BY DEF Put
<1> HIDE DEF a
<1> QED
    BY <1>1, <1>2, EditBase

LEMMA AddIs ==
    ASSUME Base, NEW j \in Jobs, NEW s \in Schedules, NEW once \in BOOLEAN, Add(j, s, once)
    PROVE  \E w \in Word : Edits(j, w) /\ OnTime(j)' /\ WordHolds(j)'
<1> DEFINE job == [on |-> TRUE, sched |-> s, once |-> once, next |-> NextRun(s, now), hist |-> {}]
           w == [gone |-> FALSE, off |-> FALSE, sched |-> s]
<1>1. now \in Nat
    BY BoundAssumption DEF Base, BooksOK, Times
<1>2. NextRun(s, now) \in Nat /\ (s.kind = "at" => NextRun(s, now) \in {None, s.t})
    BY <1>1, NextRunAhead
<1>3. job \in Job /\ w \in Word
    BY <1>2 DEF Job, Word
<1>4. Put(j, job) /\ Says(j, w) /\ UNCHANGED <<now, up, reading, tasks>>
    BY DEF Add
<1>5. /\ job.on /\ job.sched = s /\ job.next = NextRun(s, now)
      /\ ~w.gone /\ ~w.off /\ w.sched = s
    OBVIOUS
<1> HIDE DEF job, w
<1>6. Edits(j, w) /\ j \in DOMAIN Store' /\ Store'[j] = job
    BY <1>3, <1>4, PutBase
<1>7. OnTime(j)' /\ WordHolds(j)'
    BY <1>2, <1>5, <1>6 DEF Edits, OnTime, WordHolds
<1> QED
    BY <1>3, <1>6, <1>7

LEMMA RemoveIs ==
    ASSUME Base, NEW j \in Jobs, RemoveJob(j)
    PROVE  \E w \in Word : Edits(j, w) /\ OnTime(j)' /\ WordHolds(j)'
<1> DEFINE a == [op |-> "del", id |-> j, job |-> None]
           w == [wish[j] EXCEPT !.gone = TRUE]
<1>1. Written(a) /\ Says(j, w) /\ UNCHANGED <<now, up, reading, tasks>> /\ j \in DOMAIN Store
    BY DEF RemoveJob
<1>2. wish[j] \in Word
    BY <1>1 DEF Base, Given
<1>3. a \in Entry /\ a.id = j /\ a.op = "del" /\ w \in Word
    BY <1>2 DEF Entry, Word
<1> HIDE DEF a, w
<1>4. Edits(j, w) /\ j \notin DOMAIN Store'
    BY <1>1, <1>3, EditBase
<1> QED
    BY <1>3, <1>4 DEF OnTime, WordHolds

LEMMA SwitchIs ==
    ASSUME Base, NEW j \in Jobs, Switch(j)
    PROVE  \E w \in Word : Edits(j, w) /\ OnTime(j)' /\ (WordHolds(j) => WordHolds(j)')
<1> DEFINE on == ~Store[j].on
           next == IF on THEN NextRun(Store[j].sched, now) ELSE None
           job == [Store[j] EXCEPT !.on = on, !.next = next]
           w == [wish[j] EXCEPT !.off = ~on]
<1>1. Put(j, job) /\ Says(j, w) /\ UNCHANGED <<now, up, reading, tasks>> /\ j \in DOMAIN Store
    BY DEF Switch
<1>2. wish[j] \in Word /\ Store[j] \in Job /\ now \in Nat
    BY <1>1, BoundAssumption DEF Base, Given, StoreOK, Holds, BooksOK, Times
<1>3. Store[j].sched \in Schedules /\ on \in BOOLEAN
    BY <1>2 DEF Job
<1>4. next \in Nat /\ (Store[j].sched.kind = "at" => next \in {None, Store[j].sched.t})
    BY <1>2, <1>3, NextRunAhead
<1> HIDE DEF on, next
<1>5. job \in Job /\ job.on = on /\ job.next = next /\ job.sched = Store[j].sched
    BY <1>2, <1>3, <1>4 DEF Job
<1>6. w \in Word /\ w.off = ~on /\ w.gone = wish[j].gone /\ w.sched = wish[j].sched
    BY <1>2, <1>3 DEF Word
<1> HIDE DEF job, w
<1>7. Edits(j, w) /\ j \in DOMAIN Store' /\ Store'[j] = job
    BY <1>1, <1>5, <1>6, PutBase
<1>8. OnTime(j)' /\ (WordHolds(j) => WordHolds(j)')
    BY <1>1, <1>4, <1>5, <1>6, <1>7 DEF Edits, OnTime, WordHolds
<1> QED
    BY <1>6, <1>7, <1>8

LEMMA RescheduleIs ==
    ASSUME Base, NEW j \in Jobs, NEW s \in Schedules, NEW once \in BOOLEAN, Reschedule(j, s, once)
    PROVE  \E w \in Word : Edits(j, w) /\ OnTime(j)' /\ (WordHolds(j) => WordHolds(j)')
<1> DEFINE next == IF Store[j].on THEN NextRun(s, now) ELSE Store[j].next
           job == [Store[j] EXCEPT !.sched = s, !.once = once, !.next = next]
           w == [wish[j] EXCEPT !.sched = s]
<1>1. j \in DOMAIN Store /\ UNCHANGED <<now, up, reading, tasks>>
    BY DEF Reschedule
<1>2. wish[j] \in Word /\ Store[j] \in Job /\ now \in Nat
    BY <1>1, BoundAssumption DEF Base, Given, StoreOK, Holds, BooksOK, Times
<1>3. Put(j, job) /\ Says(j, w)
    BY DEF Reschedule
<1>4. next \in Nat /\ (Store[j].on /\ s.kind = "at" => next \in {None, s.t})
    BY <1>2, NextRunAhead DEF Job
<1> HIDE DEF next
<1>5. job \in Job /\ job.on = Store[j].on /\ job.next = next /\ job.sched = s
    BY <1>2, <1>4 DEF Job
<1>6. w \in Word /\ w.off = wish[j].off /\ w.gone = wish[j].gone /\ w.sched = s
    BY <1>2 DEF Word
<1> HIDE DEF job, w
<1>7. Edits(j, w) /\ j \in DOMAIN Store' /\ Store'[j] = job
    BY <1>1, <1>3, <1>5, <1>6, PutBase
<1>8. OnTime(j)' /\ (WordHolds(j) => WordHolds(j)')
    BY <1>1, <1>4, <1>5, <1>6, <1>7 DEF Edits, OnTime, WordHolds
<1> QED
    BY <1>6, <1>7, <1>8

\* A run by hand, on a copy of the job as it is.
LEMMA RunByHandIs ==
    ASSUME Base, NEW p \in Services, NEW j \in Jobs, RunByHand(p, j)
    PROVE  /\ Base' /\ Store' = Store /\ Logged' = {}
           /\ \A k \in DOMAIN tasks' :
                \/ OldTask(tasks'[k])
                \/ tasks'[k].id = j /\ j \in DOMAIN Store /\ tasks'[k].snap = Store[j]
<1> DEFINE d == Store
           pc == IF FreeSlot(p) /\ Mine(p, "waiting") = {} THEN "executing" ELSE "waiting"
           new == Task(p, j, Store[j], None, pc)
<1>1. /\ Save(d) /\ tasks' = Append(tasks, new) /\ j \in DOMAIN Store /\ p \in up /\ j \notin Executing(p)
      /\ UNCHANGED <<now, up, reading, wish, fired, owed, torn, reverted>>
    BY DEF RunByHand, Idle, history
<1>2. StoreOK /\ TasksOK /\ Given /\ BooksOK /\ ReadOK /\ Holds(d)
    BY DEF Base, StoreOK
<1>3. Store[j] \in Job /\ now \in Nat
    BY <1>1, <1>2, BoundAssumption DEF Holds, BooksOK, Times
<1>4. pc \in {"waiting", "executing"}
    OBVIOUS
<1> HIDE DEF pc
<1>5. /\ new \in JobTask /\ new.by = p /\ new.id = j /\ new.snap = Store[j] /\ new.due = 0
    BY <1>3, <1>4 DEF Task, JobTask
<1> HIDE DEF new, d
<1>6. Store' = d /\ disk' = d /\ Logged' = {} /\ StoreOK'
    BY <1>1, <1>2, Saved
<1>7. /\ tasks' \in Seq(JobTask) /\ Len(tasks) \in Nat /\ DOMAIN tasks = 1..Len(tasks)
      /\ DOMAIN tasks' = 1..(Len(tasks) + 1) /\ tasks'[Len(tasks) + 1] = new
      /\ \A k \in 1..Len(tasks) : tasks'[k] = tasks[k]
    BY <1>1, <1>2, <1>5 DEF TasksOK
<1>8. \A k \in DOMAIN tasks' :
        \/ k \in DOMAIN tasks /\ tasks'[k] = tasks[k]
        \/ k \notin DOMAIN tasks /\ k = Len(tasks) + 1 /\ tasks'[k] = new
    BY <1>7
<1>9. TasksOK'
    <2>1. \A k \in DOMAIN tasks' : tasks'[k].by \in up' /\ tasks'[k].due <= now'
        BY <1>1, <1>2, <1>3, <1>5, <1>8 DEF TasksOK
    <2>2. NoOverlap'
        <3> SUFFICES ASSUME NEW q \in Services, NEW k \in Mine(q, "executing")', NEW l \in Mine(q, "executing")',
                            tasks'[k].id = tasks'[l].id
                     PROVE  k = l
            BY DEF NoOverlap
        <3>1. k \in DOMAIN tasks' /\ l \in DOMAIN tasks' /\ tasks'[k].by = q /\ tasks'[l].by = q
              /\ tasks'[k].pc = "executing" /\ tasks'[l].pc = "executing"
            BY DEF Mine
        <3>2. \A x \in {k, l} : x \in DOMAIN tasks => x \in Mine(q, "executing") /\ tasks[x].id = tasks'[x].id
            BY <1>8, <3>1 DEF Mine
        <3>3. CASE k \in DOMAIN tasks /\ l \in DOMAIN tasks
            BY <1>2, <3>2, <3>3 DEF TasksOK, NoOverlap
        <3>4. CASE k \notin DOMAIN tasks /\ l \notin DOMAIN tasks
            BY <1>8, <3>1, <3>4
        <3>5. CASE k \in DOMAIN tasks /\ l \notin DOMAIN tasks
            BY <1>1, <1>5, <1>8, <3>1, <3>2, <3>5 DEF Executing
        <3>6. CASE k \notin DOMAIN tasks /\ l \in DOMAIN tasks
            BY <1>1, <1>5, <1>8, <3>1, <3>2, <3>6 DEF Executing
        <3> QED
            BY <3>3, <3>4, <3>5, <3>6
    <2> QED
        BY <1>7, <2>1, <2>2 DEF TasksOK
<1>10. Given'
    <2>1. DOMAIN d \subseteq DOMAIN wish /\ j \in DOMAIN wish
        BY <1>1, <1>2 DEF Given, d
    <2>2. \A k \in DOMAIN tasks' : tasks'[k].id \in DOMAIN wish
        BY <1>2, <1>5, <1>8, <2>1 DEF Given
    <2> QED
        BY <1>1, <1>2, <1>6, <2>1, <2>2 DEF Given
<1>11. BooksOK'
    BY <1>1, <1>2 DEF BooksOK
<1>12. ReadOK'
    BY <1>1, <1>2, ReadSaved DEF Save, ReadKept, ReadOK
<1>13. Base'
    BY <1>6, <1>9, <1>10, <1>11, <1>12 DEF Base
<1>14. \A k \in DOMAIN tasks' : OldTask(tasks'[k]) \/ (tasks'[k].id = j /\ tasks'[k].snap = Store[j])
    BY <1>5, <1>8 DEF OldTask
<1> QED
    BY <1>1, <1>6, <1>13, <1>14 DEF d

\* A look begins: what it reads is what the store and the log are made of.
LEMMA LookIs ==
    ASSUME Base, NEW p \in Services, Look(p)
    PROVE  Base' /\ Store' = Store /\ Logged' = Logged /\ \A k \in DOMAIN tasks' : OldTask(tasks'[k])
<1>1. /\ p \in up /\ reading' = With(reading, p, disk)
      /\ UNCHANGED <<now, disk, log, up, tasks, wish, fired, owed, torn, reverted>>
    BY DEF Look, Idle, history
<1>2. StoreOK /\ TasksOK /\ Given /\ BooksOK /\ ReadOK
    BY DEF Base
<1>3. Store' = Store /\ Logged' = Logged /\ StoreOK'
    BY <1>1, <1>2, StoreSame
<1>4. TasksOK' /\ Given' /\ BooksOK'
    BY <1>1, <1>2, <1>3 DEF TasksOK, NoOverlap, Mine, Given, BooksOK
<1>5. Sound(disk)
    BY <1>2 DEF StoreOK, Given, Sound, Store
<1>6. DOMAIN reading' = DOMAIN reading \cup {p} /\ \A q \in DOMAIN reading' : Sound(reading'[q])
    BY <1>1, <1>2, <1>5 DEF ReadOK, With
<1>7. ReadOK'
    BY <1>1, <1>2, <1>6 DEF ReadOK, Sound, Holds
<1>8. \A k \in DOMAIN tasks' : OldTask(tasks'[k])
    BY <1>1 DEF OldTask
<1> QED
    BY <1>3, <1>4, <1>7, <1>8 DEF Base

\* A look ends: no job is put back that is not said to be (reverted).
LEMMA LookMergesIs ==
    ASSUME Base, NEW p \in Services, LookMerges(p)
    PROVE  /\ Base' /\ Logged' \subseteq Logged /\ reverted \subseteq reverted'
           /\ \A j \in Jobs \ reverted' : Alike(Store, Store', j)
           /\ \A k \in DOMAIN tasks' : OldTask(tasks'[k])
<1> DEFINE d == Merge(reading[p], log)
<1>1. /\ p \in DOMAIN reading /\ reading' = Without(reading, {p})
      /\ UNCHANGED <<now, up, tasks, wish, fired, owed, torn>>
      /\ \/ UNCHANGED <<disk, log, reverted>>
         \/ Save(d) /\ reverted' = reverted \cup {j \in Jobs : ~Alike(d, Store, j)}
    BY DEF LookMerges
<1>2. StoreOK /\ TasksOK /\ Given /\ BooksOK /\ ReadOK
    BY DEF Base
<1>3. Holds(d) /\ DOMAIN d \subseteq DOMAIN wish
    BY <1>1, <1>2 DEF ReadOK, Sound
<1>4. ReadKept
    BY <1>1, <1>2 DEF ReadKept, ReadOK, Without
<1> HIDE DEF d
<1>5. /\ StoreOK' /\ ReadOK' /\ Logged' \subseteq Logged /\ reverted \subseteq reverted' /\ reverted' \subseteq Jobs
      /\ DOMAIN Store' \subseteq DOMAIN wish /\ DOMAIN disk' \subseteq DOMAIN wish
      /\ \A j \in Jobs \ reverted' : Alike(Store, Store', j)
    <2>1. CASE UNCHANGED <<disk, log, reverted>>
        <3>1. Store' = Store /\ Logged' = Logged /\ StoreOK'
            BY <1>2, <2>1, StoreSame
        <3>2. ReadOK'
            BY <1>2, <1>4, <2>1, ReadSame
        <3> QED
            BY <1>2, <2>1, <3>1, <3>2 DEF Given, BooksOK, Alike
    <2>2. CASE Save(d) /\ reverted' = reverted \cup {j \in Jobs : ~Alike(d, Store, j)}
        <3>1. Store' = d /\ disk' = d /\ log' = <<>> /\ Logged' = {} /\ StoreOK'
            BY <1>3, <2>2, Saved
        <3>2. ReadOK'
            BY <1>2, <1>4, <3>1, ReadSaved
        <3>3. \A j \in Jobs \ reverted' : Alike(Store, Store', j)
            BY <2>2, <3>1 DEF Alike
        <3> QED
            BY <1>2, <1>3, <2>2, <3>1, <3>2, <3>3 DEF BooksOK
    <2> QED
        BY <1>1, <2>1, <2>2
<1>6. TasksOK' /\ Given' /\ BooksOK'
    <2>1. Logged' \subseteq DOMAIN wish
        BY <1>2, <1>5 DEF Given
    <2> QED
        BY <1>1, <1>2, <1>5, <2>1 DEF TasksOK, NoOverlap, Mine, Given, BooksOK
<1>7. \A k \in DOMAIN tasks' : OldTask(tasks'[k])
    BY <1>1 DEF OldTask
<1> QED
    BY <1>5, <1>6, <1>7 DEF Base

\* A start settles every job, and forgets the one-shots that came too late.
LEMMA StartIs ==
    ASSUME Base, NEW p \in Services, Start(p)
    PROVE  /\ Base' /\ Logged' = {}
           /\ DOMAIN Store' \subseteq DOMAIN Store
           /\ \A j \in DOMAIN Store' : Store'[j] = Settled(Store[j])
           /\ owed' = {o \in owed : o[1] \in DOMAIN Store' /\ <<"skipped", o[2]>> \notin Store'[o[1]].hist}
<1> DEFINE old == Store
           d == [j \in DOMAIN old \ {i \in DOMAIN old : Late(old[i]) /\ old[i].once} |-> Settled(old[j])]
<1>1. /\ up' = up \cup {p} /\ Save(d)
      /\ owed' = {o \in owed : o[1] \in DOMAIN d /\ <<"skipped", o[2]>> \notin d[o[1]].hist}
      /\ UNCHANGED <<now, reading, tasks, wish, fired, torn, reverted>>
    BY DEF Start
<1>2. StoreOK /\ TasksOK /\ Given /\ BooksOK /\ ReadOK /\ Holds(old) /\ now \in Times
    BY DEF Base, StoreOK, BooksOK
<1> HIDE DEF old
<1>3. \A j \in DOMAIN old : j \in Jobs /\ Settled(old[j]) \in Job
    BY <1>2, SettledIs DEF Holds
<1>4. Holds(d) /\ DOMAIN d \subseteq DOMAIN old /\ \A j \in DOMAIN d : d[j] = Settled(old[j])
    BY <1>3 DEF Holds
<1> HIDE DEF d
<1>5. Store' = d /\ disk' = d /\ Logged' = {} /\ StoreOK'
    BY <1>1, <1>4, Saved
<1>6. TasksOK'
    BY <1>1, <1>2 DEF TasksOK, NoOverlap, Mine
<1>7. Given'
    <2>1. DOMAIN d \subseteq DOMAIN wish
        BY <1>2, <1>4 DEF Given, old
    <2> QED
        BY <1>1, <1>2, <1>5, <2>1 DEF Given
<1>8. BooksOK'
    BY <1>1, <1>2 DEF BooksOK
<1>9. ReadOK'
    BY <1>1, <1>2, ReadSaved DEF Save, ReadKept, ReadOK
<1> QED
    BY <1>1, <1>4, <1>5, <1>6, <1>7, <1>8, <1>9 DEF Base, old

\* A death: its tasks are gone, what the others have is left.
LEMMA DeathTasks ==
    ASSUME TasksOK, NEW p \in Services, Dies(p)
    PROVE  TasksOK' /\ \A k \in DOMAIN tasks' : OldTask(tasks'[k])
<1>1. up' = up \ {p} /\ tasks' = LeftOf(p) /\ now' = now
    BY DEF Dies
<1>2. tasks \in Seq(JobTask) /\ DOMAIN tasks = 1..Len(tasks)
    BY DEF TasksOK
<1>3. tasks' \in Seq(JobTask) /\ Taken(tasks', tasks, p, Len(tasks))
    BY <1>1, <1>2, LeftOver
<1>4. PICK g \in [1..Len(tasks') -> 1..Len(tasks)] :
        /\ \A k, l \in 1..Len(tasks') : g[k] = g[l] => k = l
        /\ \A k \in 1..Len(tasks') : tasks'[k] = tasks[g[k]] /\ tasks[g[k]].by # p
    BY <1>3 DEF Taken
<1>5. Fewer(tasks')
    BY <1>3, <1>4 DEF Fewer
<1>6. \A k \in DOMAIN tasks' : tasks'[k].by \in up'
    BY <1>1, <1>2, <1>3, <1>4, SMTT(30) DEF TasksOK
<1> QED
    BY <1>1, <1>5, <1>6, FewerOK

LEMMA CrashIs ==
    ASSUME Base, NEW p \in Services, Crash(p)
    PROVE  Base' /\ Store' = Store /\ Logged' = Logged /\ \A k \in DOMAIN tasks' : OldTask(tasks'[k])
<1>1. Dies(p) /\ UNCHANGED <<disk, log, torn>>
    BY DEF Crash
<1>2. StoreOK /\ TasksOK /\ Given /\ BooksOK /\ ReadOK
    BY DEF Base
<1>3. TasksOK' /\ \A k \in DOMAIN tasks' : OldTask(tasks'[k])
    BY <1>1, <1>2, DeathTasks
<1>4. Store' = Store /\ Logged' = Logged /\ StoreOK'
    BY <1>1, <1>2, StoreSame
<1>5. Given' /\ BooksOK'
    BY <1>1, <1>2, <1>3, <1>4 DEF Given, BooksOK, OldTask, Dies
<1>6. ReadOK'
    BY <1>1, <1>2, ReadSame DEF Dies, Without, ReadKept, ReadOK
<1> QED
    BY <1>2, <1>3, <1>4, <1>5, <1>6 DEF Base

\* A death inside the merge: the edits in the log are gone, and only the jobs they were
\* about are not as they were.
LEMMA TornIs ==
    ASSUME Base, NEW p \in Services, Torn(p)
    PROVE  /\ Base' /\ Logged' = {} /\ torn' = torn \cup Logged
           /\ \A j \in Jobs \ Logged : Alike(Store, Store', j)
           /\ \A k \in DOMAIN tasks' : OldTask(tasks'[k])
<1>1. Dies(p) /\ log' = <<>> /\ disk' = disk /\ torn' = torn \cup Logged
    BY DEF Torn, Logged
<1>2. StoreOK /\ TasksOK /\ Given /\ BooksOK /\ ReadOK /\ Holds(disk)
    BY DEF Base, StoreOK
<1>3. Save(disk)
    BY <1>1 DEF Save
<1>4. Store' = disk /\ Logged' = {} /\ StoreOK'
    BY <1>2, <1>3, Saved
<1>5. \A j \in Jobs \ Logged : Alike(Store, Store', j)
    BY <1>2, <1>4 DEF StoreOK, Alike
<1>6. TasksOK' /\ \A k \in DOMAIN tasks' : OldTask(tasks'[k])
    BY <1>1, <1>2, DeathTasks
<1>7. Given'
    BY <1>1, <1>2, <1>4, <1>6 DEF Given, OldTask, Dies
<1>8. BooksOK'
    <2>1. Logged \subseteq Jobs
        BY <1>2 DEF Given
    <2> QED
        BY <1>1, <1>2, <2>1 DEF BooksOK, Dies
<1>9. ReadOK'
    BY <1>1, <1>2, ReadSaved DEF Dies, Without, ReadKept, ReadOK
<1> QED
    BY <1>1, <1>4, <1>5, <1>6, <1>7, <1>8, <1>9 DEF Base

LEMMA ClockIs ==
    ASSUME Base, Clock
    PROVE  /\ Base' /\ Store' = Store /\ Logged' = Logged /\ now' = now + 1 /\ UNCHANGED tasks
           /\ owed' = owed \cup {<<j, now'>> : j \in {i \in DOMAIN Store :
                                       Store[i].on /\ Store[i].next = now' /\ ~InFlight(i)}}
<1>1. /\ now < MaxTime /\ now' = now + 1 /\ UNCHANGED <<disk, log, up, reading, tasks, wish, fired, torn, reverted>>
      /\ owed' = owed \cup {<<j, now'>> : j \in {i \in DOMAIN Store :
                                       Store[i].on /\ Store[i].next = now' /\ ~InFlight(i)}}
    BY DEF Clock
<1>2. StoreOK /\ TasksOK /\ Given /\ BooksOK /\ ReadOK /\ DOMAIN Store \subseteq Jobs
    BY DEF Base, StoreOK, Holds
<1>3. Store' = Store /\ Logged' = Logged /\ StoreOK'
    BY <1>1, <1>2, StoreSame
<1>4. now \in Nat /\ now' \in Times /\ now <= now'
    BY <1>1, <1>2, BoundAssumption DEF BooksOK, Times
<1>5. TasksOK'
    <2>1. \A i \in DOMAIN tasks : tasks[i].due \in Nat /\ tasks[i].due <= now
        <3>1. \A i \in DOMAIN tasks : tasks[i] \in JobTask
            BY <1>2 DEF TasksOK
        <3> QED
            BY <1>2, <3>1 DEF TasksOK, JobTask
    <2>2. \A i \in DOMAIN tasks : tasks[i].due <= now'
        BY <1>4, <2>1 DEF Times
    <2>3. NoOverlap'
        BY <1>1, <1>2 DEF TasksOK, NoOverlap, Mine
    <2> QED
        BY <1>1, <1>2, <2>2, <2>3 DEF TasksOK
<1>6. Given'
    BY <1>1, <1>2, <1>3 DEF Given
<1>7. BooksOK'
    <2>1. owed' \subseteq Jobs \X Times
        BY <1>1, <1>2, <1>4 DEF BooksOK
    <2> QED
        BY <1>1, <1>2, <1>4, <2>1 DEF BooksOK
<1>8. ReadOK'
    BY <1>1, <1>2, ReadSame DEF ReadKept, ReadOK
<1> QED
    BY <1>1, <1>3, <1>5, <1>6, <1>7, <1>8 DEF Base

\* The steps by who takes them, for the case splits below.
LEMMA NextSplit ==
    ASSUME [Next]_vars
    PROVE  \/ \E p \in Services : Tick(p)
           \/ \E p \in Services : Start(p)
           \/ \E p \in Services : Crash(p)
           \/ \E p \in Services : Torn(p)
           \/ \E i \in DOMAIN tasks : Begin(i) \/ SlotGiven(i)
           \/ \E i \in DOMAIN tasks : End(i)
           \/ \E j \in Jobs, s \in Schedules, once \in BOOLEAN : Add(j, s, once)
           \/ \E j \in Jobs, s \in Schedules, once \in BOOLEAN : Reschedule(j, s, once)
           \/ \E j \in Jobs : RemoveJob(j)
           \/ \E j \in Jobs : Switch(j)
           \/ \E j \in Jobs, p \in Services : RunByHand(p, j)
           \/ \E p \in Services : Look(p)
           \/ \E p \in Services : LookMerges(p)
           \/ Clock
           \/ UNCHANGED vars
BY Zenon DEF Next, TaskStep, Owner, Looking

\* An edit of the owner, of any kind.
LEMMA OwnerIs ==
    ASSUME Base, NEW j \in Jobs,
           \/ \E s \in Schedules, once \in BOOLEAN : Add(j, s, once)
           \/ \E s \in Schedules, once \in BOOLEAN : Reschedule(j, s, once)
           \/ RemoveJob(j)
           \/ Switch(j)
    PROVE  \E w \in Word : Edits(j, w) /\ OnTime(j)' /\ (WordHolds(j) => WordHolds(j)')
<1>1. ASSUME NEW s \in Schedules, NEW once \in BOOLEAN, Add(j, s, once)
      PROVE  \E w \in Word : Edits(j, w) /\ OnTime(j)' /\ (WordHolds(j) => WordHolds(j)')
    BY <1>1, AddIs, Zenon
<1>2. ASSUME NEW s \in Schedules, NEW once \in BOOLEAN, Reschedule(j, s, once)
      PROVE  \E w \in Word : Edits(j, w) /\ OnTime(j)' /\ (WordHolds(j) => WordHolds(j)')
    BY <1>2, RescheduleIs, Zenon
<1>3. ASSUME RemoveJob(j)
      PROVE  \E w \in Word : Edits(j, w) /\ OnTime(j)' /\ (WordHolds(j) => WordHolds(j)')
    BY <1>3, RemoveIs, Zenon
<1>4. ASSUME Switch(j)
      PROVE  \E w \in Word : Edits(j, w) /\ OnTime(j)' /\ (WordHolds(j) => WordHolds(j)')
    BY <1>4, SwitchIs, Zenon
<1> QED
    BY <1>1, <1>2, <1>3, <1>4

\* A step is an edit of one job, or one of the others.
LEMMA StepSplit ==
    ASSUME Base, [Next]_vars
    PROVE  \/ \E p \in Services : Tick(p)
           \/ \E p \in Services : Start(p)
           \/ \E p \in Services : Crash(p)
           \/ \E p \in Services : Torn(p)
           \/ \E i \in DOMAIN tasks : Begin(i) \/ SlotGiven(i)
           \/ \E i \in DOMAIN tasks : End(i)
           \/ \E j \in Jobs, w \in Word : Edits(j, w) /\ OnTime(j)' /\ (WordHolds(j) => WordHolds(j)')
           \/ \E j \in Jobs, p \in Services : RunByHand(p, j)
           \/ \E p \in Services : Look(p)
           \/ \E p \in Services : LookMerges(p)
           \/ Clock
           \/ UNCHANGED vars
BY NextSplit, OwnerIs, Zenon

LEMMA VarsBase == ASSUME Base, UNCHANGED vars PROVE Base' /\ Store' = Store /\ Logged' = Logged
<1>1. UNCHANGED <<now, disk, log, up, reading, tasks, wish, fired, owed, torn, reverted>>
    BY DEF vars, history
<1>2. Store' = Store /\ Logged' = Logged /\ StoreOK'
    BY <1>1, StoreSame DEF Base
<1>3. TasksOK' /\ Given' /\ BooksOK'
    BY <1>1, <1>2 DEF Base, TasksOK, NoOverlap, Mine, Given, BooksOK
<1>4. ReadOK'
    BY <1>1, ReadSame DEF Base, ReadKept, ReadOK
<1> QED
    BY <1>2, <1>3, <1>4 DEF Base

LEMMA BaseStep == Base /\ [Next]_vars => Base'
<1> SUFFICES ASSUME Base, [Next]_vars PROVE Base'
    OBVIOUS
<1>1. ASSUME NEW p \in Services, Tick(p) PROVE Base'
    BY <1>1, TickIs
<1>2. ASSUME NEW p \in Services, Start(p) PROVE Base'
    BY <1>2, StartIs
<1>3. ASSUME NEW p \in Services, Crash(p) PROVE Base'
    BY <1>3, CrashIs
<1>4. ASSUME NEW p \in Services, Torn(p) PROVE Base'
    BY <1>4, TornIs
<1>5. ASSUME NEW i \in DOMAIN tasks, Begin(i) \/ SlotGiven(i) PROVE Base'
    BY <1>5, BeginIs
<1>6. ASSUME NEW i \in DOMAIN tasks, End(i) PROVE Base'
    BY <1>6, EndIs
<1>7. ASSUME NEW j \in Jobs, NEW w \in Word, Edits(j, w) PROVE Base'
    BY <1>7 DEF Edits
<1>8. ASSUME NEW j \in Jobs, NEW p \in Services, RunByHand(p, j) PROVE Base'
    BY <1>8, RunByHandIs
<1>9. ASSUME Clock PROVE Base'
    BY <1>9, ClockIs
<1>10. ASSUME UNCHANGED vars PROVE Base'
    BY <1>10, VarsBase
<1>11. ASSUME NEW p \in Services, Look(p) PROVE Base'
    BY <1>11, LookIs
<1>12. ASSUME NEW p \in Services, LookMerges(p) PROVE Base'
    BY <1>12, LookMergesIs
<1> QED
    BY <1>1, <1>2, <1>3, <1>4, <1>5, <1>6, <1>7, <1>8, <1>9, <1>10, <1>11, <1>12, StepSplit, Zenon

LEMMA AlwaysBase == Spec => []Base
<1>1. Init => Base
    BY InitBase
<1>2. Base /\ [Next]_vars => Base'
    BY BaseStep
<1> QED
    BY <1>1, <1>2, PTL DEF Spec

\* The store, the tasks and the pool always agree: every job, edit and task is one, no
\* task outlives its scheduler, and no job executes twice at once in one scheduler,
\* whatever ticks, waits for a slot and runs by hand meet (service.py:720-729).
THEOREM StoreAgrees == Spec => []CronConsistent
<1>1. Base => CronConsistent
    BY BaseConsistent
<1> QED
    BY <1>1, AlwaysBase, PTL
---------------------------------------------------------------------------
(* An occurrence is taken up once                                          *)

\* What is on and was taken up before has its next run after that, and is no one-shot,
\* unless a look has put it back.
Later(j) ==
    j \in DOMAIN Store /\ j \notin reverted =>
        (Store[j].on => \A t \in Times : fired[j][t] # 0 =>
                            Store[j].sched.kind # "at" /\ (Store[j].next # None => t < Store[j].next))

\* An edit that is not merged yet settled what was taken up before it.
Fires ==
    /\ FiredOnce
    /\ \A j \in Jobs : \A t \in Times : fired[j][t] # 0 => t <= now
    /\ \A j \in Logged : \A t \in Times : fired[j][t] = 0
    /\ \A j \in Jobs : Later(j)

LEMMA FiresInit == Init => Fires
<1> SUFFICES ASSUME Init PROVE Fires
    OBVIOUS
<1>1. \A j \in Jobs : \A t \in Times : fired[j][t] = 0
    BY DEF Init
<1>2. Logged = {}
    BY DEF Init, Logged
<1>3. FiredOnce
    BY <1>1 DEF FiredOnce
<1> QED
    BY <1>1, <1>2, <1>3 DEF Fires, Later

\* A step that takes nothing up.
LEMMA NothingFires ==
    ASSUME Base, Base', Fires, fired' = fired, now <= now', Logged' \subseteq Logged, reverted \subseteq reverted',
           \A j \in Jobs : Later(j)'
    PROVE  Fires'
<1>1. now \in Nat /\ now' \in Nat
    BY BoundAssumption DEF Base, BooksOK, Times
<1>2. \A j \in Jobs : \A t \in Times : fired'[j][t] # 0 => t <= now'
    BY <1>1 DEF Fires, Times
<1> QED
    BY <1>2 DEF Fires, FiredOnce

\* What happens to a job that no other step than a tick takes up: its next run is as it was.
LEMMA LaterAlike ==
    ASSUME NEW j \in Jobs, Later(j), Alike(Store, Store', j), fired'[j] = fired[j], reverted \subseteq reverted'
    PROVE  Later(j)'
BY DEF Later, Alike

LEMMA FiresTick ==
    ASSUME Base, Fires, NEW p \in Services, Tick(p)
    PROVE  Fires'
<1> DEFINE due == {j \in DOMAIN Store : Due(Store[j])}
<1>1. /\ Base' /\ Logged' = {} /\ DOMAIN Store' \subseteq DOMAIN Store
      /\ \A j \in DOMAIN Store' : Store'[j] = IF Due(Store[j]) THEN Advanced(Store[j]) ELSE Store[j]
    BY TickIs
<1>2. fired' = [j \in Jobs |-> IF j \in due THEN [fired[j] EXCEPT ![Store[j].next] = @ + 1] ELSE fired[j]]
    BY DEF Tick
<1>3. now' = now /\ reverted' = reverted
    BY DEF Tick
<1>4. /\ now \in Times /\ now \in Nat /\ MaxTime \in Nat /\ \A j \in Jobs : fired[j] \in [Times -> Nat]
      /\ \A j \in DOMAIN Store : j \in Jobs /\ Store[j] \in Job
    BY BoundAssumption DEF Base, BooksOK, Times, StoreOK, Holds
<1>5. ASSUME NEW j \in due
      PROVE  /\ j \in Jobs /\ Store[j].next \in Times /\ Store[j].next <= now /\ Store[j].on
             /\ j \notin reverted => fired'[j][Store[j].next] = 1
             /\ \A t \in Times \ {Store[j].next} : fired'[j][t] = fired[j][t]
    <2>1. j \in DOMAIN Store /\ j \in Jobs /\ Store[j] \in Job /\ Due(Store[j])
        BY <1>4, <1>5
    <2>2. Store[j].next \in Nat /\ Store[j].next # 0 /\ Store[j].next <= now /\ Store[j].on
        BY <1>4, <2>1 DEF Due, Job
    <2>3. Store[j].next \in Times
        BY <1>4, <2>2 DEF Times
    <2>4. j \notin reverted => fired[j][Store[j].next] = 0
        BY <2>1, <2>2, <2>3 DEF Fires, Later
    <2> HIDE DEF due
    <2>5. fired'[j] = [fired[j] EXCEPT ![Store[j].next] = @ + 1]
        BY <1>2, <1>5, <2>1
    <2> QED
        BY <1>4, <2>1, <2>2, <2>3, <2>4, <2>5
<1>6. ASSUME NEW j \in Jobs, j \notin due PROVE fired'[j] = fired[j]
    BY <1>2, <1>6
<1>7. FiredOnce'
    <2> SUFFICES ASSUME NEW j \in Jobs \ reverted, NEW t \in Times PROVE fired'[j][t] <= 1
        BY <1>3 DEF FiredOnce
    <2>1. fired[j][t] <= 1
        BY DEF Fires, FiredOnce
    <2> QED
        BY <1>5, <1>6, <2>1
<1>8. \A j \in Jobs : \A t \in Times : fired'[j][t] # 0 => t <= now'
    <2> SUFFICES ASSUME NEW j \in Jobs, NEW t \in Times, fired'[j][t] # 0 PROVE t <= now
        BY <1>3
    <2>1. CASE j \in due
        BY <1>5, <2>1 DEF Fires
    <2>2. CASE j \notin due
        BY <1>6, <2>2 DEF Fires
    <2> QED
        BY <2>1, <2>2
<1>9. ASSUME NEW j \in Jobs PROVE Later(j)'
    <2> SUFFICES ASSUME j \in DOMAIN Store', j \notin reverted, Store'[j].on, NEW t \in Times, fired'[j][t] # 0
                 PROVE  Store'[j].sched.kind # "at" /\ (Store'[j].next # None => t < Store'[j].next)
        BY <1>3 DEF Later
    <2>1. j \in DOMAIN Store /\ Store[j] \in Job
        BY <1>1, <1>4
    <2>2. CASE Due(Store[j])
        <3>1. Store'[j] = Advanced(Store[j])
            BY <1>1, <2>2
        <3>2. Store'[j].sched.kind # "at" /\ now < Store'[j].next /\ Store'[j].next \in Nat
            BY <1>4, <2>1, <3>1, AdvancedIs DEF Job
        <3>3. t <= now
            BY <1>3, <1>8
        <3> QED
            BY <1>4, <3>2, <3>3 DEF Times
    <2>3. CASE ~Due(Store[j])
        BY <1>1, <1>6, <2>1, <2>3 DEF Fires, Later
    <2> QED
        BY <2>2, <2>3
<1> QED
    BY <1>1, <1>7, <1>8, <1>9 DEF Fires

LEMMA FiresStart ==
    ASSUME Base, Fires, NEW p \in Services, Start(p)
    PROVE  Fires'
<1>1. /\ Base' /\ Logged' = {} /\ DOMAIN Store' \subseteq DOMAIN Store
      /\ \A j \in DOMAIN Store' : Store'[j] = Settled(Store[j])
    BY StartIs
<1>2. now' = now /\ fired' = fired /\ reverted' = reverted
    BY DEF Start
<1>3. /\ now \in Times /\ now \in Nat /\ MaxTime \in Nat
      /\ \A j \in DOMAIN Store : j \in Jobs /\ Store[j] \in Job
    BY BoundAssumption DEF Base, BooksOK, Times, StoreOK, Holds
<1>4. ASSUME NEW j \in Jobs PROVE Later(j)'
    <2> SUFFICES ASSUME j \in DOMAIN Store', j \notin reverted, Store'[j].on, NEW t \in Times, fired[j][t] # 0
                 PROVE  Store'[j].sched.kind # "at" /\ (Store'[j].next # None => t < Store'[j].next)
        BY <1>2 DEF Later
    <2> DEFINE job == Store[j]
    <2>1. j \in DOMAIN Store /\ job \in Job /\ Store'[j] = Settled(job)
        BY <1>1, <1>3
    <2>2. t <= now
        BY DEF Fires
    <2>3. /\ job.on => job.sched.kind # "at" /\ (job.next # None => t < job.next)
        BY <2>1 DEF Fires, Later
    <2>4. t \in Nat /\ job.next \in Nat
        BY <2>1 DEF Times, Job
    <2> HIDE DEF job
    <2>5. job.on /\ Settled(job).sched = job.sched /\ Settled(job) \in Job
        BY <1>3, <2>1, SettledIs
    <2>6. \/ now < job.next /\ Settled(job).next = job.next
          \/ now < Settled(job).next
        BY <1>3, <2>1, <2>3, <2>5, SettledIs
    <2>7. Settled(job).next \in Nat
        BY <2>5 DEF Job
    <2> QED
        BY <1>3, <2>1, <2>2, <2>3, <2>4, <2>5, <2>6, <2>7
<1>5. Logged' \subseteq Logged /\ now <= now'
    BY <1>1, <1>2, <1>3
<1> QED
    BY <1>1, <1>2, <1>4, <1>5, NothingFires

LEMMA FiresEnd ==
    ASSUME Base, Fires, NEW i \in DOMAIN tasks, End(i)
    PROVE  Fires'
<1>0. PICK j : j = tasks[i].id
    OBVIOUS
<1>1. /\ Base' /\ Logged' = {} /\ j \in Jobs /\ DOMAIN Store' \subseteq DOMAIN Store
      /\ \A q \in Jobs \ {j} : Alike(Store, Store', q)
      /\ j \in DOMAIN Store' =>
            /\ Store'[j].sched = Store[j].sched
            /\ Store'[j].on => Store[j].on /\ tasks[i].snap.sched.kind # "at" /\ now < Store'[j].next
    BY <1>0, EndIs
<1>2. now' = now /\ fired' = fired /\ reverted' = reverted
    BY DEF End
<1>3. now \in Nat
    BY BoundAssumption DEF Base, BooksOK, Times
<1>4. Later(j)'
    <2> SUFFICES ASSUME j \in DOMAIN Store', j \notin reverted, Store'[j].on, NEW t \in Times, fired[j][t] # 0
                 PROVE  Store'[j].sched.kind # "at" /\ t < Store'[j].next
        BY <1>2 DEF Later
    <2>0. Holds(Store)'
        BY <1>1 DEF Base, StoreOK
    <2>1. Store'[j] \in Job
        BY <2>0 DEF Holds
    <2>2. Store'[j].next \in Nat /\ now < Store'[j].next
        BY <1>1, <2>1 DEF Job
    <2>3. t \in Nat /\ t <= now
        BY <1>1 DEF Fires, Times
    <2>4. Store[j].sched.kind # "at"
        BY <1>1 DEF Fires, Later
    <2> QED
        BY <1>1, <1>3, <2>2, <2>3, <2>4
<1>5. \A q \in Jobs \ {j} : Later(q)'
    BY <1>1, <1>2, LaterAlike DEF Fires
<1>6. \A q \in Jobs : Later(q)'
    BY <1>4, <1>5
<1>7. Logged' \subseteq Logged /\ now <= now'
    BY <1>1, <1>2, <1>3
<1> QED
    BY <1>1, <1>2, <1>6, <1>7, NothingFires

LEMMA FiresEdit ==
    ASSUME Base, Fires, NEW j \in Jobs, NEW w \in Word, Edits(j, w)
    PROVE  Fires'
<1>1. /\ Base' /\ now' = now /\ Logged' \subseteq Logged \cup {j}
      /\ \A q \in Jobs \ {j} : Alike(Store, Store', q)
    BY DEF Edits
<1>2. fired' = [fired EXCEPT ![j] = [t \in Times |-> 0]] /\ reverted' = reverted
    BY DEF Edits, Says
<1>3. fired \in [Jobs -> [Times -> Nat]]
    BY DEF Base, BooksOK
<1>4. (\A t \in Times : fired'[j][t] = 0) /\ \A q \in Jobs \ {j} : fired'[q] = fired[q]
    BY <1>2, <1>3
<1>5. FiredOnce'
    BY <1>2, <1>4 DEF Fires, FiredOnce
<1>6. \A q \in Jobs : \A t \in Times : fired'[q][t] # 0 => t <= now'
    BY <1>1, <1>4 DEF Fires
<1>7. Logged' \subseteq Jobs
    BY <1>1 DEF Base, Given
<1>8. \A q \in Logged' : \A t \in Times : fired'[q][t] = 0
    BY <1>1, <1>4, <1>7 DEF Fires
<1>9. \A q \in Jobs \ {j} : Later(q)'
    BY <1>1, <1>2, <1>4, LaterAlike DEF Fires
<1>10. Later(j)'
    BY <1>4 DEF Later
<1> QED
    BY <1>5, <1>6, <1>8, <1>9, <1>10 DEF Fires

LEMMA FiresTorn ==
    ASSUME Base, Fires, NEW p \in Services, Torn(p)
    PROVE  Fires'
<1>1. Base' /\ Logged' = {} /\ \A j \in Jobs \ Logged : Alike(Store, Store', j)
    BY TornIs
<1>2. now' = now /\ fired' = fired /\ reverted' = reverted
    BY DEF Torn, Dies
<1>3. \A j \in Jobs \ Logged : Later(j)'
    BY <1>1, <1>2, LaterAlike DEF Fires
<1>4. \A j \in Logged : Later(j)'
    BY <1>2 DEF Later, Fires
<1>5. Logged' \subseteq Logged /\ now <= now' /\ \A j \in Jobs : Later(j)'
    BY <1>1, <1>2, <1>3, <1>4, BoundAssumption DEF Base, BooksOK, Times
<1> QED
    BY <1>1, <1>2, <1>5, NothingFires

\* What a look has put back is not spoken of any more, the rest is as it was.
LEMMA FiresLook ==
    ASSUME Base, Fires, NEW p \in Services, LookMerges(p)
    PROVE  Fires'
<1>1. /\ Base' /\ Logged' \subseteq Logged /\ reverted \subseteq reverted'
      /\ \A j \in Jobs \ reverted' : Alike(Store, Store', j)
    BY LookMergesIs
<1>2. now' = now /\ fired' = fired
    BY DEF LookMerges
<1>3. \A j \in Jobs \ reverted' : Later(j)'
    BY <1>1, <1>2, LaterAlike DEF Fires
<1>4. \A j \in Jobs : Later(j)'
    BY <1>3 DEF Later
<1>5. now <= now'
    BY <1>2, BoundAssumption DEF Base, BooksOK, Times
<1> QED
    BY <1>1, <1>2, <1>4, <1>5, NothingFires

LEMMA FiresStill ==
    ASSUME Base, Base', Fires, Store' = Store, fired' = fired, now <= now', Logged' \subseteq Logged,
           reverted' = reverted
    PROVE  Fires'
<1>1. \A j \in Jobs : Later(j)'
    BY DEF Fires, Later
<1> QED
    BY <1>1, NothingFires

LEMMA FiresStep == Base /\ Fires /\ [Next]_vars => Fires'
<1> SUFFICES ASSUME Base, Fires, [Next]_vars PROVE Fires'
    OBVIOUS
<1>0. now \in Nat
    BY BoundAssumption DEF Base, BooksOK, Times
<1>1. ASSUME NEW p \in Services, Tick(p) PROVE Fires'
    BY <1>1, FiresTick
<1>2. ASSUME NEW p \in Services, Start(p) PROVE Fires'
    BY <1>2, FiresStart
<1>3. ASSUME NEW p \in Services, Crash(p) PROVE Fires'
    <2>1. Base' /\ Store' = Store /\ Logged' = Logged
        BY <1>3, CrashIs
    <2>2. fired' = fired /\ now' = now /\ reverted' = reverted
        BY <1>3 DEF Crash, Dies
    <2>3. now <= now' /\ Logged' \subseteq Logged
        BY <1>0, <2>1, <2>2
    <2> QED
        BY <2>1, <2>2, <2>3, FiresStill
<1>4. ASSUME NEW p \in Services, Torn(p) PROVE Fires'
    BY <1>4, FiresTorn
<1>5. ASSUME NEW i \in DOMAIN tasks, Begin(i) \/ SlotGiven(i) PROVE Fires'
    <2>1. Base' /\ Store' = Store /\ Logged' = Logged
        BY <1>5, BeginIs
    <2>2. fired' = fired /\ now' = now /\ reverted' = reverted
        BY <1>5 DEF Begin, SlotGiven, history
    <2>3. now <= now' /\ Logged' \subseteq Logged
        BY <1>0, <2>1, <2>2
    <2> QED
        BY <2>1, <2>2, <2>3, FiresStill
<1>6. ASSUME NEW i \in DOMAIN tasks, End(i) PROVE Fires'
    BY <1>6, FiresEnd
<1>7. ASSUME NEW j \in Jobs, NEW w \in Word, Edits(j, w) PROVE Fires'
    BY <1>7, FiresEdit
<1>8. ASSUME NEW j \in Jobs, NEW p \in Services, RunByHand(p, j) PROVE Fires'
    <2>1. Base' /\ Store' = Store /\ Logged' = {}
        BY <1>8, RunByHandIs
    <2>2. fired' = fired /\ now' = now /\ reverted' = reverted
        BY <1>8 DEF RunByHand, history
    <2>3. now <= now' /\ Logged' \subseteq Logged
        BY <1>0, <2>1, <2>2
    <2> QED
        BY <2>1, <2>2, <2>3, FiresStill
<1>9. ASSUME Clock PROVE Fires'
    <2>1. Base' /\ Store' = Store /\ Logged' = Logged /\ now' = now + 1
        BY <1>9, ClockIs
    <2>2. fired' = fired /\ reverted' = reverted
        BY <1>9 DEF Clock
    <2>3. now <= now' /\ Logged' \subseteq Logged
        BY <1>0, <2>1
    <2> QED
        BY <2>1, <2>2, <2>3, FiresStill
<1>10. ASSUME UNCHANGED vars PROVE Fires'
    <2>1. Base' /\ Store' = Store /\ Logged' = Logged
        BY <1>10, VarsBase
    <2>2. fired' = fired /\ now' = now /\ reverted' = reverted
        BY <1>10 DEF vars, history
    <2>3. now <= now' /\ Logged' \subseteq Logged
        BY <1>0, <2>1, <2>2
    <2> QED
        BY <2>1, <2>2, <2>3, FiresStill
<1>11. ASSUME NEW p \in Services, Look(p) PROVE Fires'
    <2>1. Base' /\ Store' = Store /\ Logged' = Logged
        BY <1>11, LookIs
    <2>2. fired' = fired /\ now' = now /\ reverted' = reverted
        BY <1>11 DEF Look, history
    <2>3. now <= now' /\ Logged' \subseteq Logged
        BY <1>0, <2>1, <2>2
    <2> QED
        BY <2>1, <2>2, <2>3, FiresStill
<1>12. ASSUME NEW p \in Services, LookMerges(p) PROVE Fires'
    BY <1>12, FiresLook
<1> QED
    BY <1>1, <1>2, <1>3, <1>4, <1>5, <1>6, <1>7, <1>8, <1>9, <1>10, <1>11, <1>12, StepSplit, Zenon

\* An occurrence of a job is taken up at most once since the owner's last word on it, by
\* however many schedulers on the store, over their deaths, starts and torn merges, and
\* whatever runs end meanwhile: a tick advances a job in the step that takes it up
\* (service.py:616-637).  Excepted are the jobs that a look has put back as they were
\* before (reverted): it saves what it read without the lock (service.py:273-275).
THEOREM OccurrenceFiresOnce == Spec => []FiredOnce
<1>1. Init => Fires
    BY FiresInit
<1>2. Base /\ Fires /\ [Next]_vars => Fires'
    BY FiresStep
<1>3. Fires => FiredOnce
    BY DEF Fires
<1> QED
    BY <1>1, <1>2, <1>3, AlwaysBase, PTL DEF Spec
---------------------------------------------------------------------------
(* What came due stays on the books                                        *)

Exempt == torn \cup crossed \cup reverted

OnBooks(o) ==
    o[1] \in Exempt \/ (o[1] \in DOMAIN Store /\ Store[o[1]].on /\ Store[o[1]].next = o[2])

\* A task's copy of its job has the schedule that the job has.
Fits(u) == u.id \in DOMAIN Store /\ u.id \notin Exempt => u.snap.sched = Store[u.id].sched

Owes ==
    /\ \A o \in owed : OnBooks(o) /\ o[2] <= now
    /\ \A j \in Jobs \ Exempt : OnTime(j)
    /\ \A i \in DOMAIN tasks : Fits(tasks[i])

LEMMA OwesKept == Owes => OwedKept
BY DEF Owes, OnBooks, Exempt, OwedKept

LEMMA OwesInit == Init => Owes
<1> SUFFICES ASSUME Init PROVE Owes
    OBVIOUS
<1>1. Store = <<>> /\ DOMAIN <<>> = {}
    BY MergeEmpty DEF Init, Store
<1>2. owed = {} /\ tasks = <<>>
    BY DEF Init
<1> QED
    BY <1>1, <1>2 DEF Owes, OnTime

\* A step that leaves the store alone, and takes tasks away at most.
LEMMA OwesStill ==
    ASSUME Base, Owes, Store' = Store, Exempt' = Exempt, owed' \subseteq owed, now' = now,
           \A k \in DOMAIN tasks' : OldTask(tasks'[k])
    PROVE  Owes'
<1>1. \A o \in owed' : OnBooks(o)' /\ o[2] <= now'
    BY DEF Owes, OnBooks
<1>2. \A j \in Jobs \ Exempt' : OnTime(j)'
    BY DEF Owes, OnTime
<1>3. \A k \in DOMAIN tasks' : Fits(tasks[k])'
    BY DEF Owes, OldTask, Fits
<1> QED
    BY <1>1, <1>2, <1>3 DEF Owes

LEMMA OwesTick ==
    ASSUME Base, Owes, NEW p \in Services, Tick(p)
    PROVE  Owes'
<1>1. /\ Base' /\ DOMAIN Store' \subseteq DOMAIN Store
      /\ \A j \in DOMAIN Store' : Store'[j] = IF Due(Store[j]) THEN Advanced(Store[j]) ELSE Store[j]
      /\ \A k \in DOMAIN tasks' :
            \/ OldTask(tasks'[k])
            \/ tasks'[k].id \in DOMAIN Store /\ Due(Store[tasks'[k].id])
                 /\ tasks'[k].snap = Advanced(Store[tasks'[k].id])
    BY TickIs
<1>2. /\ owed' = {o \in owed : o[1] \notin {j \in DOMAIN Store : Due(Store[j])}}
      /\ now' = now /\ Exempt' = Exempt
    BY DEF Tick, Exempt
<1>3. /\ now \in Times /\ now \in Nat /\ owed \subseteq Jobs \X Times
      /\ \A j \in DOMAIN Store : j \in Jobs /\ Store[j] \in Job
    BY BoundAssumption DEF Base, BooksOK, Times, StoreOK, Holds
<1>4. \A j \in DOMAIN Store' :
        /\ j \in DOMAIN Store /\ Store'[j].sched = Store[j].sched
        /\ ~Due(Store[j]) => Store'[j] = Store[j]
        /\ Due(Store[j]) /\ Store[j].sched.kind = "at" => ~Store'[j].on
    BY <1>1, <1>3, AdvancedIs
<1>5. \A o \in owed' : OnBooks(o)' /\ o[2] <= now'
    <2> TAKE o \in owed'
    <2>1. o \in owed /\ o \in Jobs \X Times /\ OnBooks(o) /\ o[2] <= now
          /\ ~(o[1] \in DOMAIN Store /\ Due(Store[o[1]]))
        BY <1>2, <1>3 DEF Owes
    <2>2. o[2] # 0 /\ o[2] \in Nat
        BY <2>1 DEF Times
    <2>3. o[1] \in Exempt
        BY <1>3, <2>1, <2>2 DEF OnBooks, Due
    <2> QED
        BY <1>2, <2>1, <2>3 DEF OnBooks
<1>6. \A j \in Jobs \ Exempt' : OnTime(j)'
    BY <1>2, <1>4 DEF Owes, OnTime
<1>7. \A k \in DOMAIN tasks' : Fits(tasks[k])'
    <2> SUFFICES ASSUME NEW k \in DOMAIN tasks', tasks'[k].id \in DOMAIN Store', tasks'[k].id \notin Exempt
                 PROVE  tasks'[k].snap.sched = Store'[tasks'[k].id].sched
        BY <1>2 DEF Fits
    <2>1. CASE OldTask(tasks'[k])
        <3>1. tasks'[k].snap.sched = Store[tasks'[k].id].sched
            BY <1>4, <2>1 DEF OldTask, Owes, Fits
        <3> QED
            BY <1>4, <3>1
    <2>2. CASE tasks'[k].snap = Advanced(Store[tasks'[k].id])
        BY <1>3, <1>4, <2>2, AdvancedIs
    <2> QED
        BY <1>1, <2>1, <2>2
<1> QED
    BY <1>5, <1>6, <1>7 DEF Owes

\* A start: what came due and is still due stays; what is given up is recorded as skipped.
LEMMA OwesStart ==
    ASSUME Base, Owes, NEW p \in Services, Start(p)
    PROVE  Owes'
<1>1. /\ Base' /\ DOMAIN Store' \subseteq DOMAIN Store
      /\ \A j \in DOMAIN Store' : Store'[j] = Settled(Store[j])
      /\ owed' = {o \in owed : o[1] \in DOMAIN Store' /\ <<"skipped", o[2]>> \notin Store'[o[1]].hist}
    BY StartIs
<1>2. now' = now /\ Exempt' = Exempt /\ tasks' = tasks
    BY DEF Start, Exempt
<1>3. /\ now \in Times /\ now \in Nat /\ owed \subseteq Jobs \X Times
      /\ \A j \in DOMAIN Store : j \in Jobs /\ Store[j] \in Job
    BY BoundAssumption DEF Base, BooksOK, Times, StoreOK, Holds
<1>4. ASSUME NEW j \in DOMAIN Store', j \notin Exempt, NEW t \in Times, t <= now,
             Store[j].on, Store[j].next = t, <<"skipped", t>> \notin Store'[j].hist
      PROVE  Store'[j].on /\ Store'[j].next = t
    <2> DEFINE job == Store[j]
    <2>1. j \in DOMAIN Store /\ job \in Job /\ Store'[j] = Settled(job) /\ job.on /\ job.next = t
        BY <1>1, <1>3, <1>4
    <2>2. t # 0 /\ t \in Nat
        BY <1>4 DEF Times
    <2>3. job.sched.kind = "at" => t = job.sched.t
        BY <1>3, <1>4, <2>1, <2>2 DEF Owes, OnTime
    <2> HIDE DEF job
    <2>4. <<"skipped", t>> \notin Settled(job).hist
        BY <1>4, <2>1
    <2>5. CASE job.sched.kind = "at"
        BY <1>3, <2>1, <2>3, <2>4, <2>5, SettledIs
    <2>6. CASE job.sched.kind # "at"
        <3>1. \/ now < job.next
              \/ job.next # None => <<"skipped", job.next>> \in Settled(job).hist
            BY <1>3, <2>1, <2>6, SettledIs
        <3> QED
            BY <1>3, <1>4, <2>1, <2>2, <2>4, <3>1
    <2> QED
        BY <2>5, <2>6
<1>5. \A o \in owed' : OnBooks(o)' /\ o[2] <= now'
    <2> TAKE o \in owed'
    <2>1. /\ o \in owed /\ o[2] \in Times /\ OnBooks(o) /\ o[2] <= now
          /\ o[1] \in DOMAIN Store' /\ <<"skipped", o[2]>> \notin Store'[o[1]].hist
        BY <1>1, <1>3 DEF Owes
    <2>2. CASE o[1] \in Exempt
        BY <1>2, <2>1, <2>2 DEF OnBooks
    <2>3. CASE o[1] \notin Exempt
        <3>1. Store[o[1]].on /\ Store[o[1]].next = o[2]
            BY <2>1, <2>3 DEF OnBooks
        <3>2. Store'[o[1]].on /\ Store'[o[1]].next = o[2]
            BY <1>4, <2>1, <2>3, <3>1
        <3> QED
            BY <1>2, <2>1, <3>2 DEF OnBooks
    <2> QED
        BY <2>2, <2>3
<1>6. \A j \in Jobs \ Exempt' : OnTime(j)'
    <2> SUFFICES ASSUME NEW j \in DOMAIN Store', Store'[j].on, Store'[j].sched.kind = "at"
                 PROVE  Store'[j].next \in {None, Store'[j].sched.t}
        BY DEF OnTime
    <2> DEFINE job == Store[j]
    <2>1. job \in Job /\ Store'[j] = Settled(job)
        BY <1>1, <1>3
    <2> HIDE DEF job
    <2>2. job.on /\ Settled(job).sched = job.sched /\ job.sched.kind = "at"
        <3>1. Settled(job).on /\ Settled(job).sched.kind = "at"
            BY <2>1
        <3>2. Settled(job).sched = job.sched /\ (Settled(job).on => job.on)
            BY <1>3, <2>1, SettledIs
        <3> QED
            BY <3>1, <3>2
    <2>3. IF Late(job) THEN Settled(job).next = None ELSE Settled(job).next = job.sched.t
        BY <1>3, <2>1, <2>2, SettledIs
    <2> QED
        BY <2>1, <2>2, <2>3
<1>7. \A k \in DOMAIN tasks' : Fits(tasks[k])'
    <2>1. \A j \in DOMAIN Store' : j \in DOMAIN Store /\ Store'[j].sched = Store[j].sched
        BY <1>1, <1>3, SettledIs
    <2> QED
        BY <1>2, <2>1 DEF Owes, Fits
<1> QED
    BY <1>5, <1>6, <1>7 DEF Owes

LEMMA OwesEnd ==
    ASSUME Base, Owes, NEW i \in DOMAIN tasks, End(i)
    PROVE  Owes'
<1>0. PICK j : j = tasks[i].id
    OBVIOUS
<1>1. /\ Base' /\ j \in Jobs
      /\ \A k \in DOMAIN tasks' : OldTask(tasks'[k])
      /\ DOMAIN Store' \subseteq DOMAIN Store
      /\ \A q \in Jobs \ {j} : Alike(Store, Store', q)
      /\ j \in DOMAIN Store' =>
            /\ Store'[j].sched = Store[j].sched
            /\ Store'[j].on => Store[j].on /\ tasks[i].snap.sched.kind # "at" /\ now < Store'[j].next
    BY <1>0, EndIs
<1>2. now' = now /\ Exempt' = Exempt /\ owed' = {o \in owed : o[1] # j}
    BY <1>0 DEF End, Exempt
<1>3. owed \subseteq Jobs \X Times /\ DOMAIN Store \subseteq Jobs
    BY DEF Base, BooksOK, StoreOK, Holds
<1>4. \A o \in owed' : OnBooks(o)' /\ o[2] <= now'
    <2> TAKE o \in owed'
    <2>1. o \in owed /\ o[1] \in Jobs \ {j} /\ OnBooks(o) /\ o[2] <= now
        BY <1>2, <1>3 DEF Owes
    <2>2. Alike(Store, Store', o[1])
        BY <1>1, <2>1
    <2> QED
        BY <1>2, <2>1, <2>2 DEF OnBooks, Alike
<1>5. \A q \in Jobs \ Exempt' : OnTime(q)'
    <2> TAKE q \in Jobs \ Exempt'
    <2>1. CASE q = j
        <3> SUFFICES ASSUME j \in DOMAIN Store', Store'[j].on, Store'[j].sched.kind = "at" PROVE FALSE
            BY <2>1 DEF OnTime
        <3>1. tasks[i].snap.sched = Store[j].sched
            BY <1>0, <1>1, <1>2, <2>1 DEF Owes, Fits
        <3> QED
            BY <1>1, <3>1
    <2>2. CASE q # j
        <3>1. Alike(Store, Store', q) /\ OnTime(q)
            BY <1>1, <1>2, <2>2 DEF Owes
        <3> QED
            BY <3>1 DEF OnTime, Alike
    <2> QED
        BY <2>1, <2>2
<1>6. \A k \in DOMAIN tasks' : Fits(tasks[k])'
    <2>1. \A q \in DOMAIN Store' : q \in DOMAIN Store /\ Store'[q].sched = Store[q].sched
        BY <1>1, <1>3 DEF Alike
    <2> QED
        BY <1>1, <1>2, <2>1 DEF Owes, OldTask, Fits
<1> QED
    BY <1>4, <1>5, <1>6 DEF Owes

LEMMA OwesEdit ==
    ASSUME Base, Owes, NEW j \in Jobs, NEW w \in Word, Edits(j, w), OnTime(j)'
    PROVE  Owes'
<1>1. /\ now' = now /\ tasks' = tasks /\ owed' = {o \in owed : o[1] # j}
      /\ crossed' = IF InFlight(j) THEN crossed \cup {j} ELSE crossed
      /\ torn' = torn /\ reverted' = reverted
      /\ \A q \in Jobs \ {j} : Alike(Store, Store', q)
    BY DEF Edits, Says
<1>2. Exempt \subseteq Exempt' /\ (InFlight(j) => j \in Exempt')
    BY <1>1 DEF Exempt
<1>3. /\ owed \subseteq Jobs \X Times
      /\ \A i \in DOMAIN tasks : tasks[i].id \in Jobs
    <2>1. \A i \in DOMAIN tasks : tasks[i] \in JobTask
        BY DEF Base, TasksOK
    <2> QED
        BY <2>1 DEF Base, BooksOK, JobTask
<1>4. \A o \in owed' : OnBooks(o)' /\ o[2] <= now'
    <2> TAKE o \in owed'
    <2>1. o \in owed /\ o[1] \in Jobs \ {j} /\ OnBooks(o) /\ o[2] <= now
        BY <1>1, <1>3 DEF Owes
    <2>2. Alike(Store, Store', o[1])
        BY <1>1, <2>1
    <2> QED
        BY <1>1, <1>2, <2>1, <2>2 DEF OnBooks, Alike
<1>5. \A q \in Jobs \ Exempt' : OnTime(q)'
    <2> TAKE q \in Jobs \ Exempt'
    <2>1. CASE q # j
        <3>1. Alike(Store, Store', q) /\ OnTime(q)
            BY <1>1, <1>2, <2>1 DEF Owes
        <3> QED
            BY <3>1 DEF OnTime, Alike
    <2> QED
        BY <2>1
<1>6. \A k \in DOMAIN tasks' : Fits(tasks[k])'
    <2> SUFFICES ASSUME NEW k \in DOMAIN tasks, tasks[k].id \in DOMAIN Store', tasks[k].id \notin Exempt'
                 PROVE  tasks[k].snap.sched = Store'[tasks[k].id].sched
        BY <1>1 DEF Fits
    <2>1. tasks[k].id # j
        BY <1>2 DEF InFlight
    <2>2. Alike(Store, Store', tasks[k].id)
        BY <1>1, <1>3, <2>1
    <2> QED
        BY <1>2, <2>2 DEF Owes, Fits, Alike
<1> QED
    BY <1>4, <1>5, <1>6 DEF Owes

LEMMA OwesByHand ==
    ASSUME Base, Owes, NEW j \in Jobs, NEW p \in Services, RunByHand(p, j)
    PROVE  Owes'
<1>1. /\ Store' = Store
      /\ \A k \in DOMAIN tasks' :
            \/ OldTask(tasks'[k])
            \/ tasks'[k].id = j /\ j \in DOMAIN Store /\ tasks'[k].snap = Store[j]
    BY RunByHandIs
<1>2. now' = now /\ Exempt' = Exempt /\ owed' = owed
    BY DEF RunByHand, history, Exempt
<1>3. \A o \in owed' : OnBooks(o)' /\ o[2] <= now'
    BY <1>1, <1>2 DEF Owes, OnBooks
<1>4. \A q \in Jobs \ Exempt' : OnTime(q)'
    BY <1>1, <1>2 DEF Owes, OnTime
<1>5. \A k \in DOMAIN tasks' : Fits(tasks[k])'
    BY <1>1, <1>2 DEF Owes, OldTask, Fits
<1> QED
    BY <1>3, <1>4, <1>5 DEF Owes

LEMMA OwesTorn ==
    ASSUME Base, Owes, NEW p \in Services, Torn(p)
    PROVE  Owes'
<1>1. /\ torn' = torn \cup Logged
      /\ \A j \in Jobs \ Logged : Alike(Store, Store', j)
      /\ \A k \in DOMAIN tasks' : OldTask(tasks'[k])
      /\ Holds(Store')
    BY TornIs DEF Base, StoreOK
<1>2. now' = now /\ owed' = owed /\ crossed' = crossed /\ reverted' = reverted
    BY DEF Torn, Dies
<1>3. Exempt' = Exempt \cup Logged
    BY <1>1, <1>2 DEF Exempt
<1>4. owed \subseteq Jobs \X Times
    BY DEF Base, BooksOK
<1>5. \A o \in owed' : OnBooks(o)' /\ o[2] <= now'
    <2> TAKE o \in owed'
    <2>1. o[1] \in Jobs /\ OnBooks(o) /\ o[2] <= now
        BY <1>2, <1>4 DEF Owes
    <2>2. CASE o[1] \in Logged
        BY <1>2, <1>3, <2>1, <2>2 DEF OnBooks
    <2>3. CASE o[1] \notin Logged
        <3>1. Alike(Store, Store', o[1])
            BY <1>1, <2>1, <2>3
        <3> QED
            BY <1>2, <1>3, <2>1, <3>1 DEF OnBooks, Alike
    <2> QED
        BY <2>2, <2>3
<1>6. \A q \in Jobs \ Exempt' : OnTime(q)'
    <2> TAKE q \in Jobs \ Exempt'
    <2>1. Alike(Store, Store', q) /\ OnTime(q)
        BY <1>1, <1>3 DEF Owes
    <2> QED
        BY <2>1 DEF OnTime, Alike
<1>7. \A k \in DOMAIN tasks' : Fits(tasks[k])'
    <2> SUFFICES ASSUME NEW k \in DOMAIN tasks', tasks'[k].id \in DOMAIN Store', tasks'[k].id \notin Exempt'
                 PROVE  tasks'[k].snap.sched = Store'[tasks'[k].id].sched
        BY DEF Fits
    <2>1. Alike(Store, Store', tasks'[k].id) /\ tasks'[k].id \notin Exempt
        BY <1>1, <1>3 DEF Holds
    <2> QED
        BY <1>1, <2>1 DEF Owes, Fits, Alike, OldTask
<1> QED
    BY <1>5, <1>6, <1>7 DEF Owes

LEMMA OwesLook ==
    ASSUME Base, Owes, NEW p \in Services, LookMerges(p)
    PROVE  Owes'
<1>1. /\ reverted \subseteq reverted'
      /\ \A j \in Jobs \ reverted' : Alike(Store, Store', j)
      /\ \A k \in DOMAIN tasks' : OldTask(tasks'[k])
      /\ Holds(Store')
    BY LookMergesIs DEF Base, StoreOK
<1>2. now' = now /\ owed' = owed /\ torn' = torn /\ crossed' = crossed
    BY DEF LookMerges
<1>3. Exempt \subseteq Exempt' /\ reverted' \subseteq Exempt'
    BY <1>1, <1>2 DEF Exempt
<1>4. owed \subseteq Jobs \X Times
    BY DEF Base, BooksOK
<1>5. \A o \in owed' : OnBooks(o)' /\ o[2] <= now'
    <2> TAKE o \in owed'
    <2>1. o[1] \in Jobs /\ OnBooks(o) /\ o[2] <= now
        BY <1>2, <1>4 DEF Owes
    <2>2. o[1] \notin Exempt' => Alike(Store, Store', o[1])
        BY <1>1, <1>3, <2>1
    <2> QED
        BY <1>2, <1>3, <2>1, <2>2 DEF OnBooks, Alike
<1>6. \A q \in Jobs \ Exempt' : OnTime(q)'
    <2> TAKE q \in Jobs \ Exempt'
    <2>1. Alike(Store, Store', q) /\ OnTime(q)
        BY <1>1, <1>3 DEF Owes
    <2> QED
        BY <2>1 DEF OnTime, Alike
<1>7. \A k \in DOMAIN tasks' : Fits(tasks[k])'
    <2> SUFFICES ASSUME NEW k \in DOMAIN tasks', tasks'[k].id \in DOMAIN Store', tasks'[k].id \notin Exempt'
                 PROVE  tasks'[k].snap.sched = Store'[tasks'[k].id].sched
        BY DEF Fits
    <2>1. Alike(Store, Store', tasks'[k].id) /\ tasks'[k].id \notin Exempt
        BY <1>1, <1>3 DEF Holds
    <2> QED
        BY <1>1, <2>1 DEF Owes, Fits, Alike, OldTask
<1> QED
    BY <1>5, <1>6, <1>7 DEF Owes

LEMMA OwesClock ==
    ASSUME Base, Owes, Clock
    PROVE  Owes'
<1>1. /\ Store' = Store /\ now' = now + 1 /\ UNCHANGED tasks
      /\ owed' = owed \cup {<<j, now'>> : j \in {i \in DOMAIN Store :
                                 Store[i].on /\ Store[i].next = now' /\ ~InFlight(i)}}
    BY ClockIs
<1>2. Exempt' = Exempt
    BY DEF Clock, Exempt
<1>3. now \in Nat /\ owed \subseteq Jobs \X Times
    BY BoundAssumption DEF Base, BooksOK, Times
<1>4. \A o \in owed' : OnBooks(o)' /\ o[2] <= now'
    <2> TAKE o \in owed'
    <2>1. CASE o \in owed
        <3>1. OnBooks(o) /\ o[2] <= now /\ o[2] \in Nat
            BY <1>3, <2>1 DEF Owes, Times
        <3>2. OnBooks(o)'
            BY <1>1, <1>2, <3>1 DEF OnBooks
        <3> QED
            BY <1>1, <1>3, <3>1, <3>2
    <2>2. CASE o \notin owed
        <3>1. PICK j \in DOMAIN Store : Store[j].on /\ Store[j].next = now' /\ o = <<j, now'>>
            BY <1>1, <2>2
        <3>2. OnBooks(o)'
            BY <1>1, <3>1 DEF OnBooks
        <3> QED
            BY <1>1, <1>3, <3>1, <3>2
    <2> QED
        BY <2>1, <2>2
<1>5. \A q \in Jobs \ Exempt' : OnTime(q)'
    BY <1>1, <1>2 DEF Owes, OnTime
<1>6. \A k \in DOMAIN tasks' : Fits(tasks[k])'
    BY <1>1, <1>2 DEF Owes, Fits
<1> QED
    BY <1>4, <1>5, <1>6 DEF Owes

LEMMA OwesStep == Base /\ Owes /\ [Next]_vars => Owes'
<1> SUFFICES ASSUME Base, Owes, [Next]_vars PROVE Owes'
    OBVIOUS
<1>1. ASSUME NEW p \in Services, Tick(p) PROVE Owes'
    BY <1>1, OwesTick
<1>2. ASSUME NEW p \in Services, Start(p) PROVE Owes'
    BY <1>2, OwesStart
<1>3. ASSUME NEW p \in Services, Crash(p) PROVE Owes'
    <2>1. Store' = Store /\ \A k \in DOMAIN tasks' : OldTask(tasks'[k])
        BY <1>3, CrashIs
    <2>2. now' = now /\ Exempt' = Exempt /\ owed' \subseteq owed
        BY <1>3 DEF Crash, Dies, Exempt
    <2> QED
        BY <2>1, <2>2, OwesStill
<1>4. ASSUME NEW p \in Services, Torn(p) PROVE Owes'
    BY <1>4, OwesTorn
<1>5. ASSUME NEW i \in DOMAIN tasks, Begin(i) \/ SlotGiven(i) PROVE Owes'
    <2>1. Store' = Store /\ \A k \in DOMAIN tasks' : OldTask(tasks'[k])
        BY <1>5, BeginIs
    <2>2. now' = now /\ Exempt' = Exempt /\ owed' \subseteq owed
        BY <1>5 DEF Begin, SlotGiven, history, Exempt
    <2> QED
        BY <2>1, <2>2, OwesStill
<1>6. ASSUME NEW i \in DOMAIN tasks, End(i) PROVE Owes'
    BY <1>6, OwesEnd
<1>7. ASSUME NEW j \in Jobs, NEW w \in Word, Edits(j, w), OnTime(j)' PROVE Owes'
    BY <1>7, OwesEdit
<1>8. ASSUME NEW j \in Jobs, NEW p \in Services, RunByHand(p, j) PROVE Owes'
    BY <1>8, OwesByHand
<1>9. ASSUME Clock PROVE Owes'
    BY <1>9, OwesClock
<1>10. ASSUME UNCHANGED vars PROVE Owes'
    <2>1. Store' = Store /\ now' = now /\ Exempt' = Exempt /\ owed' \subseteq owed /\ tasks' = tasks
        BY <1>10, VarsBase DEF vars, history, Exempt
    <2>2. \A k \in DOMAIN tasks' : OldTask(tasks'[k])
        BY <2>1 DEF OldTask
    <2> QED
        BY <2>1, <2>2, OwesStill
<1>11. ASSUME NEW p \in Services, Look(p) PROVE Owes'
    <2>1. Store' = Store /\ \A k \in DOMAIN tasks' : OldTask(tasks'[k])
        BY <1>11, LookIs
    <2>2. now' = now /\ Exempt' = Exempt /\ owed' \subseteq owed
        BY <1>11 DEF Look, history, Exempt
    <2> QED
        BY <2>1, <2>2, OwesStill
<1>12. ASSUME NEW p \in Services, LookMerges(p) PROVE Owes'
    BY <1>12, OwesLook
<1> QED
    BY <1>1, <1>2, <1>3, <1>4, <1>5, <1>6, <1>7, <1>8, <1>9, <1>10, <1>11, <1>12, StepSplit, Zenon

\* An occurrence that came due is on the books of its job until it is fired, recorded as
\* skipped or covered by a run that ended (service.py:453): no tick, start, merge or edit
\* of another job drops it.  Excepted are the jobs that the owner changed while a run of
\* theirs was in flight, those whose edits went with a crash inside a merge, and those that
\* a look has put back.
THEOREM OwedStaysOnTheBooks == Spec => []OwedKept
<1>1. Init => Owes
    BY OwesInit
<1>2. Base /\ Owes /\ [Next]_vars => Owes'
    BY OwesStep
<1>3. Owes => OwedKept
    BY OwesKept
<1> QED
    BY <1>1, <1>2, <1>3, AlwaysBase, PTL DEF Spec
---------------------------------------------------------------------------
(* The owner's last word                                                   *)

\* What became of an edit of these is not for a later step to keep.
Lost == torn \cup reverted

WordsHold == \A j \in Jobs \ Lost : WordHolds(j)

LEMMA WordsHoldMeans == Base /\ WordsHold => OwnersWordKept
<1> SUFFICES ASSUME Base, WordsHold PROVE OwnersWordKept
    OBVIOUS
<1>1. \A j \in DOMAIN Store \ Lost : WordHolds(j)
    BY DEF Base, StoreOK, Holds, WordsHold
<1> QED
    BY <1>1 DEF Lost, WordHolds, OwnersWordKept, RemovedStays, EditsKept

\* A step that switches no job on, adds none and gives none another schedule.
LEMMA WordsStill ==
    ASSUME Base, WordsHold, wish' = wish, Lost \subseteq Lost',
           \A j \in DOMAIN Store' \ Lost' :
              j \in DOMAIN Store /\ Store'[j].sched = Store[j].sched /\ (Store'[j].on => Store[j].on)
    PROVE  WordsHold'
BY DEF WordsHold, WordHolds

LEMMA WordsStep == Base /\ WordsHold /\ [Next]_vars => WordsHold'
<1> SUFFICES ASSUME Base, WordsHold, [Next]_vars PROVE WordsHold'
    OBVIOUS
<1>0. now \in Times /\ \A j \in DOMAIN Store : j \in Jobs /\ Store[j] \in Job
    BY DEF Base, BooksOK, StoreOK, Holds
<1>1. ASSUME NEW p \in Services, Tick(p) PROVE WordsHold'
    <2>1. /\ DOMAIN Store' \subseteq DOMAIN Store
          /\ \A j \in DOMAIN Store' : Store'[j] = IF Due(Store[j]) THEN Advanced(Store[j]) ELSE Store[j]
        BY <1>1, TickIs
    <2>2. wish' = wish /\ Lost' = Lost
        BY <1>1 DEF Tick, Lost
    <2>3. \A j \in DOMAIN Store' :
            j \in DOMAIN Store /\ Store'[j].sched = Store[j].sched /\ (Store'[j].on => Store[j].on)
        <3> TAKE j \in DOMAIN Store'
        <3>1. j \in DOMAIN Store /\ Store[j] \in Job
            BY <1>0, <2>1
        <3>2. Advanced(Store[j]).sched = Store[j].sched /\ (Advanced(Store[j]).on => Store[j].on)
            BY <1>0, <3>1, AdvancedIs
        <3> QED
            BY <2>1, <3>1, <3>2
    <2> QED
        BY <2>2, <2>3, WordsStill
<1>2. ASSUME NEW p \in Services, Start(p) PROVE WordsHold'
    <2>1. /\ DOMAIN Store' \subseteq DOMAIN Store
          /\ \A j \in DOMAIN Store' : Store'[j] = Settled(Store[j])
        BY <1>2, StartIs
    <2>2. wish' = wish /\ Lost' = Lost
        BY <1>2 DEF Start, Lost
    <2>3. \A j \in DOMAIN Store' :
            j \in DOMAIN Store /\ Store'[j].sched = Store[j].sched /\ (Store'[j].on => Store[j].on)
        BY <1>0, <2>1, SettledIs, ZenonT(30)
    <2> QED
        BY <2>2, <2>3, WordsStill
<1>3. ASSUME NEW p \in Services, Crash(p) PROVE WordsHold'
    <2>1. Store' = Store /\ wish' = wish /\ Lost' = Lost
        BY <1>3, CrashIs DEF Crash, Dies, Lost
    <2> QED
        BY <2>1, WordsStill
<1>4. ASSUME NEW p \in Services, Torn(p) PROVE WordsHold'
    <2>1. Base' /\ torn' = torn \cup Logged /\ \A j \in Jobs \ Logged : Alike(Store, Store', j)
        BY <1>4, TornIs
    <2>2. wish' = wish /\ reverted' = reverted
        BY <1>4 DEF Torn, Dies
    <2>3. \A j \in DOMAIN Store' : j \in Jobs
        BY <2>1 DEF Base, StoreOK, Holds
    <2>4. \A j \in DOMAIN Store' \ Lost' : j \in DOMAIN Store /\ Store'[j] = Store[j]
        BY <2>1, <2>3 DEF Alike, Lost
    <2>5. Lost \subseteq Lost'
        BY <2>1, <2>2 DEF Lost
    <2> QED
        BY <2>2, <2>4, <2>5, WordsStill
<1>5. ASSUME NEW i \in DOMAIN tasks, Begin(i) \/ SlotGiven(i) PROVE WordsHold'
    <2>1. Store' = Store
        BY <1>5, BeginIs
    <2>2. wish' = wish /\ Lost' = Lost
        BY <1>5 DEF Begin, SlotGiven, history, Lost
    <2> QED
        BY <2>1, <2>2, WordsStill
<1>6. ASSUME NEW i \in DOMAIN tasks, End(i) PROVE WordsHold'
    <2>0. PICK j : j = tasks[i].id
        OBVIOUS
    <2>1. /\ DOMAIN Store' \subseteq DOMAIN Store
          /\ \A q \in Jobs \ {j} : Alike(Store, Store', q)
          /\ j \in DOMAIN Store' => Store'[j].sched = Store[j].sched /\ (Store'[j].on => Store[j].on)
        BY <1>6, <2>0, EndIs
    <2>2. wish' = wish /\ Lost' = Lost
        BY <1>6 DEF End, Lost
    <2>3. \A q \in DOMAIN Store' :
            q \in DOMAIN Store /\ Store'[q].sched = Store[q].sched /\ (Store'[q].on => Store[q].on)
        BY <1>0, <2>1 DEF Alike
    <2> QED
        BY <2>2, <2>3, WordsStill
<1>7. ASSUME NEW j \in Jobs, NEW w \in Word, Edits(j, w), WordHolds(j) => WordHolds(j)' PROVE WordsHold'
    <2>1. /\ Lost' = Lost /\ \A q \in Jobs \ {j} : Alike(Store, Store', q)
          /\ \A q \in DOMAIN wish \ {j} : wish'[q] = wish[q]
          /\ DOMAIN Store \subseteq DOMAIN wish
        BY <1>7 DEF Edits, Says, Base, Given, Lost
    <2>2. ASSUME NEW q \in Jobs \ Lost', q # j PROVE WordHolds(q)'
        <3>1. Alike(Store, Store', q) /\ WordHolds(q)
            BY <2>1, <2>2 DEF WordsHold
        <3>2. q \in DOMAIN wish => wish'[q] = wish[q]
            BY <2>1, <2>2
        <3>3. q \in DOMAIN Store => q \in DOMAIN wish
            BY <2>1
        <3> QED
            BY <3>1, <3>2, <3>3 DEF WordHolds, Alike
    <2>3. j \notin Lost' => WordHolds(j)'
        BY <1>7, <2>1 DEF WordsHold
    <2> QED
        BY <2>2, <2>3 DEF WordsHold
<1>8. ASSUME NEW j \in Jobs, NEW p \in Services, RunByHand(p, j) PROVE WordsHold'
    <2>1. Store' = Store
        BY <1>8, RunByHandIs
    <2>2. wish' = wish /\ Lost' = Lost
        BY <1>8 DEF RunByHand, history, Lost
    <2> QED
        BY <2>1, <2>2, WordsStill
<1>9. ASSUME Clock PROVE WordsHold'
    <2>1. Store' = Store /\ wish' = wish /\ Lost' = Lost
        BY <1>9, ClockIs DEF Clock, Lost
    <2> QED
        BY <2>1, WordsStill
<1>10. ASSUME UNCHANGED vars PROVE WordsHold'
    <2>1. Store' = Store /\ wish' = wish /\ Lost' = Lost
        BY <1>10, VarsBase DEF vars, history, Lost
    <2> QED
        BY <2>1, WordsStill
<1>11. ASSUME NEW p \in Services, Look(p) PROVE WordsHold'
    <2>1. Store' = Store
        BY <1>11, LookIs
    <2>2. wish' = wish /\ Lost' = Lost
        BY <1>11 DEF Look, history, Lost
    <2> QED
        BY <2>1, <2>2, WordsStill
<1>12. ASSUME NEW p \in Services, LookMerges(p) PROVE WordsHold'
    <2>1. Base' /\ reverted \subseteq reverted' /\ \A j \in Jobs \ reverted' : Alike(Store, Store', j)
        BY <1>12, LookMergesIs
    <2>2. wish' = wish /\ torn' = torn
        BY <1>12 DEF LookMerges
    <2>3. \A j \in DOMAIN Store' : j \in Jobs
        BY <2>1 DEF Base, StoreOK, Holds
    <2>4. \A j \in DOMAIN Store' \ Lost' : j \in DOMAIN Store /\ Store'[j] = Store[j]
        BY <2>1, <2>3 DEF Alike, Lost
    <2>5. Lost \subseteq Lost'
        BY <2>1, <2>2 DEF Lost
    <2> QED
        BY <2>2, <2>4, <2>5, WordsStill
<1> QED
    BY <1>1, <1>2, <1>3, <1>4, <1>5, <1>6, <1>7, <1>8, <1>9, <1>10, <1>11, <1>12, StepSplit, Zenon

LEMMA WordsInit == Init => WordsHold
<1> SUFFICES ASSUME Init PROVE WordsHold
    OBVIOUS
<1>1. Store = <<>> /\ DOMAIN <<>> = {}
    BY MergeEmpty DEF Init, Store
<1> QED
    BY <1>1 DEF WordsHold, WordHolds

\* The owner's last word on a job holds: a removed job stays away, a rescheduled one keeps
\* its schedule and a job that was switched off stays off, whatever run of it was in
\* flight, wherever the edit was written and whenever it was merged (service.py:692-702).
\* Excepted are the edits that went with a crash inside a merge, and the jobs that a look
\* has put back as they were when it read them.
THEOREM OwnersWordHolds == Spec => []OwnersWordKept
<1>1. Init => WordsHold
    BY WordsInit
<1>2. Base /\ WordsHold /\ [Next]_vars => WordsHold'
    BY WordsStep
<1>3. Base /\ WordsHold => OwnersWordKept
    BY WordsHoldMeans
<1> QED
    BY <1>1, <1>2, <1>3, AlwaysBase, PTL DEF Spec
=============================================================================
