------------------------- MODULE AutomationsProofs -------------------------
(***************************************************************************)
(* Proofs about Automations, for any automations, events and threads and   *)
(* however often the process dies, somebody stops a run or moves a switch. *)
(***************************************************************************)
EXTENDS Automations, SequenceTheorems, FiniteSetTheorems, TLAPS

Settled == {"achieved", "completed", "failed", "rejected", "interrupted"}

RunRec == [auto : Autos, ev : Events, status : Statuses, mine : BOOLEAN, work : BOOLEAN,
           stop : BOOLEAN, cancel : BOOLEAN, spec : BOOLEAN, guarded : BOOLEAN,
           by : {"matcher", "notice", "task", "caller"}, pc : {"none", "exec", "deliver", "help"},
           says : SUBSET {"counterpart", "help"}, waits : Threads \cup {NoThread}, parks : Nat]

\* A run's manifest agrees with where its task is.
RunGood(x) ==
    /\ x \in RunRec
    /\ x.waits # NoThread => x.status = "paused"
    /\ x.pc = "exec" => x.status = "running" /\ x.mine
    /\ x.pc \in {"deliver", "help"} => x.status \in Settled
    /\ x.cancel => x.stop

RunsGood(R) == R \in Seq(RunRec) /\ \A r \in 1..Len(R) : RunGood(R[r])

\* A run that a spawned task will go on with, and one that a sweep may settle.
Resumable(x) == x.status = "running" /\ x.pc = "none" /\ x.mine
Orphan(x)    == x.status = "running" /\ ~x.mine

TaskRec == [kind : Firing \cup {"answer", "resume"}, auto : Autos, ev : Events, run : Nat]

TaskGood(task, R) ==
    /\ task.kind \in {"answer", "resume"} => task.run \in 1..Len(R)
    /\ task.kind = "answer" => ThreadOf[task.ev] \in Threads
    /\ task.kind = "resume" => Resumable(R[task.run])

\* The spawned tasks go on with runs that wait for that, each with one of its own.
TasksGood(q, R) ==
    /\ q \in Seq(TaskRec)
    /\ \A i \in 1..Len(q) : TaskGood(q[i], R)
    /\ \A i, j \in 1..Len(q) :
         q[i].kind = "resume" /\ q[j].kind = "resume" /\ q[i].run = q[j].run => i = j

\* The sweep holds orphans that nobody else settles, and awaits one that is ending.
SweepGood(w, R) ==
    /\ w \in [todo : SUBSET (Nat \X BOOLEAN), at : Nat, again : BOOLEAN, relaunch : Seq(Nat)]
    /\ \A o \in w.todo : o[1] \in 1..Len(R) /\ Orphan(R[o[1]])
    /\ \A o, p \in w.todo : o[1] = p[1] => o = p
    /\ w.again => w.at # NoRun
    /\ w.at # NoRun => w.at \in 1..Len(R) /\ R[w.at].pc \in {"deliver", "help"}
    /\ \A i \in 1..Len(w.relaunch) : w.relaunch[i] \in 1..Len(R)

RestTyped ==
    /\ enabled \in [Autos -> BOOLEAN] /\ pending \subseteq Autos /\ closing \in BOOLEAN
    /\ queue \in [Autos -> Seq(Events)]
    /\ claims \in [Threads -> 0..Len(runs)]
    /\ taken \subseteq Autos \X Events /\ excused \subseteq Autos \X Events
    /\ late \subseteq Autos \X Events
    /\ disturbed \in [Kinds -> Nat]

Base == RunsGood(runs) /\ TasksGood(ready, runs) /\ SweepGood(sweep, runs) /\ RestTyped

\* The guard around the continuation of an answered run finalizes it once more.
Refinalized(x, y) ==
    /\ x.guarded /\ x.work /\ x.pc # "none"
    /\ y.status = "failed" /\ y.pc = "none"

\* What a step may make of a run, and what only a sweep may: to interrupt one that
\* nobody stopped.
Lawful(x, y) ==
    /\ y.auto = x.auto /\ y.ev = x.ev
    /\ x.status \in Settled => y.status = x.status \/ Refinalized(x, y)
    /\ x.status \in Settled /\ x.pc = "none" => y.pc = "none"
    /\ x.work => y.work
    /\ y.work => x.work \/ x.status = "running"
    /\ x.stop => y.stop

Gentle(x, y) ==
    Lawful(x, y) /\ (y.status = "interrupted" => x.status = "interrupted" \/ y.stop)

\* A step that is lawful for every run, and starts one only in a free slot.
RunsStep ==
    /\ Len(runs') \in {Len(runs), Len(runs) + 1}
    /\ \A r \in 1..Len(runs) : Lawful(runs[r], runs'[r])
    /\ Len(runs') = Len(runs) + 1 => ~Busy(runs'[Len(runs) + 1].auto)

GentleStep == RunsStep /\ \A r \in 1..Len(runs) : Gentle(runs[r], runs'[r])

---------------------------------------------------------------------------
(* Operations on sequences and sets                                        *)

\* A sequence of the elements of a finite set.
LEMMA SequenceOfSet ==
    ASSUME NEW S, IsFiniteSet(S)
    PROVE  /\ SetToSeq(S) \in Seq(S)
           /\ ToSet(SetToSeq(S)) = S
           /\ \A i, j \in 1..Len(SetToSeq(S)) : SetToSeq(S)[i] = SetToSeq(S)[j] => i = j
  <1> DEFINE n == Cardinality(S)
  <1>1. n \in Nat /\ ExistsBijection(1..n, S)
    BY FS_CardinalityType
  <1>2. PICK f \in Bijection(1..n, S) : TRUE
    BY <1>1 DEF ExistsBijection
  <1>3. f \in [1..n -> S] /\ IsInjective(f)
    BY <1>2 DEF Bijection, Injection, IsInjective
  <1>4. SetToSeq(S) \in [1..n -> S] /\ IsInjective(SetToSeq(S))
    BY <1>3 DEF SetToSeq
  <1>5. SetToSeq(S) \in Seq(S) /\ Len(SetToSeq(S)) = n /\ DOMAIN SetToSeq(S) = 1..n
    BY <1>1, <1>4
  <1>6. SetToSeq(S) \in Surjection(1..n, S)
    <2>1. IsFiniteSet(1..n) /\ Cardinality(1..n) = n
      BY <1>1, FS_Interval
    <2>2. SetToSeq(S) \in Injection(1..n, S)
      BY <1>4 DEF Injection, IsInjective
    <2> QED
      BY <2>1, <2>2, FS_Injection
  <1>7. ToSet(SetToSeq(S)) = S
    BY <1>4, <1>5, <1>6 DEF ToSet, Surjection
  <1> QED
    BY <1>4, <1>5, <1>7 DEF IsInjective

---------------------------------------------------------------------------
(* The spawned tasks                                                       *)

LEMMA TasksShortened ==
    ASSUME NEW R, NEW q, TasksGood(q, R), q # <<>>
    PROVE  /\ TasksGood(Tail(q), R)
           /\ Head(q) \in TaskRec /\ TaskGood(Head(q), R)
           /\ Len(Tail(q)) = Len(q) - 1 /\ Head(q) = q[1] /\ Len(q) \in Nat \ {0}
           /\ \A i \in 1..Len(Tail(q)) : Tail(q)[i] = q[i + 1] /\ i + 1 \in 1..Len(q)
  <1>1. q \in Seq(TaskRec)
    BY DEF TasksGood
  <1>2. /\ Tail(q) \in Seq(TaskRec) /\ Len(Tail(q)) = Len(q) - 1 /\ Len(q) \in Nat \ {0}
        /\ \A i \in 1..Len(Tail(q)) : Tail(q)[i] = q[i + 1]
        /\ Head(q) = q[1]
    BY <1>1
  <1>3. \A i \in 1..Len(Tail(q)) : i + 1 \in 1..Len(q)
    BY <1>2
  <1>4. \A i, j \in 1..Len(Tail(q)) : i + 1 = j + 1 => i = j
    BY <1>2
  <1>5. TasksGood(Tail(q), R)
    BY <1>2, <1>3, <1>4 DEF TasksGood
  <1> QED
    BY <1>1, <1>2, <1>3, <1>5 DEF TasksGood

LEMMA TaskAdded ==
    ASSUME NEW R, NEW q, TasksGood(q, R), NEW task \in TaskRec, TaskGood(task, R),
           task.kind = "resume"
             => \A i \in 1..Len(q) : q[i].kind = "resume" => q[i].run # task.run
    PROVE  TasksGood(Append(q, task), R)
  <1>1. q \in Seq(TaskRec)
    BY DEF TasksGood
  <1>2. /\ Append(q, task) \in Seq(TaskRec) /\ Len(Append(q, task)) = Len(q) + 1
        /\ Append(q, task)[Len(q) + 1] = task /\ Len(q) \in Nat
        /\ \A i \in 1..Len(q) : Append(q, task)[i] = q[i]
    BY <1>1
  <1> DEFINE p == Append(q, task)
  <1> HIDE DEF p
  <1>3. \A i \in 1..Len(p) : i \in 1..Len(q) \/ i = Len(q) + 1
    BY <1>2 DEF p
  <1>4. \A i \in 1..Len(p) : TaskGood(p[i], R)
    BY <1>2, <1>3 DEF p, TasksGood
  <1>5. \A i, j \in 1..Len(p) :
          p[i].kind = "resume" /\ p[j].kind = "resume" /\ p[i].run = p[j].run => i = j
    BY <1>2, <1>3 DEF p, TasksGood
  <1> QED
    BY <1>2, <1>4, <1>5 DEF p, TasksGood

LEMMA TasksJoined ==
    ASSUME NEW R, NEW q, TasksGood(q, R), NEW s \in Seq(TaskRec),
           \A i \in 1..Len(s) : s[i].kind \in Firing
    PROVE  TasksGood(q \o s, R)
  <1>1. q \in Seq(TaskRec)
    BY DEF TasksGood
  <1> DEFINE p == q \o s
  <1>2. /\ p \in Seq(TaskRec) /\ Len(p) = Len(q) + Len(s) /\ Len(q) \in Nat /\ Len(s) \in Nat
        /\ \A i \in 1..(Len(q) + Len(s)) : p[i] = IF i <= Len(q) THEN q[i] ELSE s[i - Len(q)]
    BY <1>1, ConcatProperties
  <1> HIDE DEF p
  <1>3. ASSUME NEW i \in 1..Len(p)
        PROVE  \/ i \in 1..Len(q) /\ p[i] = q[i]
               \/ p[i].kind \in Firing
    <2>1. CASE i <= Len(q)
      BY <1>2, <2>1
    <2>2. CASE ~(i <= Len(q))
      <3>1. i - Len(q) \in 1..Len(s) /\ p[i] = s[i - Len(q)]
        BY <1>2, <2>2
      <3> QED
        BY <3>1
    <2> QED
      BY <2>1, <2>2
  <1>4. \A k \in Firing : k \notin {"answer", "resume"}
    BY DEF Firing
  <1>5. \A i \in 1..Len(p) : TaskGood(p[i], R)
    BY <1>3, <1>4 DEF TasksGood, TaskGood
  <1>6. \A i, j \in 1..Len(p) :
          p[i].kind = "resume" /\ p[j].kind = "resume" /\ p[i].run = p[j].run => i = j
    BY <1>3, <1>4 DEF TasksGood
  <1> QED
    BY <1>2, <1>5, <1>6 DEF p, TasksGood

\* R becomes S: no run is lost, and one that a task in q will go on with stays that way.
TasksSafe(R, S, q) ==
    /\ Len(R) \in Nat /\ Len(S) \in Nat /\ Len(R) <= Len(S)
    /\ \A r \in 1..Len(R) : Resumable(R[r]) =>
          \/ Resumable(S[r])
          \/ \A i \in 1..Len(q) : q[i].kind = "resume" => q[i].run # r

LEMMA TasksKept ==
    ASSUME NEW R, NEW S, NEW q, TasksGood(q, R), TasksSafe(R, S, q)
    PROVE  TasksGood(q, S)
  <1>1. ASSUME NEW i \in 1..Len(q)
        PROVE  TaskGood(q[i], S)
    <2>1. TaskGood(q[i], R)
      BY DEF TasksGood
    <2>2. q[i].run \in 1..Len(R) => q[i].run \in 1..Len(S)
      BY DEF TasksSafe
    <2> QED
      BY <2>1, <2>2 DEF TaskGood, TasksSafe
  <1> QED
    BY <1>1 DEF TasksGood

---------------------------------------------------------------------------
(* The runs                                                                *)

\* R becomes S: what the sweep w is at stays as it must be.
SweepSafe(R, S, w) ==
    /\ Len(R) \in Nat /\ Len(S) \in Nat /\ Len(R) <= Len(S)
    /\ \A r \in 1..Len(R) : Orphan(R[r]) => Orphan(S[r])
    /\ w.at # NoRun /\ R[w.at].pc \in {"deliver", "help"} => S[w.at].pc \in {"deliver", "help"}

LEMMA SweepKept ==
    ASSUME NEW R, NEW S, NEW w, SweepGood(w, R), SweepSafe(R, S, w)
    PROVE  SweepGood(w, S)
  <1>1. \A r \in 1..Len(R) : r \in 1..Len(S)
    BY DEF SweepSafe
  <1> QED
    BY <1>1 DEF SweepGood, SweepSafe

\* S is R but for the run r, which is x; and S is R with x after it.
Wrote(R, S, r, x) ==
    /\ Len(S) = Len(R) /\ Len(R) \in Nat /\ r \in 1..Len(R)
    /\ S[r] = x /\ \A s \in 1..Len(R) : s # r => S[s] = R[s]

Added(R, S, x) ==
    /\ Len(S) = Len(R) + 1 /\ Len(R) \in Nat
    /\ S[Len(R) + 1] = x /\ \A s \in 1..Len(R) : S[s] = R[s]

LEMMA OneRunWritten ==
    ASSUME NEW R, RunsGood(R), NEW r \in 1..Len(R), NEW x, RunGood(x),
           NEW S, S = [R EXCEPT ![r] = x]
    PROVE  RunsGood(S) /\ Wrote(R, S, r, x)
  <1>1. R \in Seq(RunRec) /\ x \in RunRec
    BY DEF RunsGood, RunGood
  <1>2. S \in Seq(RunRec) /\ Wrote(R, S, r, x)
    BY <1>1, ExceptSeq DEF Wrote
  <1>3. \A s \in 1..Len(S) : RunGood(S[s])
    BY <1>2 DEF RunsGood, Wrote
  <1> QED
    BY <1>2, <1>3 DEF RunsGood

LEMMA RunAdded ==
    ASSUME NEW R, RunsGood(R), NEW x, RunGood(x), NEW S, S = Append(R, x)
    PROVE  RunsGood(S) /\ Added(R, S, x)
  <1>1. R \in Seq(RunRec) /\ x \in RunRec
    BY DEF RunsGood, RunGood
  <1>2. S \in Seq(RunRec) /\ Added(R, S, x)
    BY <1>1, AppendProperties DEF Added
  <1>3. \A s \in 1..Len(S) : s \in 1..Len(R) \/ s = Len(R) + 1
    BY <1>2 DEF Added
  <1>4. \A s \in 1..Len(S) : RunGood(S[s])
    BY <1>2, <1>3 DEF RunsGood, Added
  <1> QED
    BY <1>2, <1>4 DEF RunsGood

\* What a step that writes one run must see to.
LEMMA RunWritten ==
    ASSUME Base, NEW r \in 1..Len(runs), NEW x, RunGood(x), runs' = [runs EXCEPT ![r] = x],
           Resumable(runs[r]) => Resumable(x), Orphan(runs[r]) => Orphan(x)
    PROVE  /\ RunsGood(runs') /\ Wrote(runs, runs', r, x)
           /\ TasksGood(ready, runs')
           /\ (sweep.at = r => x.pc \in {"deliver", "help"}) => SweepGood(sweep, runs')
  <1>0. RunsGood(runs) /\ TasksGood(ready, runs) /\ SweepGood(sweep, runs)
    BY DEF Base
  <1>1. RunsGood(runs') /\ Wrote(runs, runs', r, x)
    BY <1>0, OneRunWritten
  <1>2. TasksGood(ready, runs')
    <2>1. TasksSafe(runs, runs', ready)
      BY <1>1 DEF TasksSafe, Wrote
    <2> QED
      BY <1>0, <2>1, TasksKept
  <1>3. ASSUME sweep.at = r => x.pc \in {"deliver", "help"}
        PROVE  SweepGood(sweep, runs')
    <2>1. sweep.at # NoRun => sweep.at \in 1..Len(runs)
      BY <1>0 DEF SweepGood
    <2>2. SweepSafe(runs, runs', sweep)
      BY <1>1, <1>3, <2>1 DEF SweepSafe, Wrote
    <2> QED
      BY <1>0, <2>2, SweepKept
  <1> QED
    BY <1>1, <1>2, <1>3

\* What a step does to the runs, from what it does to one of them.
LEMMA GentleStays == \A x : Gentle(x, x)
  BY DEF Gentle, Lawful

LEMMA NoRunChanges ==
    ASSUME Base, UNCHANGED runs
    PROVE  GentleStep
  <1>1. Len(runs) \in Nat
    BY DEF Base, RunsGood
  <1>2. \A r \in 1..Len(runs) : Gentle(runs[r], runs'[r])
    BY GentleStays
  <1> QED
    BY <1>1, <1>2 DEF GentleStep, RunsStep, Gentle

LEMMA OneRunGentle ==
    ASSUME Base, NEW r \in 1..Len(runs), NEW x, Wrote(runs, runs', r, x), Gentle(runs[r], x)
    PROVE  GentleStep
  <1>1. \A s \in 1..Len(runs) : Gentle(runs[s], runs'[s])
    BY GentleStays DEF Wrote
  <1>2. Len(runs') = Len(runs) /\ Len(runs) \in Nat
    BY DEF Wrote
  <1> QED
    BY <1>1, <1>2 DEF GentleStep, RunsStep, Gentle

LEMMA OneRunAdded ==
    ASSUME Base, NEW x, Added(runs, runs', x), ~Busy(x.auto)
    PROVE  GentleStep
  <1>1. \A s \in 1..Len(runs) : Gentle(runs[s], runs'[s])
    BY GentleStays DEF Added
  <1>2. Len(runs') = Len(runs) + 1 /\ Len(runs) \in Nat /\ runs'[Len(runs) + 1] = x
    BY DEF Added
  <1> QED
    BY <1>1, <1>2 DEF GentleStep, RunsStep, Gentle

LEMMA NewRunGood ==
    ASSUME Base, NEW a \in Autos, NEW e \in Events, NEW by \in {"matcher", "task", "caller"}
    PROVE  RunGood(NewRun(a, e, by))
  <1>1. enabled[a] \in BOOLEAN /\ NoThread \in Threads \cup {NoThread}
    BY DEF Base, RestTyped
  <1> QED
    BY <1>1 DEF RunGood, RunRec, NewRun, Statuses

\* A step that starts a run.
LEMMA RunStarted ==
    ASSUME Base, NEW a \in Autos, NEW e \in Events, NEW by \in {"matcher", "task", "caller"},
           runs' = Append(runs, NewRun(a, e, by))
    PROVE  /\ RunsGood(runs') /\ Added(runs, runs', NewRun(a, e, by))
           /\ TasksGood(ready, runs') /\ SweepGood(sweep, runs')
  <1>0. RunsGood(runs) /\ TasksGood(ready, runs) /\ SweepGood(sweep, runs)
    BY DEF Base
  <1>1. RunGood(NewRun(a, e, by))
    BY NewRunGood
  <1>2. RunsGood(runs') /\ Added(runs, runs', NewRun(a, e, by))
    BY <1>0, <1>1, RunAdded
  <1>3. TasksGood(ready, runs')
    <2>1. TasksSafe(runs, runs', ready)
      BY <1>2 DEF TasksSafe, Added
    <2> QED
      BY <1>0, <2>1, TasksKept
  <1>4. SweepGood(sweep, runs')
    <2>1. sweep.at # NoRun => sweep.at \in 1..Len(runs)
      BY <1>0 DEF SweepGood
    <2>2. SweepSafe(runs, runs', sweep)
      BY <1>2, <2>1 DEF SweepSafe, Added
    <2> QED
      BY <1>0, <2>2, SweepKept
  <1> QED
    BY <1>2, <1>3, <1>4

---------------------------------------------------------------------------
(* What the actions are made of                                            *)

LEMMA SpawnedGood ==
    ASSUME NEW kind \in Firing, NEW a \in Autos, NEW e \in Events, NEW r \in Nat, NEW R
    PROVE  Task(kind, a, e, r) \in TaskRec /\ TaskGood(Task(kind, a, e, r), R)
           /\ Task(kind, a, e, r).kind \in Firing /\ Task(kind, a, e, r).kind # "resume"
           /\ Key(Task(kind, a, e, r)) = <<a, e>>
  BY DEF Task, TaskRec, TaskGood, Firing, Key

\* Firing tasks, in any order.
LEMMA ChainedGood ==
    ASSUME Base, NEW r \in 1..Len(runs)
    PROVE  LET tasks == IF runs[r].status \in ChainWhen
                        THEN {Task("chain", b, runs[r].ev, NoRun) :
                                 b \in {c \in Chain[runs[r].auto] : enabled[c]}}
                        ELSE {}
           IN  /\ Chained(r) \in Seq(TaskRec) /\ tasks \subseteq TaskRec
               /\ \A i \in 1..Len(Chained(r)) : Chained(r)[i].kind \in Firing
               /\ ToSet(Chained(r)) = tasks
               /\ \A i, j \in 1..Len(Chained(r)) : Chained(r)[i] = Chained(r)[j] => i = j
  <1> DEFINE bs == {c \in Chain[runs[r].auto] : enabled[c]}
             ts == {Task("chain", b, runs[r].ev, NoRun) : b \in bs}
  <1>1. runs[r].auto \in Autos /\ runs[r].ev \in Events
    BY DEF Base, RunsGood, RunGood, RunRec
  <1>2. bs \subseteq Autos
    BY <1>1, ChainAssumption
  <1>3. \A t \in ts : t \in TaskRec /\ t.kind \in Firing
    <2> SUFFICES ASSUME NEW b \in bs
                 PROVE  LET t == Task("chain", b, runs[r].ev, NoRun)
                        IN  t \in TaskRec /\ t.kind \in Firing
      OBVIOUS
    <2>1. b \in Autos /\ "chain" \in Firing /\ NoRun \in Nat
      BY <1>2 DEF Firing, NoRun
    <2> QED
      BY <1>1, <2>1, SpawnedGood
  <1>4. IsFiniteSet(ts)
    <2>1. IsFiniteSet(bs)
      BY <1>2, AutosAssumption, FS_Subset
    <2>2. ts = {Task("chain", b, runs[r].ev, NoRun) : b \in bs}
      OBVIOUS
    <2> DEFINE f == [b \in bs |-> Task("chain", b, runs[r].ev, NoRun)]
    <2>3. f \in Surjection(bs, ts)
      BY DEF Surjection
    <2> QED
      BY <2>1, <2>3, FS_Surjection
  <1>5. CASE runs[r].status \in ChainWhen
    <2>1. Chained(r) = SetToSeq(ts)
      BY <1>5 DEF Chained
    <2> HIDE DEF ts
    <2>2. /\ SetToSeq(ts) \in Seq(ts) /\ ToSet(SetToSeq(ts)) = ts
          /\ \A i, j \in 1..Len(SetToSeq(ts)) : SetToSeq(ts)[i] = SetToSeq(ts)[j] => i = j
      BY <1>4, SequenceOfSet
    <2>3. ts \subseteq TaskRec
      BY <1>3
    <2>4. SetToSeq(ts) \in Seq(TaskRec)
      BY <2>2, <2>3, SeqMonotonic
    <2>5. \A i \in 1..Len(SetToSeq(ts)) : SetToSeq(ts)[i] \in ts
      BY <2>2, ElementOfSeq
    <2>6. \A i \in 1..Len(SetToSeq(ts)) : SetToSeq(ts)[i].kind \in Firing
      BY <1>3, <2>5
    <2> QED
      BY <1>5, <2>1, <2>2, <2>3, <2>4, <2>6 DEF ts
  <1>6. CASE runs[r].status \notin ChainWhen
    <2>1. Chained(r) = <<>>
      BY <1>6 DEF Chained
    <2>2. ToSet(<<>>) = {}
      BY DEF ToSet
    <2> QED
      BY <1>6, <2>1, <2>2
  <1> QED
    BY <1>5, <1>6

LEMMA DrainGood ==
    ASSUME Base, NEW R, TasksGood(ready, R), NEW a \in Autos, NEW wanted,
           NEW chained \in Seq(TaskRec), \A i \in 1..Len(chained) : chained[i].kind \in Firing,
           Drain(a, wanted, chained)
    PROVE  /\ TasksGood(ready', R)
           /\ queue' \in [Autos -> Seq(Events)]
           /\ excused' \subseteq Autos \X Events
  <1>1. queue \in [Autos -> Seq(Events)] /\ excused \subseteq Autos \X Events
    BY DEF Base, RestTyped
  <1>2. CASE ~(wanted /\ a \in Single)
    <2>1. ready' = ready \o chained /\ UNCHANGED <<queue, excused>>
      BY <1>2 DEF Drain
    <2>2. TasksGood(ready \o chained, R)
      BY TasksJoined
    <2> QED
      BY <1>1, <2>1, <2>2
  <1>3. CASE wanted /\ a \in Single
    <2>1. PICK k \in 0..Len(queue[a]) :
             /\ queue' = [queue EXCEPT ![a] = SubSeq(@, k + 2, Len(@))]
             /\ excused' = excused \cup {<<a, queue[a][i]>> : i \in 1..k}
             /\ ready' = (IF k < Len(queue[a])
                          THEN Append(ready, Task("drain", a, queue[a][k + 1], NoRun))
                          ELSE ready) \o chained
      BY <1>3 DEF Drain
    <2>2. /\ queue[a] \in Seq(Events) /\ Len(queue[a]) \in Nat
          /\ \A i \in 1..Len(queue[a]) : queue[a][i] \in Events
      BY <1>1
    <2>3. SubSeq(queue[a], k + 2, Len(queue[a])) \in Seq(Events)
      BY <2>1, <2>2, SubSeqProperties
    <2>4. queue' \in [Autos -> Seq(Events)]
      BY <1>1, <2>1, <2>3
    <2>5. \A i \in 1..k : queue[a][i] \in Events
      BY <2>1, <2>2
    <2>6. excused' \subseteq Autos \X Events
      BY <1>1, <2>1, <2>5
    <2>7. CASE k < Len(queue[a])
      <3> DEFINE task == Task("drain", a, queue[a][k + 1], NoRun)
      <3>1. queue[a][k + 1] \in Events
        BY <2>1, <2>2, <2>7
      <3>2. "drain" \in Firing /\ NoRun \in Nat
        BY DEF Firing, NoRun
      <3>3. task \in TaskRec /\ TaskGood(task, R) /\ task.kind # "resume"
        BY <3>1, <3>2, SpawnedGood
      <3>4. TasksGood(Append(ready, task), R)
        <4> HIDE DEF task
        <4> QED
          BY <3>3, TaskAdded
      <3>5. ready' = Append(ready, task) \o chained
        BY <2>1, <2>7
      <3> HIDE DEF task
      <3>6. TasksGood(Append(ready, task) \o chained, R)
        BY <3>4, TasksJoined
      <3> QED
        BY <2>4, <2>6, <3>5, <3>6
    <2>8. CASE ~(k < Len(queue[a]))
      <3>1. ready' = ready \o chained
        BY <2>1, <2>8
      <3>2. TasksGood(ready \o chained, R)
        BY TasksJoined
      <3> QED
        BY <2>4, <2>6, <3>1, <3>2
    <2> QED
      BY <2>7, <2>8
  <1> QED
    BY <1>2, <1>3

---------------------------------------------------------------------------
(* Every step keeps the manifests, the tasks and the sweep in agreement     *)

LEMMA RunIsGood ==
    ASSUME Base, NEW r \in 1..Len(runs)
    PROVE  RunGood(runs[r]) /\ runs[r] \in RunRec
  BY DEF Base, RunsGood, RunGood

LEMMA DomainOfRuns == ASSUME Base PROVE DOMAIN runs = 1..Len(runs) /\ Len(runs) \in Nat
  BY DEF Base, RunsGood

LEMMA NothingMoves ==
    ASSUME Base, UNCHANGED vars
    PROVE  Base' /\ GentleStep
  <1>1. Base'
    BY DEF Base, RestTyped, vars, memory, history
  <1> QED
    BY <1>1, NoRunChanges DEF vars

\* Steps that leave the runs, the tasks and the sweep alone.
LEMMA RunsLeftAlone ==
    ASSUME Base, UNCHANGED <<runs, ready, sweep>>, RestTyped'
    PROVE  Base' /\ GentleStep
  <1>1. Base'
    BY DEF Base
  <1> QED
    BY <1>1, NoRunChanges

LEMMA Disturbed ==
    ASSUME Base, NEW kind, Disturb(kind)
    PROVE  /\ disturbed' \in [Kinds -> Nat] /\ kind \in Kinds
           /\ \A k \in Kinds : disturbed'[k] >= disturbed[k]
           /\ disturbed'[kind] > 0
  <1>1. kind \in Kinds /\ disturbed' = [disturbed EXCEPT ![kind] = @ + 1]
    BY Zenon DEF Disturb
  <1>2. disturbed \in [Kinds -> Nat]
    BY DEF Base, RestTyped
  <1> QED
    BY <1>1, <1>2

\* The drain after a run's end, or none because the prune before it failed.
KeptUp(a, wanted, chained) ==
    \E w \in {wanted, FALSE} :
        /\ Drain(a, w, chained)
        /\ disturbed' \in [Kinds -> Nat] /\ cut \subseteq cut'
        /\ w = wanted \/ a \in cut'

LEMMA HousekeepingDrains ==
    ASSUME Base, NEW a, NEW wanted, NEW chained, Housekeeping(a, wanted, chained)
    PROVE  KeptUp(a, wanted, chained)
  <1>1. CASE Drain(a, wanted, chained) /\ UNCHANGED <<cut, disturbed>>
    BY <1>1 DEF KeptUp, Base, RestTyped
  <1>2. CASE Disturb("fault") /\ Drain(a, FALSE, chained) /\ cut' = cut \cup {a}
    BY <1>2, Disturbed DEF KeptUp
  <1> QED
    BY <1>1, <1>2 DEF Housekeeping

LEMMA ToggleBase ==
    ASSUME Base, NEW a \in Autos, Toggle(a)
    PROVE  Base' /\ GentleStep
  <1>1. RestTyped'
    <2>1. disturbed' \in [Kinds -> Nat]
      BY Disturbed DEF Toggle
    <2> QED
      BY <2>1 DEF Toggle, Base, RestTyped, memory, history
  <1> QED
    BY <1>1, RunsLeftAlone DEF Toggle, memory

LEMMA ShutdownBase ==
    ASSUME Base, Shutdown
    PROVE  Base' /\ GentleStep
  <1>1. RestTyped'
    <2>1. disturbed' \in [Kinds -> Nat]
      BY Disturbed DEF Shutdown
    <2> QED
      BY <2>1 DEF Shutdown, Base, RestTyped, memory, history
  <1> QED
    BY <1>1, RunsLeftAlone DEF Shutdown

LEMMA InboundBase ==
    ASSUME Base, NEW e \in Events, Inbound(e)
    PROVE  Base' /\ GentleStep
  <1> DEFINE t == ThreadOf[e]
             r == claims[t]
             a == AutoOf[e]
  <1>1. t \in Threads /\ a \in Autos /\ UNCHANGED <<runs, sweep>>
    BY EventAssumption DEF Inbound
  <1>2. r \in 0..Len(runs) /\ (r # NoRun => r \in 1..Len(runs))
    BY <1>1, DomainOfRuns DEF Base, RestTyped, NoRun
  <1>3. TasksGood(ready, runs) /\ SweepGood(sweep, runs) /\ RunsGood(runs)
    BY DEF Base
  <1>4. TasksGood(ready', runs)
    <2>1. CASE /\ r # NoRun
               /\ ready' = Append(ready, Task("answer", runs[r].auto, e, r))
      <3> DEFINE task == Task("answer", runs[r].auto, e, r)
      <3>1. task \in TaskRec /\ task.kind = "answer" /\ task.run = r /\ task.ev = e
        BY <1>2, <2>1, RunIsGood DEF Task, TaskRec, RunRec
      <3>2. TaskGood(task, runs)
        BY <1>1, <1>2, <2>1, <3>1 DEF TaskGood
      <3> HIDE DEF task
      <3>3. task.kind # "resume"
        BY <3>1
      <3>4. TasksGood(Append(ready, task), runs)
        BY <1>3, <3>1, <3>2, <3>3, TaskAdded
      <3> QED
        BY <2>1, <3>4 DEF task
    <2>2. CASE ready' = Append(ready, Task("fire", a, e, NoRun))
      <3> DEFINE task == Task("fire", a, e, NoRun)
      <3>1. task \in TaskRec /\ TaskGood(task, runs) /\ task.kind # "resume"
        <4>1. "fire" \in Firing /\ NoRun \in Nat
          BY DEF Firing, NoRun
        <4> QED
          BY <1>1, <4>1, SpawnedGood
      <3> HIDE DEF task
      <3>2. TasksGood(Append(ready, task), runs)
        BY <1>3, <3>1, TaskAdded
      <3> QED
        BY <2>2, <3>2 DEF task
    <2>3. CASE UNCHANGED ready
      BY <1>3, <2>3
    <2> QED
      BY <2>1, <2>2, <2>3 DEF Inbound, DispatchMatch
  <1>5. RestTyped'
    <2>1. claims' \in [Threads -> 0..Len(runs)]
      <3>1. claims' = claims \/ claims' = [claims EXCEPT ![t] = NoRun]
        BY DEF Inbound
      <3>2. claims \in [Threads -> 0..Len(runs)] /\ NoRun \in 0..Len(runs)
        BY DomainOfRuns DEF Base, RestTyped, NoRun
      <3> QED
        BY <3>1, <3>2
    <2>2. queue' \in [Autos -> Seq(Events)]
      <3>1. queue \in [Autos -> Seq(Events)] /\ Append(queue[a], e) \in Seq(Events)
        BY <1>1, AppendProperties DEF Base, RestTyped
      <3>2. queue' = queue \/ queue' = [queue EXCEPT ![a] = Append(queue[a], e)]
        BY DEF Inbound, DispatchMatch
      <3> QED
        BY <3>1, <3>2
    <2>3. taken' \subseteq Autos \X Events
          /\ pending' \subseteq Autos /\ UNCHANGED <<enabled, closing, excused, late, disturbed>>
      <3>1. r # NoRun => <<runs[r].auto, e>> \in Autos \X Events
        BY <1>2, RunIsGood DEF RunRec
      <3> QED
        BY <1>1, <3>1 DEF Inbound, DispatchMatch, Base, RestTyped
    <2> QED
      BY <1>1, <2>1, <2>2, <2>3 DEF Base, RestTyped
  <1>99. GentleStep
    BY NoRunChanges DEF Inbound
  <1> QED
    BY <1>99, <1>1, <1>3, <1>4, <1>5 DEF Base

\* A run is started: by a tick, by hand, or by a spawned task.
LEMMA StartBase ==
    ASSUME Base, NEW a \in Autos, NEW e \in Events, NEW by \in {"matcher", "task", "caller"},
           runs' = Append(runs, NewRun(a, e, by)), ~Busy(a), ready' \in {ready, Tail(ready)},
           ready = <<>> => ready' = ready,
           taken' \in {taken, taken \cup {<<a, e>>}},
           UNCHANGED <<enabled, queue, claims, pending, sweep, closing, excused, late, disturbed>>
    PROVE  Base' /\ GentleStep
  <1>1. /\ RunsGood(runs') /\ Added(runs, runs', NewRun(a, e, by))
        /\ TasksGood(ready, runs') /\ SweepGood(sweep, runs')
    BY RunStarted
  <1>2. TasksGood(ready', runs')
    BY <1>1, TasksShortened
  <1>3. RestTyped'
    <2>1. 0..Len(runs) \subseteq 0..Len(runs')
      BY <1>1 DEF Added
    <2> QED
      BY <2>1 DEF Base, RestTyped
  <1>99. GentleStep
    <2>1. NewRun(a, e, by).auto = a
      BY DEF NewRun
    <2> QED
      BY <1>1, <2>1, OneRunAdded
  <1> QED
    BY <1>99, <1>1, <1>2, <1>3 DEF Base

LEMMA CallerBase ==
    ASSUME Base, NEW e \in Events, CronTick(e) \/ RunNow(e)
    PROVE  Base' /\ GentleStep
  <1>1. AutoOf[e] \in Autos
    BY EventAssumption
  <1> QED
    BY <1>1, StartBase DEF CronTick, RunNow, memory

LEMMA FireTaskBase ==
    ASSUME Base, ready # <<>>, FireTask(Head(ready))
    PROVE  Base' /\ GentleStep
  <1> DEFINE task == Head(ready)
             a == task.auto
  <1>1. task \in TaskRec /\ TasksGood(Tail(ready), runs)
    BY TasksShortened DEF Base
  <1>2. a \in Autos /\ task.ev \in Events
    BY <1>1 DEF TaskRec
  <1>3. CASE ~Busy(a)
    BY <1>2, <1>3, StartBase DEF FireTask
  <1>4. CASE Busy(a)
    <2>1. UNCHANGED <<runs, sweep>> /\ ready' = Tail(ready)
      BY <1>4 DEF FireTask
    <2>2. RestTyped'
      <3>1. queue' \in [Autos -> Seq(Events)]
        <4>1. queue \in [Autos -> Seq(Events)] /\ Append(queue[a], task.ev) \in Seq(Events)
          BY <1>2, AppendProperties DEF Base, RestTyped
        <4>2. queue' = queue \/ queue' = [queue EXCEPT ![a] = Append(queue[a], task.ev)]
          BY <1>4 DEF FireTask
        <4> QED
          BY <4>1, <4>2
      <3>2. excused' \subseteq Autos \X Events /\ pending' \subseteq Autos
        BY <1>2, <1>4 DEF FireTask, Base, RestTyped, Key
      <3> QED
        BY <2>1, <3>1, <3>2, <1>4 DEF FireTask, Base, RestTyped
    <2> QED
      BY <1>1, <2>1, <2>2, NoRunChanges DEF Base
  <1> QED
    BY <1>3, <1>4

\* A paused run is answered, with the tasks in rest before the one that goes on with it.
LEMMA PrologueBase ==
    ASSUME Base, NEW r \in 1..Len(runs), NEW rest, TasksGood(rest, runs), Prologue(r, rest),
           excused' \subseteq Autos \X Events,
           UNCHANGED <<enabled, queue, pending, sweep, closing, taken, late, disturbed>>
    PROVE  Base' /\ GentleStep
  <1> DEFINE x == [runs[r] EXCEPT !.status = "running", !.mine = TRUE, !.waits = NoThread,
                                  !.spec = enabled[runs[r].auto], !.guarded = TRUE]
             task == Task("resume", runs[r].auto, runs[r].ev, r)
  <1>0. runs[r].status = "paused" /\ RunGood(runs[r]) /\ runs[r] \in RunRec
        /\ TasksGood(ready, runs) /\ SweepGood(sweep, runs) /\ RunsGood(runs)
    BY RunIsGood DEF Prologue, Base
  <1>1. runs[r].pc = "none" /\ runs[r].auto \in Autos /\ enabled[runs[r].auto] \in BOOLEAN
    BY <1>0 DEF RunGood, Settled, RunRec, Base, RestTyped
  <1>2. /\ x \in RunRec /\ x.status = "running" /\ x.mine = TRUE /\ x.pc = "none"
        /\ x.waits = NoThread /\ x.cancel = runs[r].cancel /\ x.stop = runs[r].stop
        /\ x.auto = runs[r].auto /\ x.ev = runs[r].ev /\ x.work = runs[r].work
    BY <1>0, <1>1 DEF RunRec, Statuses
  <1>3. RunGood(x) /\ Resumable(x)
    <2> HIDE DEF x
    <2> QED
      BY <1>0, <1>2 DEF RunGood, Resumable
  <1>4. runs' = [runs EXCEPT ![r] = x] /\ ready' = Append(rest, task)
    BY <1>0 DEF Prologue, RunsGood
  <1>5. task \in TaskRec /\ task.kind = "resume" /\ task.run = r
    BY <1>0 DEF Task, TaskRec, RunRec
  <1> HIDE DEF x, task
  <1>6. ~Resumable(runs[r]) /\ ~Orphan(runs[r])
    BY <1>0 DEF Resumable, Orphan
  <1>7. RunsGood(runs') /\ Wrote(runs, runs', r, x)
    BY <1>0, <1>3, <1>4, <1>6, RunWritten
  <1>8. SweepGood(sweep, runs')
    <2>1. sweep.at = r => runs[r].pc \in {"deliver", "help"}
      BY <1>0 DEF SweepGood, NoRun
    <2> QED
      BY <1>1, <1>3, <1>4, <1>6, <2>1, RunWritten
  <1>9. TasksGood(rest, runs')
    <2>1. TasksSafe(runs, runs', rest)
      BY <1>6, <1>7 DEF TasksSafe, Wrote
    <2> QED
      BY <2>1, TasksKept
  <1>10. TasksGood(ready', runs')
    <2>1. TaskGood(task, runs')
      BY <1>3, <1>5, <1>7 DEF TaskGood, Wrote
    <2>2. \A i \in 1..Len(rest) : rest[i].kind = "resume" => rest[i].run # r
      BY <1>6 DEF TasksGood, TaskGood
    <2>3. TasksGood(Append(rest, task), runs')
      BY <1>5, <1>9, <2>1, <2>2, TaskAdded
    <2> QED
      BY <1>4, <2>3
  <1>11. RestTyped'
    <2>1. claims' = [t \in Threads |-> IF claims[t] = r THEN NoRun ELSE claims[t]]
      BY DEF Prologue, Released
    <2>2. NoRun \in 0..Len(runs)
      BY DomainOfRuns DEF NoRun
    <2> QED
      BY <1>7, <2>1, <2>2 DEF Base, RestTyped, Wrote
  <1>99. GentleStep
    <2>1. Gentle(runs[r], x)
      BY <1>0, <1>2 DEF Gentle, Lawful, Settled
    <2> QED
      BY <1>7, <2>1, OneRunGentle
  <1> QED
    BY <1>99, <1>7, <1>8, <1>10, <1>11 DEF Base

LEMMA AnswerNowBase ==
    ASSUME Base, NEW r, AnswerNow(r)
    PROVE  Base' /\ GentleStep
  <1>1. r \in 1..Len(runs) /\ TasksGood(ready, runs)
    BY DomainOfRuns DEF AnswerNow, Base
  <1>2. excused' \subseteq Autos \X Events
    BY DEF AnswerNow, history, Base, RestTyped
  <1> QED
    BY <1>1, <1>2, PrologueBase DEF AnswerNow, history

LEMMA AnswerTaskBase ==
    ASSUME Base, ready # <<>>, AnswerTask(Head(ready))
    PROVE  Base' /\ GentleStep
  <1> DEFINE task == Head(ready)
             t == ThreadOf[task.ev]
  <1>1. task \in TaskRec /\ TasksGood(Tail(ready), runs) /\ TaskGood(task, runs)
    BY TasksShortened DEF Base
  <1>2. task.kind = "answer" /\ task.run \in 1..Len(runs) /\ t \in Threads
    BY <1>1 DEF AnswerTask, TaskGood
  <1>0. Key(task) \in Autos \X Events
    BY <1>1 DEF TaskRec, Key
  <1>3. CASE Prologue(task.run, Tail(ready))
    <2>1. excused' \subseteq Autos \X Events
          /\ UNCHANGED <<enabled, queue, pending, sweep, closing, taken, late, disturbed>>
      BY <1>0, <1>3 DEF AnswerTask, Prologue, Base, RestTyped
    <2> QED
      BY <1>1, <1>2, <1>3, <2>1, PrologueBase
  <1>4. CASE ~Prologue(task.run, Tail(ready))
    <2>1. claims' = [claims EXCEPT ![t] = NoRun] /\ ready' = Tail(ready)
          /\ late' = late \cup {Key(task)}
          /\ UNCHANGED <<runs, sweep, enabled, queue, pending, closing, taken, excused, disturbed>>
      BY <1>4 DEF AnswerTask
    <2>2. RestTyped'
      <3>1. NoRun \in 0..Len(runs)
        BY DomainOfRuns DEF NoRun
      <3> QED
        BY <1>0, <1>2, <2>1, <3>1 DEF Base, RestTyped
    <2> QED
      BY <1>1, <2>1, <2>2, NoRunChanges DEF Base
  <1> QED
    BY <1>3, <1>4

LEMMA ResumeTaskBase ==
    ASSUME Base, ready # <<>>, ResumeTask(Head(ready))
    PROVE  Base' /\ GentleStep
  <1> DEFINE task == Head(ready)
             r == task.run
             x == [runs[r] EXCEPT !.pc = "exec"]
  <1>0. TasksGood(ready, runs) /\ SweepGood(sweep, runs) /\ RunsGood(runs)
    BY DEF Base
  <1>1. /\ TasksGood(Tail(ready), runs) /\ TaskGood(task, runs) /\ Len(Tail(ready)) = Len(ready) - 1
        /\ task = ready[1] /\ Len(ready) \in Nat \ {0}
        /\ \A i \in 1..Len(Tail(ready)) : Tail(ready)[i] = ready[i + 1] /\ i + 1 \in 1..Len(ready)
    BY <1>0, TasksShortened
  <1>2. task.kind = "resume" /\ r \in 1..Len(runs) /\ Resumable(runs[r])
    BY <1>1 DEF ResumeTask, TaskGood
  <1>3. RunGood(runs[r]) /\ runs[r] \in RunRec
    BY <1>2, RunIsGood
  <1>4. /\ x \in RunRec /\ x.status = "running" /\ x.mine /\ x.waits = runs[r].waits /\ x.pc = "exec"
        /\ x.cancel = runs[r].cancel /\ x.stop = runs[r].stop /\ x.status = runs[r].status
        /\ x.auto = runs[r].auto /\ x.ev = runs[r].ev /\ x.work = runs[r].work
    BY <1>2, <1>3 DEF RunRec, Resumable
  <1>5. RunGood(x) /\ ~Orphan(x) /\ ~Orphan(runs[r])
    <2> HIDE DEF x
    <2> QED
      BY <1>2, <1>3, <1>4 DEF RunGood, Orphan, Resumable
  <1>6. runs' = [runs EXCEPT ![r] = x] /\ ready' = Tail(ready)
    BY <1>2 DEF ResumeTask, RunsGood
  <1> HIDE DEF x
  <1>7. RunsGood(runs') /\ Wrote(runs, runs', r, x)
    BY <1>0, <1>2, <1>5, <1>6, OneRunWritten
  <1>8. SweepGood(sweep, runs')
    <2>1. sweep.at # r
      BY <1>0, <1>2 DEF SweepGood, Resumable, NoRun
    <2>2. sweep.at # NoRun => sweep.at \in 1..Len(runs)
      BY <1>0 DEF SweepGood
    <2>3. SweepSafe(runs, runs', sweep)
      BY <1>5, <1>7, <2>1, <2>2 DEF SweepSafe, Wrote
    <2> QED
      BY <1>0, <2>3, SweepKept
  <1>9. TasksGood(ready', runs')
    <2>1. \A i \in 1..Len(Tail(ready)) : Tail(ready)[i].kind = "resume" => Tail(ready)[i].run # r
      <3> SUFFICES ASSUME NEW i \in 1..Len(Tail(ready)), Tail(ready)[i].kind = "resume",
                          Tail(ready)[i].run = r
                   PROVE  FALSE
        OBVIOUS
      <3>1. ready[i + 1].kind = "resume" /\ ready[i + 1].run = r /\ i + 1 \in 1..Len(ready)
            /\ 1 \in 1..Len(ready) /\ i + 1 # 1
        BY <1>1
      <3> QED
        BY <1>0, <1>1, <1>2, <3>1 DEF TasksGood
    <2>2. TasksSafe(runs, runs', Tail(ready))
      BY <1>7, <2>1 DEF TasksSafe, Wrote
    <2> QED
      BY <1>1, <1>6, <2>2, TasksKept
  <1>10. RestTyped'
    BY <1>7 DEF ResumeTask, history, Base, RestTyped, Wrote
  <1>99. GentleStep
    <2>1. Gentle(runs[r], x)
      BY <1>2, <1>4 DEF Gentle, Lawful, Settled
    <2> QED
      BY <1>2, <1>7, <2>1, OneRunGentle
  <1> QED
    BY <1>99, <1>7, <1>8, <1>9, <1>10 DEF ResumeTask, Base

\* A run that its task drives: no spawned task goes on with it, no sweep is at it.
LEMMA DrivenRun ==
    ASSUME Base, NEW r \in 1..Len(runs), runs[r].pc # "none", NEW x, RunGood(x),
           runs' = [runs EXCEPT ![r] = x], sweep.at = r => x.pc \in {"deliver", "help"}
    PROVE  /\ RunsGood(runs') /\ Wrote(runs, runs', r, x)
           /\ TasksGood(ready, runs') /\ SweepGood(sweep, runs')
  <1>1. RunGood(runs[r])
    BY RunIsGood
  <1>2. ~Resumable(runs[r]) /\ ~Orphan(runs[r])
    BY <1>1 DEF RunGood, RunRec, Resumable, Orphan, Settled
  <1> QED
    BY <1>2, RunWritten

\* It works on: what it writes is on its own manifest.
LEMMA ExecutingRun ==
    ASSUME Base, NEW r, Running(r), NEW x, RunGood(x), runs' = [runs EXCEPT ![r] = x]
    PROVE  /\ RunsGood(runs') /\ Wrote(runs, runs', r, x)
           /\ TasksGood(ready, runs') /\ SweepGood(sweep, runs')
           /\ r \in 1..Len(runs) /\ RunGood(runs[r]) /\ runs[r].status = "running"
  <1>1. r \in 1..Len(runs) /\ runs[r].pc = "exec"
    BY DomainOfRuns DEF Running, At
  <1>2. sweep.at # r
    BY <1>1 DEF Base, SweepGood, NoRun
  <1>3. RunGood(runs[r]) /\ runs[r].status = "running"
    BY <1>1, RunIsGood DEF RunGood
  <1> QED
    BY <1>1, <1>2, <1>3, DrivenRun

LEMMA WorkStartsBase ==
    ASSUME Base, NEW r, WorkStarts(r)
    PROVE  Base' /\ GentleStep
  <1> DEFINE x == [runs[r] EXCEPT !.work = TRUE]
  <1>1. Running(r) /\ r \in 1..Len(runs)
    BY DomainOfRuns DEF WorkStarts, Running, At
  <1>2. RunGood(x) /\ runs' = [runs EXCEPT ![r] = x] /\ x.status = runs[r].status
        /\ x.auto = runs[r].auto /\ x.ev = runs[r].ev /\ x.work /\ x.stop = runs[r].stop
    BY <1>1, RunIsGood DEF WorkStarts, RunGood, RunRec
  <1> HIDE DEF x
  <1>3. RunsGood(runs') /\ Wrote(runs, runs', r, x) /\ TasksGood(ready, runs') /\ SweepGood(sweep, runs')
        /\ runs[r].status = "running"
    BY <1>1, <1>2, ExecutingRun
  <1>4. RestTyped'
    BY <1>3 DEF WorkStarts, memory, history, Base, RestTyped, Wrote
  <1>99. GentleStep
    <2>1. Gentle(runs[r], x)
      BY <1>2, <1>3 DEF Gentle, Lawful, Settled
    <2> QED
      BY <1>1, <1>3, <2>1, OneRunGentle
  <1> QED
    BY <1>99, <1>3, <1>4 DEF WorkStarts, memory, Base

LEMMA ParkBase ==
    ASSUME Base, NEW r, NEW k \in {"counterpart", "help"}, Park(r, k)
    PROVE  Base' /\ GentleStep
  <1> DEFINE w == IF k = "counterpart" THEN OwnThread(r) ELSE NoThread
             b == IF runs[r].by = "matcher" THEN "notice" ELSE runs[r].by
             said == runs[r].says \cup {k}
             n == runs[r].parks + 1
             x == [runs[r] EXCEPT !.status = "paused", !.pc = "none", !.cancel = FALSE,
                                  !.says = said, !.parks = n, !.guarded = FALSE,
                                  !.by = b, !.waits = w]
  <1>1. Running(r) /\ r \in 1..Len(runs) /\ runs[r] \in RunRec
    BY DomainOfRuns, RunIsGood DEF Park, Running, At
  <1>2. OwnThread(r) \in Threads \cup {NoThread} /\ w \in Threads \cup {NoThread}
        /\ (k = "counterpart" => OwnThread(r) \in Threads)
    BY <1>1, EventAssumption DEF OwnThread, Park, RunRec
  <1>3. b \in {"matcher", "notice", "task", "caller"}
    BY <1>1 DEF RunRec
  <1>4. /\ x \in RunRec /\ x.status = "paused" /\ x.pc = "none" /\ x.cancel = FALSE
        /\ x.auto = runs[r].auto /\ x.ev = runs[r].ev /\ x.work = runs[r].work
        /\ x.stop = runs[r].stop
    <2>1. said \in SUBSET {"counterpart", "help"} /\ n \in Nat
      BY <1>1 DEF RunRec
    <2> HIDE DEF w, b, said, n
    <2> QED
      BY <1>1, <1>2, <1>3, <2>1 DEF RunRec, Statuses
  <1>5. runs' = [runs EXCEPT ![r] = x]
    BY <1>1 DEF Park
  <1> HIDE DEF x, b, said, n
  <1>6. RunGood(x)
    BY <1>4 DEF RunGood
  <1>7. RunsGood(runs') /\ Wrote(runs, runs', r, x) /\ TasksGood(ready, runs') /\ SweepGood(sweep, runs')
        /\ runs[r].status = "running"
    BY <1>1, <1>5, <1>6, ExecutingRun
  <1>8. claims' \in [Threads -> 0..Len(runs')]
    <2>1. claims \in [Threads -> 0..Len(runs)] /\ Len(runs') = Len(runs) /\ r \in 0..Len(runs)
      BY <1>1, <1>7 DEF Base, RestTyped, Wrote
    <2>2. claims' = claims \/ claims' = [claims EXCEPT ![OwnThread(r)] = r]
      BY DEF Park, Register
    <2> QED
      BY <2>1, <2>2
  <1>9. RestTyped'
    BY <1>8 DEF Park, memory, Base, RestTyped
  <1>99. GentleStep
    <2>1. Gentle(runs[r], x)
      BY <1>4, <1>7 DEF Gentle, Lawful, Settled
    <2> QED
      BY <1>1, <1>7, <2>1, OneRunGentle
  <1> QED
    BY <1>99, <1>7, <1>9 DEF Park, memory, Base

LEMMA SaidBase ==
    ASSUME Base, NEW r, NEW k \in {"counterpart", "help"}, Said(r, k)
    PROVE  Base' /\ GentleStep
  <1> DEFINE b == IF runs[r].by = "notice" THEN "task" ELSE runs[r].by
             x == [runs[r] EXCEPT !.says = runs[r].says \ {k}, !.by = b]
  <1>1. r \in 1..Len(runs) /\ RunGood(runs[r]) /\ runs[r] \in RunRec
    BY DomainOfRuns, RunIsGood DEF Said
  <1>2. b \in {"matcher", "notice", "task", "caller"}
    BY <1>1 DEF RunRec
  <1>3. /\ x \in RunRec /\ x.status = runs[r].status /\ x.pc = runs[r].pc /\ x.waits = runs[r].waits
        /\ x.cancel = runs[r].cancel /\ x.stop = runs[r].stop /\ x.mine = runs[r].mine
        /\ x.auto = runs[r].auto /\ x.ev = runs[r].ev /\ x.work = runs[r].work
    <2> HIDE DEF b
    <2> QED
      BY <1>1, <1>2 DEF RunRec
  <1>4. runs' = [runs EXCEPT ![r] = x]
    BY <1>1 DEF Said
  <1> HIDE DEF x, b
  <1>5. RunGood(x)
    BY <1>1, <1>3 DEF RunGood
  <1>6. /\ Resumable(runs[r]) => Resumable(x)
        /\ Orphan(runs[r]) => Orphan(x)
        /\ sweep.at = r => x.pc \in {"deliver", "help"}
    BY <1>1, <1>3 DEF Resumable, Orphan, Base, SweepGood, NoRun
  <1>7. RunsGood(runs') /\ Wrote(runs, runs', r, x) /\ TasksGood(ready, runs') /\ SweepGood(sweep, runs')
    BY <1>1, <1>4, <1>5, <1>6, RunWritten
  <1>8. claims' \in [Threads -> 0..Len(runs')]
    <2>1. claims \in [Threads -> 0..Len(runs)] /\ Len(runs') = Len(runs) /\ r \in 0..Len(runs)
      BY <1>1, <1>7 DEF Base, RestTyped, Wrote
    <2>2. claims' = claims \/ \E t \in Threads : claims' = [claims EXCEPT ![t] = r]
      BY DEF Said, Register
    <2> QED
      BY <2>1, <2>2
  <1>9. RestTyped'
    BY <1>8 DEF Said, NotPending, Base, RestTyped
  <1>99. GentleStep
    <2>1. Gentle(runs[r], x)
      BY <1>3 DEF Gentle, Lawful, Settled
    <2> QED
      BY <1>1, <1>7, <2>1, OneRunGentle
  <1> QED
    BY <1>99, <1>7, <1>9 DEF Said, Base

LEMMA FinishBase ==
    ASSUME Base, NEW r, NEW s \in {"achieved", "completed", "failed", "rejected"}, Finish(r, s)
    PROVE  Base' /\ GentleStep
  <1> DEFINE x == [runs[r] EXCEPT !.status = s, !.cancel = FALSE, !.pc = "deliver"]
  <1>1. Running(r) /\ r \in 1..Len(runs) /\ runs[r] \in RunRec /\ RunGood(runs[r])
        /\ runs[r].pc = "exec"
    BY DomainOfRuns, RunIsGood DEF Finish, Running, At
  <1>2. /\ x \in RunRec /\ x.status = s /\ x.pc = "deliver" /\ x.cancel = FALSE
        /\ x.waits = runs[r].waits /\ x.mine = runs[r].mine
        /\ x.auto = runs[r].auto /\ x.ev = runs[r].ev /\ x.work = runs[r].work
        /\ x.stop = runs[r].stop
    BY <1>1 DEF RunRec, Statuses
  <1>3. runs' = [runs EXCEPT ![r] = x]
    BY <1>1 DEF Finish
  <1> HIDE DEF x
  <1>4. RunGood(x)
    BY <1>1, <1>2 DEF RunGood, Settled
  <1>5. RunsGood(runs') /\ Wrote(runs, runs', r, x) /\ TasksGood(ready, runs') /\ SweepGood(sweep, runs')
        /\ runs[r].status = "running"
    BY <1>1, <1>3, <1>4, ExecutingRun
  <1>6. RestTyped'
    BY <1>5 DEF Finish, memory, history, Base, RestTyped, Wrote
  <1>99. GentleStep
    <2>1. Gentle(runs[r], x)
      BY <1>2, <1>5 DEF Gentle, Lawful, Settled
    <2> QED
      BY <1>1, <1>5, <2>1, OneRunGentle
  <1> QED
    BY <1>99, <1>5, <1>6 DEF Finish, memory, Base

LEMMA LeftRunningBase ==
    ASSUME Base, NEW r, LeftRunning(r)
    PROVE  Base' /\ GentleStep
  <1> DEFINE x == [runs[r] EXCEPT !.pc = "none"]
  <1>1. Running(r) /\ r \in 1..Len(runs) /\ runs[r] \in RunRec /\ RunGood(runs[r])
    BY DomainOfRuns, RunIsGood DEF LeftRunning, Running, At
  <1>2. RunGood(x) /\ runs' = [runs EXCEPT ![r] = x] /\ x.status = runs[r].status
        /\ x.auto = runs[r].auto /\ x.ev = runs[r].ev /\ x.work = runs[r].work
        /\ x.stop = runs[r].stop
    BY <1>1 DEF LeftRunning, RunGood, RunRec
  <1> HIDE DEF x
  <1>3. RunsGood(runs') /\ Wrote(runs, runs', r, x) /\ TasksGood(ready, runs') /\ SweepGood(sweep, runs')
        /\ runs[r].status = "running"
    BY <1>1, <1>2, ExecutingRun
  <1>4. RestTyped'
    BY <1>3 DEF LeftRunning, NotPending, history, Base, RestTyped, Wrote
  <1>99. GentleStep
    <2>1. Gentle(runs[r], x)
      BY <1>2, <1>3 DEF Gentle, Lawful, Settled
    <2> QED
      BY <1>1, <1>3, <2>1, OneRunGentle
  <1> QED
    BY <1>99, <1>3, <1>4 DEF LeftRunning, Base

LEMMA StopRunningBase ==
    ASSUME Base, NEW r, StopRunning(r)
    PROVE  Base' /\ GentleStep
  <1> DEFINE x == [runs[r] EXCEPT !.stop = TRUE, !.cancel = TRUE]
  <1>1. r \in 1..Len(runs) /\ runs[r] \in RunRec /\ RunGood(runs[r]) /\ runs[r].status = "running"
    BY DomainOfRuns, RunIsGood DEF StopRunning
  <1>2. /\ RunGood(x) /\ x.status = runs[r].status /\ x.pc = runs[r].pc /\ x.mine = runs[r].mine
        /\ x.auto = runs[r].auto /\ x.ev = runs[r].ev /\ x.work = runs[r].work /\ x.stop
        /\ runs' = [runs EXCEPT ![r] = x]
    BY <1>1 DEF StopRunning, RunGood, RunRec
  <1> HIDE DEF x
  <1>3. /\ Resumable(runs[r]) => Resumable(x)
        /\ Orphan(runs[r]) => Orphan(x)
        /\ sweep.at = r => x.pc \in {"deliver", "help"}
    BY <1>1, <1>2 DEF Resumable, Orphan, Base, SweepGood, NoRun
  <1>4. RunsGood(runs') /\ Wrote(runs, runs', r, x) /\ TasksGood(ready, runs') /\ SweepGood(sweep, runs')
    BY <1>1, <1>2, <1>3, RunWritten
  <1>5. disturbed' \in [Kinds -> Nat]
    BY Disturbed DEF StopRunning
  <1>6. RestTyped'
    BY <1>4, <1>5 DEF StopRunning, memory, history, Base, RestTyped, Wrote
  <1>99. GentleStep
    <2>1. Gentle(runs[r], x)
      BY <1>1, <1>2 DEF Gentle, Lawful, Settled
    <2> QED
      BY <1>1, <1>4, <2>1, OneRunGentle
  <1> QED
    BY <1>99, <1>4, <1>6 DEF StopRunning, memory, Base

\* A run that is over has the type of a run.
LEMMA OverGood ==
    ASSUME NEW x \in RunRec
    PROVE  LET y == Over(x) IN
           /\ y \in RunRec /\ y.auto = x.auto /\ y.ev = x.ev /\ y.status = x.status
           /\ y.work = x.work /\ y.stop = x.stop /\ y.pc = "none" /\ y.cancel = FALSE
           /\ y.mine = TRUE /\ y.waits = x.waits /\ y.spec = TRUE
  <1> DEFINE b == IF x.by = "notice" THEN x.by ELSE "task"
             y == [x EXCEPT !.pc = "none", !.cancel = FALSE, !.spec = TRUE, !.mine = TRUE,
                            !.parks = 0, !.by = b, !.guarded = FALSE]
  <1>1. b \in {"matcher", "notice", "task", "caller"}
    OBVIOUS
  <1>2. y = Over(x)
    BY DEF Over
  <1> HIDE DEF b
  <1>3. /\ y \in RunRec /\ y.auto = x.auto /\ y.ev = x.ev /\ y.status = x.status
        /\ y.work = x.work /\ y.stop = x.stop /\ y.pc = "none" /\ y.cancel = FALSE
        /\ y.mine = TRUE /\ y.waits = x.waits /\ y.spec = TRUE
    BY <1>1 DEF RunRec
  <1> HIDE DEF y
  <1> QED
    BY <1>2, <1>3

LEMMA WrapBase ==
    ASSUME Base, NEW r \in 1..Len(runs), runs[r].pc \in {"deliver", "help"}, NEW off,
           Wrap(r, off), enabled' \in [Autos -> BOOLEAN]
    PROVE  Base' /\ GentleStep
  <1> DEFINE x == Over(runs[r])
             wanted == ~off /\ runs[r].spec
  <1>1. RunGood(runs[r]) /\ runs[r] \in RunRec /\ runs[r].status \in Settled
    BY RunIsGood DEF RunGood
  <1>2. /\ x \in RunRec /\ x.status = runs[r].status /\ x.pc = "none" /\ x.cancel = FALSE
        /\ x.waits = runs[r].waits /\ runs' = [runs EXCEPT ![r] = x]
        /\ x.auto = runs[r].auto /\ x.ev = runs[r].ev /\ x.work = runs[r].work
        /\ x.stop = runs[r].stop
    <2>1. runs' = [runs EXCEPT ![r] = x]
      BY DEF Wrap
    <2> HIDE DEF x
    <2> QED
      BY <1>1, <2>1, OverGood DEF x
  <1> HIDE DEF x
  <1>3. RunGood(x)
    BY <1>1, <1>2 DEF RunGood
  <1>4. ~Resumable(runs[r]) /\ ~Orphan(runs[r])
    BY <1>1 DEF Resumable, Orphan, Settled
  <1>5. RunsGood(runs') /\ Wrote(runs, runs', r, x) /\ TasksGood(ready, runs')
    BY <1>2, <1>3, <1>4, RunWritten
  <1>6. SweepGood(sweep', runs')
    <2>0. SweepGood(sweep, runs)
      BY DEF Base
    <2>1. CASE sweep.at # r
      <3>1. SweepGood(sweep, runs')
        BY <1>2, <1>3, <1>4, <2>1, RunWritten
      <3> QED
        BY <2>1, <3>1 DEF Wrap
    <2>2. CASE sweep.at = r
      <3> DEFINE again == IF sweep.again THEN Append(sweep.relaunch, r) ELSE sweep.relaunch
      <3>1. again \in Seq(Nat) /\ \A i \in 1..Len(again) : again[i] \in 1..Len(runs)
        <4>1. sweep.relaunch \in Seq(Nat) /\ r \in Nat
          BY <2>0, DomainOfRuns DEF SweepGood
        <4>2. \A i \in 1..Len(sweep.relaunch) : sweep.relaunch[i] \in 1..Len(runs)
          BY <2>0 DEF SweepGood
        <4>3. /\ Append(sweep.relaunch, r) \in Seq(Nat)
              /\ \A i \in 1..Len(Append(sweep.relaunch, r)) :
                    Append(sweep.relaunch, r)[i] \in 1..Len(runs)
          BY <4>1, <4>2
        <4> QED
          BY <4>1, <4>2, <4>3
      <3>2. sweep' = [sweep EXCEPT !.at = NoRun, !.again = FALSE, !.relaunch = again]
        BY <2>2, <2>0 DEF Wrap, SweepGood
      <3> HIDE DEF again
      <3>3. /\ sweep' \in [todo : SUBSET (Nat \X BOOLEAN), at : Nat, again : BOOLEAN, relaunch : Seq(Nat)]
            /\ sweep'.todo = sweep.todo /\ sweep'.at = NoRun /\ sweep'.relaunch = again
            /\ sweep'.again = FALSE
        BY <2>0, <3>1, <3>2 DEF SweepGood, NoRun
      <3>4. \A o \in sweep.todo : o[1] \in 1..Len(runs) /\ Orphan(runs'[o[1]])
        BY <2>0, <1>4, <1>5 DEF SweepGood, Wrote
      <3> QED
        BY <1>5, <2>0, <3>1, <3>3, <3>4 DEF SweepGood, Wrote
    <2> QED
      BY <2>1, <2>2
  <1> HIDE DEF wanted
  <1>70. runs[r].auto \in Autos /\ Housekeeping(runs[r].auto, wanted, Chained(r))
    BY <1>1 DEF Wrap, RunRec, wanted
  <1>7. PICK w \in {wanted, FALSE} :
          Drain(runs[r].auto, w, Chained(r)) /\ disturbed' \in [Kinds -> Nat]
    BY <1>70, HousekeepingDrains DEF KeptUp
  <1>8. Chained(r) \in Seq(TaskRec) /\ \A i \in 1..Len(Chained(r)) : Chained(r)[i].kind \in Firing
    BY ChainedGood
  <1>9. TasksGood(ready', runs') /\ queue' \in [Autos -> Seq(Events)] /\ excused' \subseteq Autos \X Events
    BY <1>5, <1>70, <1>7, <1>8, DrainGood
  <1>10. taken' \subseteq Autos \X Events /\ pending' \subseteq Autos
    <2>1. Chain[runs[r].auto] \subseteq Autos /\ runs[r].ev \in Events
      BY <1>1, <1>70, ChainAssumption DEF RunRec
    <2> QED
      BY <2>1 DEF Wrap, NotPending, Base, RestTyped
  <1>11. RestTyped'
    BY <1>5, <1>7, <1>9, <1>10 DEF Wrap, Base, RestTyped, Wrote
  <1>99. GentleStep
    <2>1. Gentle(runs[r], x)
      BY <1>2 DEF Gentle, Lawful, Settled
    <2> QED
      BY <1>5, <2>1, OneRunGentle
  <1> QED
    BY <1>99, <1>5, <1>6, <1>9, <1>11 DEF Base

LEMMA DeliveredBase ==
    ASSUME Base, NEW r, Delivered(r)
    PROVE  Base' /\ GentleStep
  <1>1. r \in 1..Len(runs) /\ runs[r].pc = "deliver" /\ RunGood(runs[r]) /\ runs[r] \in RunRec
    BY DomainOfRuns, RunIsGood DEF Delivered, At
  <1>2. CASE Stuck(r)
    <2> DEFINE x == [runs[r] EXCEPT !.pc = "help"]
    <2>1. RunGood(x) /\ x.pc = "help" /\ runs' = [runs EXCEPT ![r] = x]
          /\ x.status = runs[r].status /\ x.auto = runs[r].auto /\ x.ev = runs[r].ev
          /\ x.work = runs[r].work /\ x.stop = runs[r].stop
      BY <1>1, <1>2 DEF Delivered, RunGood, RunRec
    <2> HIDE DEF x
    <2>2. RunsGood(runs') /\ Wrote(runs, runs', r, x) /\ TasksGood(ready, runs') /\ SweepGood(sweep, runs')
      BY <1>1, <2>1, DrivenRun
    <2>3. RestTyped'
      BY <1>2, <2>2 DEF Delivered, memory, history, Base, RestTyped, Wrote
    <2>4. GentleStep
      <3>1. Gentle(runs[r], x)
        BY <1>1, <2>1 DEF Gentle, Lawful, Settled
      <3> QED
        BY <1>1, <2>2, <3>1, OneRunGentle
    <2> QED
      BY <1>2, <2>2, <2>3, <2>4 DEF Delivered, memory, Base
  <1>3. CASE ~Stuck(r)
    <2>1. enabled' \in [Autos -> BOOLEAN]
      BY <1>3 DEF Delivered, Base, RestTyped
    <2>2. Wrap(r, runs[r].status = "achieved")
      BY <1>3 DEF Delivered
    <2> QED
      BY <1>1, <2>1, <2>2, WrapBase
  <1> QED
    BY <1>2, <1>3

LEMMA EscalatedBase ==
    ASSUME Base, NEW r, Escalated(r)
    PROVE  Base' /\ GentleStep
  <1>1. r \in 1..Len(runs) /\ runs[r].pc = "help"
    BY DomainOfRuns DEF Escalated, At
  <1>2. enabled' \in [Autos -> BOOLEAN]
    BY DEF Escalated, Base, RestTyped
  <1>3. Wrap(r, OnStuck = "escalate_pause")
    BY DEF Escalated
  <1> QED
    BY <1>1, <1>2, <1>3, WrapBase

LEMMA CancelledBase ==
    ASSUME Base, NEW r, Cancelled(r)
    PROVE  Base' /\ GentleStep
  <1> DEFINE y == Over(runs[r])
             x == [y EXCEPT !.status = "interrupted"]
  <1>1. Running(r) /\ r \in 1..Len(runs) /\ runs[r] \in RunRec /\ RunGood(runs[r])
    BY DomainOfRuns, RunIsGood DEF Cancelled, Running, At
  <1>2. runs' = [runs EXCEPT ![r] = x]
    BY DEF Cancelled
  <1>3. /\ y \in RunRec /\ y.pc = "none" /\ y.cancel = FALSE /\ y.waits = runs[r].waits
        /\ y.auto = runs[r].auto /\ y.ev = runs[r].ev /\ y.work = runs[r].work
        /\ y.stop = runs[r].stop
    BY <1>1, OverGood
  <1>4. runs[r].waits = NoThread
    BY <1>1, ExecutingRun, DomainOfRuns DEF RunGood, Running, At
  <1> HIDE DEF y
  <1>5. /\ x \in RunRec /\ x.status = "interrupted" /\ x.pc = "none" /\ x.cancel = FALSE
        /\ x.waits = NoThread /\ x.auto = runs[r].auto /\ x.ev = runs[r].ev
        /\ x.work = runs[r].work /\ x.stop = runs[r].stop
    BY <1>3, <1>4 DEF RunRec, Statuses
  <1> HIDE DEF x
  <1>6. RunGood(x)
    BY <1>5 DEF RunGood
  <1>7. RunsGood(runs') /\ Wrote(runs, runs', r, x) /\ TasksGood(ready, runs') /\ SweepGood(sweep, runs')
        /\ runs[r].status = "running"
    BY <1>1, <1>2, <1>6, ExecutingRun
  <1>8. <<>> \in Seq(TaskRec) /\ \A i \in 1..Len(<<>>) : <<>>[i].kind \in Firing
    OBVIOUS
  <1>90. runs[r].auto \in Autos
    BY <1>1 DEF RunRec
  <1>9. PICK w \in {runs[r].spec, FALSE} :
          Drain(runs[r].auto, w, <<>>) /\ disturbed' \in [Kinds -> Nat]
    <2>1. Housekeeping(runs[r].auto, runs[r].spec, <<>>)
      BY Zenon DEF Cancelled
    <2>2. KeptUp(runs[r].auto, runs[r].spec, <<>>)
      BY <2>1, HousekeepingDrains
    <2> QED
      BY <2>2 DEF KeptUp
  <1>10. TasksGood(ready', runs') /\ queue' \in [Autos -> Seq(Events)] /\ excused' \subseteq Autos \X Events
    BY <1>7, <1>8, <1>90, <1>9, DrainGood
  <1>11. RestTyped'
    BY <1>7, <1>9, <1>10 DEF Cancelled, NotPending, Base, RestTyped, Wrote
  <1>99. GentleStep
    <2>1. runs[r].stop
      BY <1>1 DEF Cancelled, RunGood
    <2>2. Gentle(runs[r], x)
      BY <1>5, <1>7, <2>1 DEF Gentle, Lawful, Settled
    <2> QED
      BY <1>1, <1>7, <2>2, OneRunGentle, DomainOfRuns DEF Running, At
  <1> QED
    BY <1>99, <1>7, <1>10, <1>11 DEF Cancelled, Base

LEMMA BreaksBase ==
    ASSUME Base, NEW r, Breaks(r)
    PROVE  Base' /\ GentleStep
  <1> DEFINE s == IF runs[r].guarded THEN "failed" ELSE runs[r].status
             y == Over(runs[r])
             x == [y EXCEPT !.status = s]
  <1>1. r \in 1..Len(runs) /\ runs[r] \in RunRec /\ RunGood(runs[r]) /\ runs[r].pc # "none"
        /\ sweep.at # r
    BY DomainOfRuns, RunIsGood DEF Breaks
  <1>2. runs' = [runs EXCEPT ![r] = x]
    BY <1>1 DEF Breaks
  <1>3. s \in Statuses /\ (s = runs[r].status \/ (runs[r].guarded /\ s = "failed"))
    BY <1>1 DEF RunRec, Statuses
  <1> HIDE DEF s
  <1>4. /\ y \in RunRec /\ y.pc = "none" /\ y.cancel = FALSE /\ y.waits = runs[r].waits
        /\ y.auto = runs[r].auto /\ y.ev = runs[r].ev /\ y.work = runs[r].work
        /\ y.stop = runs[r].stop
    BY <1>1, OverGood
  <1> HIDE DEF y
  <1>5. /\ x \in RunRec /\ x.status = s /\ x.pc = "none" /\ x.cancel = FALSE
        /\ x.waits = runs[r].waits /\ x.auto = runs[r].auto /\ x.ev = runs[r].ev
        /\ x.work = runs[r].work /\ x.stop = runs[r].stop
    BY <1>3, <1>4 DEF RunRec
  <1> HIDE DEF x
  <1>6. runs[r].waits = NoThread
    BY <1>1 DEF RunGood, RunRec, Settled
  <1>7. RunGood(x)
    BY <1>5, <1>6 DEF RunGood
  <1>8. RunsGood(runs') /\ Wrote(runs, runs', r, x) /\ TasksGood(ready, runs') /\ SweepGood(sweep, runs')
    BY <1>1, <1>2, <1>7, DrivenRun
  <1>9. disturbed' \in [Kinds -> Nat]
    BY Disturbed DEF Breaks
  <1>10. RestTyped'
    BY <1>8, <1>9 DEF Breaks, NotPending, Base, RestTyped, Wrote
  <1>99. GentleStep
    <2>0. runs[r].work
      BY DEF Breaks
    <2>1. Gentle(runs[r], x)
      BY <1>1, <1>3, <1>5, <2>0 DEF Gentle, Lawful, Refinalized, RunGood, RunRec, Settled
    <2> QED
      BY <1>1, <1>8, <2>1, OneRunGentle
  <1> QED
    BY <1>99, <1>8, <1>10 DEF Breaks, Base

LEMMA StopPausedBase ==
    ASSUME Base, NEW r, StopPaused(r)
    PROVE  Base' /\ GentleStep
  <1> DEFINE x == [runs[r] EXCEPT !.status = "interrupted", !.stop = TRUE, !.waits = NoThread]
  <1>1. r \in 1..Len(runs) /\ runs[r] \in RunRec /\ RunGood(runs[r]) /\ runs[r].status = "paused"
    BY DomainOfRuns, RunIsGood DEF StopPaused
  <1>2. runs[r].pc = "none" /\ sweep.at # r
    BY <1>1 DEF RunGood, RunRec, Settled, Base, SweepGood, NoRun
  <1>3. /\ x \in RunRec /\ x.pc = "none" /\ x.waits = NoThread /\ x.stop = TRUE
        /\ x.auto = runs[r].auto /\ x.ev = runs[r].ev /\ x.work = runs[r].work
        /\ runs' = [runs EXCEPT ![r] = x]
    BY <1>1, <1>2 DEF StopPaused, RunRec, Statuses
  <1> HIDE DEF x
  <1>4. RunGood(x) /\ ~Resumable(runs[r]) /\ ~Orphan(runs[r])
    BY <1>1, <1>3 DEF RunGood, Resumable, Orphan
  <1>5. RunsGood(runs') /\ Wrote(runs, runs', r, x) /\ TasksGood(ready, runs') /\ SweepGood(sweep, runs')
    BY <1>1, <1>2, <1>3, <1>4, RunWritten
  <1>6. <<>> \in Seq(TaskRec) /\ \A i \in 1..Len(<<>>) : <<>>[i].kind \in Firing
    OBVIOUS
  <1>7. Drain(runs[r].auto, enabled[runs[r].auto], <<>>) /\ runs[r].auto \in Autos
    BY <1>1 DEF StopPaused, RunRec
  <1>8. TasksGood(ready', runs') /\ queue' \in [Autos -> Seq(Events)] /\ excused' \subseteq Autos \X Events
    BY <1>5, <1>6, <1>7, DrainGood
  <1>9. disturbed' \in [Kinds -> Nat]
    BY Disturbed DEF StopPaused
  <1>10. claims' \in [Threads -> 0..Len(runs')]
    <2>1. claims' = [t \in Threads |-> IF claims[t] = r THEN NoRun ELSE claims[t]]
      BY DEF StopPaused, Released
    <2>2. NoRun \in 0..Len(runs)
      BY DomainOfRuns DEF NoRun
    <2> QED
      BY <1>5, <2>1, <2>2 DEF Base, RestTyped, Wrote
  <1>11. RestTyped'
    BY <1>5, <1>8, <1>9, <1>10 DEF StopPaused, Base, RestTyped, Wrote
  <1>99. GentleStep
    <2>1. Gentle(runs[r], x)
      BY <1>1, <1>3 DEF Gentle, Lawful, Settled
    <2> QED
      BY <1>1, <1>5, <2>1, OneRunGentle
  <1> QED
    BY <1>99, <1>5, <1>8, <1>11 DEF StopPaused, Base

\* After a death no run has a task.
LEMMA IdleGood ==
    ASSUME NEW x, RunGood(x)
    PROVE  LET y == Idle(x) IN
           /\ RunGood(y) /\ y.auto = x.auto /\ y.ev = x.ev /\ y.status = x.status
           /\ y.work = x.work /\ y.stop = x.stop /\ y.pc = "none" /\ y.waits = x.waits
           /\ y.spec = x.spec
  <1> DEFINE y == [x EXCEPT !.mine = FALSE, !.cancel = FALSE, !.pc = "none", !.says = {}, !.by = "task",
                        !.guarded = FALSE]
  <1>1. y = Idle(x) /\ x \in RunRec
    BY DEF Idle, RunGood
  <1>2. /\ y \in RunRec /\ y.auto = x.auto /\ y.ev = x.ev /\ y.status = x.status
        /\ y.work = x.work /\ y.stop = x.stop /\ y.pc = "none" /\ y.waits = x.waits
        /\ y.cancel = FALSE /\ y.spec = x.spec
    BY <1>1 DEF RunRec
  <1> HIDE DEF y
  <1>3. RunGood(y)
    BY <1>2 DEF RunGood
  <1> QED
    BY <1>1, <1>2, <1>3

LEMMA RestartedRuns ==
    ASSUME Base, runs' = [r \in DOMAIN runs |-> Idle(runs[r])]
    PROVE  /\ RunsGood(runs') /\ Len(runs') = Len(runs) /\ Len(runs) \in Nat
           /\ DOMAIN runs' = 1..Len(runs)
           /\ \A r \in 1..Len(runs) : runs'[r] = Idle(runs[r])
  <1>1. DOMAIN runs = 1..Len(runs) /\ Len(runs) \in Nat
    BY DomainOfRuns
  <1>2. \A r \in 1..Len(runs) : RunGood(Idle(runs[r])) /\ Idle(runs[r]) \in RunRec
    BY RunIsGood, IdleGood DEF RunGood
  <1>3. runs' \in [1..Len(runs) -> RunRec]
    BY <1>1, <1>2
  <1>4. runs' \in Seq(RunRec) /\ Len(runs') = Len(runs) /\ DOMAIN runs' = 1..Len(runs)
    BY <1>1, <1>3
  <1>5. \A r \in 1..Len(runs) : runs'[r] = Idle(runs[r])
    BY <1>1
  <1> QED
    BY <1>1, <1>2, <1>4, <1>5 DEF RunsGood

LEMMA NoTasks == ASSUME NEW R PROVE TasksGood(<<>>, R) /\ (Len(R) \in Nat => SweepGood(NoSweep, R))
  <1>1. TasksGood(<<>>, R)
    BY DEF TasksGood
  <1>2. SweepGood(NoSweep, R)
    <2>1. <<>> \in Seq(Nat) /\ Len(<<>>) = 0
      OBVIOUS
    <2> QED
      BY <2>1 DEF SweepGood, NoSweep, NoRun
  <1> QED
    BY <1>1, <1>2

LEMMA RestartBase ==
    ASSUME Base, Restart
    PROVE  Base' /\ GentleStep
  <1>1. RunsGood(runs') /\ Len(runs') = Len(runs) /\ Len(runs) \in Nat
    BY RestartedRuns DEF Restart
  <1>2. TasksGood(ready', runs') /\ SweepGood(sweep', runs')
    BY <1>1, NoTasks DEF Restart
  <1>3. disturbed' \in [Kinds -> Nat]
    BY Disturbed DEF Restart, Base, RestTyped
  <1>4. excused' \subseteq Autos \X Events
    <2>1. \A task \in ToSet(ready) : Key(task) \in Autos \X Events
      <3>1. ready \in Seq(TaskRec) /\ DOMAIN ready = 1..Len(ready)
        BY DEF Base, TasksGood
      <3>2. \A task \in ToSet(ready) : task \in TaskRec
        BY <3>1 DEF ToSet
      <3> QED
        BY <3>2 DEF TaskRec, Key
    <2>2. SweepGood(sweep, runs)
      BY DEF Base
    <2>3. \A r \in ToSet(sweep.relaunch) \cup (IF sweep.again THEN {sweep.at} ELSE {}) :
             r \in 1..Len(runs)
      <3>1. sweep.relaunch \in Seq(Nat) /\ DOMAIN sweep.relaunch = 1..Len(sweep.relaunch)
        BY <2>2 DEF SweepGood
      <3>2. \A r \in ToSet(sweep.relaunch) : r \in 1..Len(runs)
        BY <2>2, <3>1 DEF SweepGood, ToSet
      <3>3. sweep.again => sweep.at \in 1..Len(runs)
        BY <2>2 DEF SweepGood
      <3> QED
        BY <3>2, <3>3
    <2>4. \A r \in 1..Len(runs) : <<runs[r].auto, runs[r].ev>> \in Autos \X Events
      BY RunIsGood DEF RunRec
    <2>5. excused \subseteq Autos \X Events
      BY DEF Base, RestTyped
    <2> DEFINE fires == {task \in ToSet(ready) : task.kind \in Firing}
               answers == {task \in ToSet(ready) : task.kind = "answer"}
               again == ToSet(sweep.relaunch) \cup (IF sweep.again THEN {sweep.at} ELSE {})
    <2>6. excused' = excused \cup {Key(task) : task \in fires \cup answers}
                             \cup {<<runs[r].auto, runs[r].ev>> : r \in again}
      BY DEF Restart
    <2>7. \A r \in again : <<runs[r].auto, runs[r].ev>> \in Autos \X Events
      BY <2>3, <2>4
    <2> HIDE DEF again
    <2> QED
      BY <2>1, <2>5, <2>6, <2>7
  <1>5. RestTyped'
    BY <1>1, <1>3, <1>4 DEF Restart, Base, RestTyped
  <1>99. GentleStep
    <2>1. \A r \in 1..Len(runs) : Gentle(runs[r], runs'[r])
      BY RestartedRuns, RunIsGood, IdleGood DEF Restart, Gentle, Lawful
    <2> QED
      BY <1>1, <2>1 DEF GentleStep, RunsStep, Gentle
  <1> QED
    BY <1>99, <1>1, <1>2, <1>5 DEF Base

LEMMA SweepStartsBase ==
    ASSUME Base, SweepStarts
    PROVE  Base' /\ GentleStep
  <1> DEFINE orphans == {r \in DOMAIN runs : runs[r].status = "running" /\ ~runs[r].mine}
             todo == {<<r, runs[r].stop>> : r \in orphans}
  <1>1. SweepGood(sweep, runs) /\ sweep = NoSweep
    BY DEF Base, SweepStarts
  <1>2. \A r \in orphans : r \in 1..Len(runs) /\ Orphan(runs[r]) /\ r \in Nat /\ runs[r].stop \in BOOLEAN
    BY DomainOfRuns, RunIsGood DEF Orphan, RunRec
  <1>3. /\ todo \subseteq Nat \X BOOLEAN
        /\ \A o \in todo : o[1] \in 1..Len(runs) /\ Orphan(runs[o[1]])
        /\ \A o, p \in todo : o[1] = p[1] => o = p
    BY <1>2
  <1>4. sweep' = [sweep EXCEPT !.todo = todo]
    BY DEF SweepStarts
  <1> HIDE DEF todo
  <1>5. SweepGood(sweep', runs)
    BY <1>1, <1>3, <1>4 DEF SweepGood, NoSweep
  <1>6. RestTyped'
    BY DEF SweepStarts, history, Base, RestTyped
  <1>99. GentleStep
    BY NoRunChanges DEF SweepStarts
  <1> QED
    BY <1>99, <1>5, <1>6 DEF SweepStarts, Base

LEMMA SweepOneBase ==
    ASSUME Base, NEW orphan \in sweep.todo, SweepOne(orphan)
    PROVE  Base' /\ RunsStep
  <1> DEFINE r == orphan[1]
             again == ~runs[r].work /\ ~orphan[2] /\ enabled[runs[r].auto]
             x == [runs[r] EXCEPT !.status = "interrupted", !.pc = "deliver",
                                  !.spec = enabled[runs[r].auto]]
  <1>0. SweepGood(sweep, runs) /\ RunsGood(runs) /\ TasksGood(ready, runs)
    BY DEF Base
  <1>1. r \in 1..Len(runs) /\ Orphan(runs[r]) /\ sweep.at = NoRun /\ orphan \in Nat \X BOOLEAN
    BY <1>0 DEF SweepGood, SweepOne
  <1>2. runs[r] \in RunRec /\ RunGood(runs[r]) /\ enabled[runs[r].auto] \in BOOLEAN
    BY <1>1, RunIsGood DEF RunRec, Base, RestTyped
  <1>3. again \in BOOLEAN
    BY <1>1, <1>2
  <1>4. runs' = [runs EXCEPT ![r] = x]
        /\ sweep' = [sweep EXCEPT !.todo = sweep.todo \ {orphan}, !.at = r, !.again = again]
    BY <1>0, <1>1 DEF SweepOne, RunsGood, SweepGood
  <1>5. x \in RunRec /\ x.pc = "deliver" /\ x.status = "interrupted" /\ x.waits = runs[r].waits
        /\ x.cancel = runs[r].cancel /\ x.stop = runs[r].stop
        /\ x.auto = runs[r].auto /\ x.ev = runs[r].ev /\ x.work = runs[r].work
    BY <1>2 DEF RunRec, Statuses
  <1>6. ~Resumable(runs[r])
    BY <1>1 DEF Resumable, Orphan
  <1> HIDE DEF x, again
  <1>7. RunGood(x)
    BY <1>1, <1>2, <1>5 DEF RunGood, Settled, Orphan
  <1>8. RunsGood(runs') /\ Wrote(runs, runs', r, x)
    BY <1>0, <1>1, <1>4, <1>7, OneRunWritten
  <1>9. TasksGood(ready, runs')
    <2>1. TasksSafe(runs, runs', ready)
      BY <1>6, <1>8 DEF TasksSafe, Wrote
    <2> QED
      BY <1>0, <2>1, TasksKept
  <1>10. SweepGood(sweep', runs')
    <2>1. r \in Nat /\ r # NoRun
      BY <1>1 DEF NoRun
    <2>2. /\ sweep' \in [todo : SUBSET (Nat \X BOOLEAN), at : Nat, again : BOOLEAN, relaunch : Seq(Nat)]
          /\ sweep'.todo = sweep.todo \ {orphan} /\ sweep'.at = r /\ sweep'.relaunch = sweep.relaunch
      BY <1>0, <1>3, <1>4, <2>1 DEF SweepGood
    <2>3. \A o \in sweep.todo \ {orphan} : o[1] # r /\ o[1] \in 1..Len(runs) /\ Orphan(runs'[o[1]])
      BY <1>0, <1>1, <1>8 DEF SweepGood, Wrote
    <2> QED
      BY <1>0, <1>1, <1>5, <1>8, <2>1, <2>2, <2>3 DEF SweepGood, Wrote
  <1>11. excused' \subseteq Autos \X Events
    <2>1. <<runs[r].auto, runs[r].ev>> \in Autos \X Events
      BY <1>2 DEF RunRec
    <2> QED
      BY <2>1 DEF SweepOne, Base, RestTyped
  <1>12. RestTyped'
    BY <1>8, <1>11 DEF SweepOne, Base, RestTyped, Wrote
  <1>99. RunsStep
    <2>1. Lawful(runs[r], x)
      BY <1>1, <1>5 DEF Lawful, Orphan, Settled
    <2>2. \A s \in 1..Len(runs) : Lawful(runs[s], runs'[s])
      BY <1>8, <2>1, GentleStays DEF Wrote, Gentle
    <2> QED
      BY <1>8, <2>2 DEF RunsStep, Wrote
  <1> QED
    BY <1>99, <1>8, <1>9, <1>10, <1>12 DEF SweepOne, Base

\* The tasks that launch orphans again.
Relaunches == [i \in DOMAIN sweep.relaunch |->
                  Task("relaunch", runs[sweep.relaunch[i]].auto, runs[sweep.relaunch[i]].ev, NoRun)]

LEMMA RelaunchesGood ==
    ASSUME Base
    PROVE  /\ Relaunches \in Seq(TaskRec) /\ Len(Relaunches) = Len(sweep.relaunch)
           /\ \A i \in 1..Len(Relaunches) :
                /\ Relaunches[i].kind \in Firing /\ sweep.relaunch[i] \in 1..Len(runs)
                /\ Key(Relaunches[i]) = <<runs[sweep.relaunch[i]].auto, runs[sweep.relaunch[i]].ev>>
  <1>1. /\ sweep.relaunch \in Seq(Nat) /\ Len(sweep.relaunch) \in Nat
        /\ DOMAIN sweep.relaunch = 1..Len(sweep.relaunch)
        /\ \A i \in 1..Len(sweep.relaunch) : sweep.relaunch[i] \in 1..Len(runs)
    BY DEF Base, SweepGood
  <1>2. ASSUME NEW i \in 1..Len(sweep.relaunch)
        PROVE  LET task == Task("relaunch", runs[sweep.relaunch[i]].auto,
                                runs[sweep.relaunch[i]].ev, NoRun)
               IN  /\ task \in TaskRec /\ task.kind \in Firing
                   /\ Key(task) = <<runs[sweep.relaunch[i]].auto, runs[sweep.relaunch[i]].ev>>
    <2> DEFINE r == sweep.relaunch[i]
    <2>1. runs[r].auto \in Autos /\ runs[r].ev \in Events
      BY <1>1, RunIsGood DEF RunRec
    <2>2. "relaunch" \in Firing /\ NoRun \in Nat
      BY DEF Firing, NoRun
    <2> HIDE DEF r
    <2>3. LET task == Task("relaunch", runs[r].auto, runs[r].ev, NoRun)
          IN  /\ task \in TaskRec /\ task.kind \in Firing
              /\ Key(task) = <<runs[r].auto, runs[r].ev>>
      BY <2>1, <2>2, SpawnedGood
    <2> QED
      BY <2>3 DEF r
  <1>3. Relaunches \in [1..Len(sweep.relaunch) -> TaskRec]
    BY <1>1, <1>2 DEF Relaunches
  <1>4. Relaunches \in Seq(TaskRec) /\ Len(Relaunches) = Len(sweep.relaunch)
    <2> DEFINE n == Len(sweep.relaunch)
    <2>1. n \in Nat /\ Relaunches \in [1..n -> TaskRec]
      BY <1>1, <1>3
    <2> HIDE DEF n
    <2>2. Relaunches \in Seq(TaskRec) /\ Len(Relaunches) = n
      BY <2>1
    <2> QED
      BY <2>2 DEF n
  <1>5. \A i \in 1..Len(sweep.relaunch) :
           Relaunches[i] = Task("relaunch", runs[sweep.relaunch[i]].auto,
                                runs[sweep.relaunch[i]].ev, NoRun)
    BY <1>1 DEF Relaunches
  <1> QED
    BY <1>1, <1>2, <1>4, <1>5

LEMMA SweepEndsBase ==
    ASSUME Base, SweepEnds
    PROVE  Base' /\ GentleStep
  <1>1. ready' = ready \o Relaunches
    BY DEF SweepEnds, Relaunches
  <1>2. TasksGood(ready', runs)
    BY <1>1, RelaunchesGood, TasksJoined DEF Base
  <1>3. SweepGood(sweep', runs)
    BY NoTasks, DomainOfRuns DEF SweepEnds
  <1>4. RestTyped'
    BY DEF SweepEnds, history, Base, RestTyped
  <1>99. GentleStep
    BY NoRunChanges DEF SweepEnds
  <1> QED
    BY <1>99, <1>2, <1>3, <1>4 DEF SweepEnds, Base

LEMMA BaseAtStart == Init => Base
  <1> SUFFICES ASSUME Init PROVE Base
    OBVIOUS
  <1>1. RunsGood(runs) /\ Len(runs) = 0
    BY DEF Init, RunsGood
  <1>2. TasksGood(ready, runs) /\ SweepGood(sweep, runs)
    BY <1>1, NoTasks DEF Init
  <1>3. RestTyped
    <2>1. NoRun \in 0..Len(runs) /\ <<>> \in Seq(Events)
      BY <1>1 DEF NoRun
    <2> QED
      BY <2>1 DEF Init, RestTyped
  <1> QED
    BY <1>1, <1>2, <1>3 DEF Base

LEMMA BaseKept == Base /\ [Next]_vars => Base' /\ RunsStep
  <1> SUFFICES ASSUME Base, [Next]_vars PROVE Base' /\ RunsStep
    OBVIOUS
  <1>0. GentleStep => RunsStep
    BY DEF GentleStep
  <1>1. ASSUME NEW e \in Events, Inbound(e) \/ CronTick(e) \/ RunNow(e) PROVE Base' /\ RunsStep
    BY <1>0, <1>1, InboundBase, CallerBase
  <1>2. CASE NextTask
    BY <1>0, <1>2, FireTaskBase, AnswerTaskBase, ResumeTaskBase DEF NextTask
  <1>3. CASE Sweep
    BY <1>0, <1>3, SweepStartsBase, SweepOneBase, SweepEndsBase DEF Sweep
  <1>4. ASSUME NEW r \in DOMAIN runs, Step(r) PROVE Base' /\ RunsStep
    BY <1>0, <1>4, WorkStartsBase, ParkBase, SaidBase, FinishBase, DeliveredBase, EscalatedBase,
       CancelledBase, LeftRunningBase, BreaksBase DEF Step
  <1>5. ASSUME NEW r \in DOMAIN runs, Person(r) PROVE Base' /\ RunsStep
    BY <1>0, <1>5, AnswerNowBase, StopRunningBase, StopPausedBase DEF Person
  <1>6. ASSUME NEW a \in Autos, Toggle(a) PROVE Base' /\ RunsStep
    BY <1>0, <1>6, ToggleBase
  <1>7. CASE Shutdown \/ Restart
    BY <1>0, <1>7, ShutdownBase, RestartBase
  <1>8. CASE UNCHANGED vars
    BY <1>0, <1>8, NothingMoves
  <1> QED
    BY <1>0, <1>1, <1>2, <1>3, <1>4, <1>5, <1>6, <1>7, <1>8 DEF Next, Arrival

LEMMA AlwaysBase == Spec => []Base
  <1> QED
    BY BaseAtStart, BaseKept, PTL DEF Spec

---------------------------------------------------------------------------
(* A run has one driver                                                    *)

\* The manifests, the tasks and the sweep agree on who drives a run: it is running in
\* its manifest and driven by one task, whoever stops, answers or sweeps it meanwhile
\* (runtime.py: _answer_prologue, sweep_orphans).
THEOREM RunsAreConsistent == Spec => []RunsConsistent
  <1>1. Base => RunsConsistent
    <2> SUFFICES ASSUME Base PROVE RunsConsistent
      OBVIOUS
    <2>1. DOMAIN runs = 1..Len(runs) /\ Len(runs) \in Nat
      BY DomainOfRuns
    <2>2. \A r \in 1..Len(runs) : RunGood(runs[r]) /\ runs[r] \in RunRec
      BY RunIsGood
    <2>3. TasksGood(ready, runs) /\ SweepGood(sweep, runs) /\ RestTyped
      BY DEF Base
    <2>4. ready \in Seq(TaskRec) /\ DOMAIN ready = 1..Len(ready)
      BY <2>3 DEF TasksGood
    <2>5. TypeOK
      <3>1. \A a \in Autos : ToSet(queue[a]) \subseteq Events
        BY <2>3 DEF RestTyped, ToSet
      <3>2. \A i \in DOMAIN ready : ready[i].kind \in Firing \cup {"answer", "resume"}
        <4>1. \A i \in 1..Len(ready) : ready[i] \in TaskRec
          BY <2>4, ElementOfSeq
        <4> QED
          BY <2>4, <4>1 DEF TaskRec
      <3>3. claims \in [Threads -> {NoRun} \cup DOMAIN runs]
        <4>1. 0..Len(runs) = {NoRun} \cup DOMAIN runs
          BY <2>1 DEF NoRun
        <4> QED
          BY <2>3, <4>1 DEF RestTyped
      <3>4. sweep.at \in {NoRun} \cup DOMAIN runs
        BY <2>1, <2>3 DEF SweepGood
      <3>5. \A r \in DOMAIN runs :
              /\ runs[r].auto \in Autos /\ runs[r].ev \in Events /\ runs[r].status \in Statuses
              /\ runs[r].pc \in {"none", "exec", "deliver", "help"}
              /\ runs[r].by \in {"matcher", "notice", "task", "caller"}
              /\ runs[r].waits \in Threads \cup {NoThread}
              /\ runs[r].waits # NoThread => runs[r].status = "paused"
        BY <2>1, <2>2 DEF RunGood, RunRec
      <3> QED
        BY <2>3, <3>1, <3>2, <3>3, <3>4, <3>5 DEF TypeOK, RestTyped
    <2>6. ASSUME NEW r \in DOMAIN runs
          PROVE  LET resumes == {i \in DOMAIN ready : ready[i].kind = "resume" /\ ready[i].run = r} IN
                 /\ runs[r].pc = "exec" \/ resumes # {} => runs[r].status = "running"
                 /\ Cardinality(resumes) + (IF runs[r].pc = "none" THEN 0 ELSE 1) <= 1
      <3> DEFINE resumes == {i \in DOMAIN ready : ready[i].kind = "resume" /\ ready[i].run = r}
      <3>1. \A i, j \in resumes : i = j
        BY <2>3, <2>4 DEF TasksGood
      <3>2. resumes # {} => runs[r].status = "running" /\ runs[r].pc = "none"
        BY <2>3, <2>4 DEF TasksGood, TaskGood, Resumable
      <3>3. runs[r].pc = "exec" => runs[r].status = "running"
        BY <2>1, <2>2 DEF RunGood
      <3> HIDE DEF resumes
      <3>4. CASE resumes = {}
        <4>1. Cardinality(resumes) = 0
          BY <3>4, FS_EmptySet
        <4> QED
          BY <3>3, <3>4, <4>1 DEF resumes
      <3>5. CASE resumes # {}
        <4>0. PICK i \in resumes : TRUE
          BY <3>5
        <4>1. resumes = {i}
          BY <3>1, <4>0
        <4>2. Cardinality(resumes) = 1
          BY <4>1, FS_Singleton
        <4> QED
          BY <3>2, <3>5, <4>2 DEF resumes
      <3> QED
        BY <3>4, <3>5
    <2>7. OneDriver
      BY <2>6 DEF OneDriver
    <2> QED
      BY <2>5, <2>7 DEF RunsConsistent
  <1> QED
    BY <1>1, AlwaysBase, PTL

---------------------------------------------------------------------------
(* What a step may never do to a run, and the one slot of an automation    *)

\* A settled run stays settled the way it was, whoever stops, answers, sweeps or
\* cancels it afterwards; only the guard around an answered run's continuation writes
\* over it, as failed (runtime.py: finalize_run, _stop, sweep_orphans,
\* _answer_continuation_guarded).
THEOREM SettledStaysAlways == Spec => SettledStays
  <1>1. ASSUME Base, RunsStep, NEW r \in DOMAIN runs, runs[r].status \notin {"running", "paused"}
        PROVE  \/ runs'[r].status = runs[r].status
               \/ runs[r].guarded /\ runs'[r].status = "failed" /\ runs'[r].pc = "none"
    <2>1. r \in 1..Len(runs) /\ runs[r].status \in Settled
      BY <1>1, DomainOfRuns, RunIsGood DEF RunRec, Statuses, Settled
    <2> QED
      BY <1>1, <2>1 DEF RunsStep, Lawful, Refinalized
  <1>2. Base /\ [Next]_vars
          => [\A r \in DOMAIN runs :
                runs[r].status \notin {"running", "paused"} =>
                  \/ runs'[r].status = runs[r].status
                  \/ runs[r].guarded /\ runs'[r].status = "failed" /\ runs'[r].pc = "none"]_vars
    BY <1>1, BaseKept
  <1> QED
    BY <1>2, AlwaysBase, PTL DEF Spec, SettledStays

\* No two runs of a single automation are running or wait for a person.
Live(r) == runs[r].status \in {"running", "paused"}
OneSlot ==
    \A r, s \in 1..Len(runs) :
        Live(r) /\ Live(s) /\ runs[r].auto = runs[s].auto /\ runs[r].auto \in Single => r = s

LEMMA OneSlotKept ==
    ASSUME Base, OneSlot, Base', RunsStep
    PROVE  OneSlot'
  <1>1. \A r \in 1..Len(runs) : Live(r)' => Live(r)
    <2>1. \A r \in 1..Len(runs) : runs[r].status \in Settled \/ Live(r)
      BY RunIsGood DEF RunRec, Statuses, Settled, Live
    <2> QED
      BY <2>1 DEF RunsStep, Lawful, Refinalized, Live, Settled
  <1>2. Len(runs) \in Nat /\ DOMAIN runs = 1..Len(runs)
    BY DomainOfRuns
  <1>3. \A r \in 1..Len(runs') : r \in 1..Len(runs) \/ (r = Len(runs) + 1 /\ Len(runs') = Len(runs) + 1)
    BY <1>2 DEF RunsStep
  <1>4. ASSUME NEW r \in 1..Len(runs), Live(r)', Len(runs') = Len(runs) + 1,
               runs'[r].auto = runs'[Len(runs) + 1].auto, runs'[r].auto \in Single
        PROVE  FALSE
    <2>1. Live(r) /\ runs[r].auto = runs'[r].auto
      BY <1>1, <1>4 DEF RunsStep, Lawful
    <2>2. Active(runs'[r].auto) # {}
      BY <1>2, <2>1 DEF Active, Live
    <2> QED
      BY <1>4, <2>2 DEF RunsStep, Busy
  <1>5. ASSUME NEW r \in 1..Len(runs), NEW s \in 1..Len(runs), Live(r)', Live(s)',
               runs'[r].auto = runs'[s].auto, runs'[r].auto \in Single
        PROVE  r = s
    <2>1. Live(r) /\ Live(s) /\ runs[r].auto = runs'[r].auto /\ runs[s].auto = runs'[s].auto
      BY <1>1, <1>5 DEF RunsStep, Lawful
    <2> QED
      BY <1>5, <2>1 DEF OneSlot
  <1> SUFFICES ASSUME NEW r \in 1..Len(runs'), NEW s \in 1..Len(runs'), Live(r)', Live(s)',
                      runs'[r].auto = runs'[s].auto, runs'[r].auto \in Single
               PROVE  r = s
    BY DEF OneSlot
  <1> QED
    BY <1>3, <1>4, <1>5

LEMMA AlwaysOneSlot == Spec => [](Base /\ OneSlot)
  <1>1. Init => OneSlot
    BY DEF Init, OneSlot
  <1>2. OneSlot /\ Base /\ Base' /\ RunsStep => OneSlot'
    BY OneSlotKept
  <1> QED
    BY <1>1, <1>2, BaseAtStart, BaseKept, PTL DEF Spec

\* A single automation has at most one run that is running or waits for a person,
\* however runs are fired, drained, chained, relaunched and answered (runtime.py: fire,
\* try_fire; matcher.py: _dispatch_match).
THEOREM OneRunAtATime == Spec => []OneActive
  <1>1. ASSUME Base, OneSlot, NEW a \in Single
        PROVE  Cardinality(Active(a)) <= 1
    <2>1. DOMAIN runs = 1..Len(runs)
      BY DomainOfRuns
    <2>2. \A r, s \in Active(a) : r = s
      BY <1>1, <2>1 DEF Active, OneSlot, Live
    <2>3. CASE Active(a) = {}
      BY <2>3, FS_EmptySet
    <2>4. CASE Active(a) # {}
      <3>1. PICK r \in Active(a) : TRUE
        BY <2>4
      <3>2. Active(a) = {r}
        BY <2>2, <3>1
      <3> QED
        BY <3>2, FS_Singleton
    <2> QED
      BY <2>3, <2>4
  <1>2. Base /\ OneSlot => OneActive
    BY <1>1 DEF OneActive
  <1> QED
    BY <1>2, AlwaysOneSlot, PTL

---------------------------------------------------------------------------
(* Whom a reply on a thread wakes                                          *)

\* In c the run r has the thread t, or it is among the displaced d.
Has(c, d, r, t) == c[t] = r \/ r \in d

\* What a step may make of a run that waits and of its claim: the run takes the claim, or
\* waited before on the thread it had; and a claim that is lost to others is displaced.
ClaimsStep ==
    \A r \in 1..Len(runs') :
        LET w == runs'[r].waits IN
        w # NoThread =>
            \/ claims'[w] = r
            \/ /\ r \in 1..Len(runs) /\ w = runs[r].waits
               /\ Has(claims, displaced, r, w) => Has(claims', displaced', r, w)

\* Each run waits as before, or no longer.
NoNewWait ==
    \A r \in 1..Len(runs') :
        \/ runs'[r].waits = NoThread
        \/ r \in 1..Len(runs) /\ runs'[r].waits = runs[r].waits

LEMMA ClaimsLeftAlone ==
    ASSUME NoNewWait, UNCHANGED <<claims, displaced>>
    PROVE  ClaimsStep
  BY DEF NoNewWait, ClaimsStep, Has

LEMMA WaitsLeftAlone ==
    ASSUME Base, UNCHANGED runs
    PROVE  NoNewWait
  BY DEF NoNewWait

LEMMA WaitsOfNewRun ==
    ASSUME Base, NEW a \in Autos, NEW e \in Events, NEW by \in {"matcher", "task", "caller"},
           runs' = Append(runs, NewRun(a, e, by))
    PROVE  NoNewWait
  <1>1. Added(runs, runs', NewRun(a, e, by))
    BY RunStarted
  <1>2. NewRun(a, e, by).waits = NoThread
    BY DEF NewRun
  <1>3. \A s \in 1..Len(runs') : s \in 1..Len(runs) \/ s = Len(runs) + 1
    BY <1>1 DEF Added
  <1> QED
    BY <1>1, <1>2, <1>3 DEF NoNewWait, Added

\* One run is rewritten, and no run is lost or added.
LEMMA Rewritten ==
    ASSUME Base, Base', NEW r \in 1..Len(runs), NEW x, runs' = [runs EXCEPT ![r] = x]
    PROVE  Wrote(runs, runs', r, x)
  <1>1. DOMAIN runs = 1..Len(runs) /\ Len(runs) \in Nat
    BY DomainOfRuns
  <1>2. DOMAIN runs' = 1..Len(runs') /\ Len(runs') \in Nat
    BY DEF Base, RunsGood
  <1>3. DOMAIN runs' = DOMAIN runs
    OBVIOUS
  <1>4. Len(runs') = Len(runs)
    BY <1>1, <1>2, <1>3
  <1> QED
    BY <1>1, <1>4 DEF Wrote

LEMMA WaitsOfRewritten ==
    ASSUME Base, Base', NEW r \in 1..Len(runs), NEW x, runs' = [runs EXCEPT ![r] = x],
           x.waits \in {runs[r].waits, NoThread}
    PROVE  NoNewWait
  <1>1. Wrote(runs, runs', r, x)
    BY Rewritten
  <1> QED
    BY <1>1 DEF NoNewWait, Wrote

LEMMA InboundClaims ==
    ASSUME Base, NEW e \in Events, Inbound(e)
    PROVE  ClaimsStep
  <1> DEFINE t == ThreadOf[e]
  <1>1. UNCHANGED <<runs, displaced>> /\ t \in Threads
    BY EventAssumption DEF Inbound
  <1>2. CASE claims' = claims
    BY <1>1, <1>2, WaitsLeftAlone, ClaimsLeftAlone
  <1>3. CASE claims' # claims
    <2>1. claims' = [claims EXCEPT ![t] = NoRun] /\ ~(claims[t] # NoRun /\ runs[claims[t]].status = "paused")
      BY <1>3 DEF Inbound
    <2>2. claims \in [Threads -> 0..Len(runs)]
      BY DEF Base, RestTyped
    <2>3. ASSUME NEW r \in 1..Len(runs), runs[r].waits # NoThread, Has(claims, displaced, r, runs[r].waits)
          PROVE  Has(claims', displaced', r, runs[r].waits)
      <3>1. runs[r].status = "paused" /\ runs[r].waits \in Threads /\ r # NoRun
        BY <2>3, RunIsGood, DomainOfRuns DEF RunGood, RunRec, NoRun
      <3>2. ~(runs[r].waits = t /\ claims[t] = r)
        BY <2>1, <3>1
      <3> QED
        BY <1>1, <2>1, <2>2, <2>3, <3>1, <3>2 DEF Has
    <2> QED
      BY <1>1, <2>3 DEF ClaimsStep
  <1> QED
    BY <1>2, <1>3

\* A run takes the claim of a thread, and whoever had it is displaced.
LEMMA RegisterClaims ==
    ASSUME Base, Base', NEW r \in 1..Len(runs), NEW x, runs' = [runs EXCEPT ![r] = x],
           NEW t \in Threads, Register(t, r), x.waits \in {runs[r].waits, t, NoThread}
    PROVE  ClaimsStep
  <1>1. Wrote(runs, runs', r, x)
    BY Rewritten
  <1>2. claims' = [claims EXCEPT ![t] = r] /\ claims \in [Threads -> 0..Len(runs)]
        /\ displaced' = (IF claims[t] \in {NoRun, r} THEN displaced ELSE displaced \cup {claims[t]})
    BY DEF Register, Base, RestTyped
  <1>3. ASSUME NEW s \in 1..Len(runs), s # r, runs[s].waits # NoThread,
               Has(claims, displaced, s, runs[s].waits)
        PROVE  Has(claims', displaced', s, runs[s].waits)
    <2>1. runs[s].waits \in Threads /\ s # NoRun
      BY <1>3, RunIsGood, DomainOfRuns DEF RunRec, NoRun
    <2>2. CASE claims[runs[s].waits] = s /\ runs[s].waits = t
      <3>1. s \in displaced'
        BY <1>2, <1>3, <2>1, <2>2
      <3> QED
        BY <3>1 DEF Has
    <2>3. CASE s \in displaced
      BY <1>2, <2>3 DEF Has
    <2>4. CASE claims[runs[s].waits] = s /\ runs[s].waits # t
      <3>1. claims'[runs[s].waits] = s
        BY <1>2, <2>1, <2>4
      <3> QED
        BY <3>1 DEF Has
    <2> QED
      BY <1>3, <2>2, <2>3, <2>4 DEF Has
  <1>4. ASSUME x.waits # NoThread
        PROVE  \/ claims'[x.waits] = r
               \/ /\ x.waits = runs[r].waits
                  /\ Has(claims, displaced, r, x.waits) => Has(claims', displaced', r, x.waits)
    <2>1. CASE x.waits = t
      BY <1>2, <2>1
    <2>2. CASE x.waits # t
      <3>1. x.waits = runs[r].waits /\ x.waits \in Threads
        BY <1>4, <2>2, RunIsGood DEF RunRec
      <3>2. claims'[x.waits] = claims[x.waits] /\ displaced \subseteq displaced'
        BY <1>2, <2>2, <3>1
      <3> QED
        BY <3>1, <3>2 DEF Has
    <2> QED
      BY <2>1, <2>2
  <1>5. ASSUME NEW s \in 1..Len(runs'), runs'[s].waits # NoThread
        PROVE  \/ claims'[runs'[s].waits] = s
               \/ /\ s \in 1..Len(runs) /\ runs'[s].waits = runs[s].waits
                  /\ Has(claims, displaced, s, runs'[s].waits) => Has(claims', displaced', s, runs'[s].waits)
    <2>1. s \in 1..Len(runs)
      BY <1>1 DEF Wrote
    <2>2. CASE s = r
      BY <1>1, <1>4, <1>5, <2>1, <2>2 DEF Wrote
    <2>3. CASE s # r
      <3>1. runs'[s] = runs[s]
        BY <1>1, <2>1, <2>3 DEF Wrote
      <3> QED
        BY <1>3, <1>5, <2>1, <2>3, <3>1
    <2> QED
      BY <2>2, <2>3
  <1> QED
    BY <1>5 DEF ClaimsStep

\* A run gives its claims back and waits no more.
LEMMA ReleaseClaims ==
    ASSUME Base, Base', NEW r \in 1..Len(runs), NEW x, runs' = [runs EXCEPT ![r] = x],
           x.waits = NoThread, claims' = Released(r), UNCHANGED displaced
    PROVE  ClaimsStep
  <1>1. Wrote(runs, runs', r, x)
    BY Rewritten
  <1>2. ASSUME NEW s \in 1..Len(runs), s # r, runs[s].waits # NoThread,
               Has(claims, displaced, s, runs[s].waits)
        PROVE  Has(claims', displaced', s, runs[s].waits)
    <2>1. runs[s].waits \in Threads
      BY <1>2, RunIsGood DEF RunRec
    <2> QED
      BY <1>2, <2>1 DEF Has, Released
  <1>3. ASSUME NEW s \in 1..Len(runs'), runs'[s].waits # NoThread
        PROVE  /\ s \in 1..Len(runs) /\ runs'[s].waits = runs[s].waits
               /\ Has(claims, displaced, s, runs'[s].waits) => Has(claims', displaced', s, runs'[s].waits)
    <2>1. s \in 1..Len(runs) /\ s # r /\ runs'[s] = runs[s]
      BY <1>1, <1>3 DEF Wrote
    <2> QED
      BY <1>2, <1>3, <2>1
  <1> QED
    BY <1>3 DEF ClaimsStep

LEMMA PrologueClaims ==
    ASSUME Base, Base', NEW r \in 1..Len(runs), NEW rest, Prologue(r, rest), UNCHANGED displaced
    PROVE  ClaimsStep
  <1> DEFINE x == [runs[r] EXCEPT !.status = "running", !.mine = TRUE, !.waits = NoThread,
                                  !.spec = enabled[runs[r].auto], !.guarded = TRUE]
  <1>1. runs' = [runs EXCEPT ![r] = x] /\ claims' = Released(r)
    BY DomainOfRuns DEF Prologue
  <1>2. x.waits = NoThread
    BY RunIsGood DEF RunRec
  <1> HIDE DEF x
  <1> QED
    BY <1>1, <1>2, ReleaseClaims

LEMMA AnswerClaims ==
    ASSUME Base, Base', ready # <<>>, AnswerTask(Head(ready))
    PROVE  ClaimsStep
  <1> DEFINE task == Head(ready)
             t == ThreadOf[task.ev]
  <1>1. task.run \in 1..Len(runs) /\ t \in Threads
    BY TasksShortened DEF Base, AnswerTask, TaskGood
  <1>2. CASE Prologue(task.run, Tail(ready)) /\ UNCHANGED displaced
    BY <1>1, <1>2, PrologueClaims
  <1>3. CASE ~(Prologue(task.run, Tail(ready)) /\ UNCHANGED displaced)
    <2>1. /\ runs[task.run].status # "paused" /\ claims' = [claims EXCEPT ![t] = NoRun]
          /\ displaced' = displaced \cup ({claims[t]} \ {NoRun, task.run}) /\ UNCHANGED runs
      BY <1>3 DEF AnswerTask
    <2>2. claims \in [Threads -> 0..Len(runs)]
      BY DEF Base, RestTyped
    <2>3. ASSUME NEW s \in 1..Len(runs), runs[s].waits # NoThread,
                 Has(claims, displaced, s, runs[s].waits)
          PROVE  Has(claims', displaced', s, runs[s].waits)
      <3>1. runs[s].status = "paused" /\ runs[s].waits \in Threads /\ s # NoRun
        BY <2>3, RunIsGood, DomainOfRuns DEF RunGood, RunRec, NoRun
      <3>2. s # task.run
        BY <2>1, <3>1
      <3> QED
        BY <2>1, <2>2, <2>3, <3>1, <3>2 DEF Has
    <2> QED
      BY <2>1, <2>3 DEF ClaimsStep
  <1> QED
    BY <1>2, <1>3


LEMMA ParkClaims ==
    ASSUME Base, Base', NEW r, NEW k \in {"counterpart", "help"}, Park(r, k)
    PROVE  ClaimsStep
  <1> DEFINE w == IF k = "counterpart" THEN OwnThread(r) ELSE NoThread
             x == [runs[r] EXCEPT !.status = "paused", !.pc = "none", !.cancel = FALSE,
                                  !.says = @ \cup {k}, !.parks = @ + 1, !.guarded = FALSE,
                                  !.by = IF @ = "matcher" THEN "notice" ELSE @, !.waits = w]
  <1>1. r \in 1..Len(runs) /\ runs[r] \in RunRec
    BY DomainOfRuns, RunIsGood DEF Park, Running, At
  <1>20. runs' = [runs EXCEPT ![r] = x]
    BY <1>1 DEF Park
  <1>21. x.waits = w
    BY <1>1 DEF RunRec
  <1> HIDE DEF x
  <1>2. runs' = [runs EXCEPT ![r] = x] /\ x.waits = w
    BY <1>20, <1>21
  <1>3. CASE k = "counterpart"
    <2>1. OwnThread(r) \in Threads /\ w = OwnThread(r) /\ Register(OwnThread(r), r)
      BY <1>1, <1>3, EventAssumption DEF OwnThread, Park, RunRec
    <2> QED
      BY <1>1, <1>2, <2>1, RegisterClaims
  <1>4. CASE k # "counterpart"
    <2>1. w = NoThread /\ UNCHANGED <<claims, displaced>>
      BY <1>4 DEF Park
    <2> QED
      BY <1>1, <1>2, <2>1, WaitsOfRewritten, ClaimsLeftAlone
  <1> QED
    BY <1>3, <1>4

LEMMA SaidClaims ==
    ASSUME Base, Base', NEW r, NEW k \in {"counterpart", "help"}, Said(r, k)
    PROVE  ClaimsStep
  <1> DEFINE x == [runs[r] EXCEPT !.says = @ \ {k}, !.by = IF @ = "notice" THEN "task" ELSE @]
  <1>1. r \in 1..Len(runs) /\ runs[r] \in RunRec
    BY DomainOfRuns, RunIsGood DEF Said
  <1>2. runs' = [runs EXCEPT ![r] = x] /\ x.waits = runs[r].waits
    BY <1>1 DEF Said, RunRec
  <1> HIDE DEF x
  <1>3. UNCHANGED <<claims, displaced>> \/ \E t \in Threads : Register(t, r)
    BY DEF Said
  <1>4. CASE UNCHANGED <<claims, displaced>>
    BY <1>1, <1>2, <1>4, WaitsOfRewritten, ClaimsLeftAlone
  <1>5. ASSUME NEW t \in Threads, Register(t, r) PROVE ClaimsStep
    BY <1>1, <1>2, <1>5, RegisterClaims
  <1> QED
    BY <1>3, <1>4, <1>5

LEMMA StopPausedClaims ==
    ASSUME Base, Base', NEW r, StopPaused(r)
    PROVE  ClaimsStep
  <1> DEFINE x == [runs[r] EXCEPT !.status = "interrupted", !.stop = TRUE, !.waits = NoThread]
  <1>1. r \in 1..Len(runs) /\ runs[r] \in RunRec
    BY DomainOfRuns, RunIsGood DEF StopPaused
  <1>2. runs' = [runs EXCEPT ![r] = x] /\ x.waits = NoThread /\ claims' = Released(r)
        /\ UNCHANGED displaced
    BY <1>1 DEF StopPaused, RunRec
  <1> HIDE DEF x
  <1> QED
    BY <1>1, <1>2, ReleaseClaims

\* Steps on one run that leave its wait and the claims alone.
LEMMA StepOnOneRun ==
    ASSUME Base, Base', NEW r,
           \/ WorkStarts(r) \/ Delivered(r) \/ Escalated(r) \/ Cancelled(r) \/ LeftRunning(r)
           \/ Breaks(r) \/ StopRunning(r)
           \/ \E s \in {"achieved", "completed", "failed", "rejected"} : Finish(r, s)
    PROVE  ClaimsStep
  <1>1. r \in 1..Len(runs) /\ runs[r] \in RunRec
    BY DomainOfRuns, RunIsGood
       DEF WorkStarts, Delivered, Escalated, Cancelled, LeftRunning, Breaks, StopRunning, Finish,
           Running, At
  <1>2. UNCHANGED <<claims, displaced>>
    BY DEF WorkStarts, Delivered, Escalated, Wrap, Cancelled, LeftRunning, Breaks, StopRunning, Finish,
           history, memory
  <1> SUFFICES \E x : runs' = [runs EXCEPT ![r] = x] /\ x.waits = runs[r].waits
    <2>1. ASSUME NEW x, runs' = [runs EXCEPT ![r] = x], x.waits = runs[r].waits PROVE ClaimsStep
      BY <1>1, <1>2, <2>1, WaitsOfRewritten, ClaimsLeftAlone
    <2> QED
      BY <2>1
  <1> DEFINE y == Over(runs[r])
  <1>3. y \in RunRec /\ y.waits = runs[r].waits
    BY <1>1, OverGood
  <1>4. CASE WorkStarts(r)
    <2> WITNESS [runs[r] EXCEPT !.work = TRUE]
    <2> QED
      BY <1>1, <1>4 DEF WorkStarts, RunRec
  <1>5. ASSUME NEW off, Wrap(r, off) PROVE \E x : runs' = [runs EXCEPT ![r] = x] /\ x.waits = runs[r].waits
    <2>1. runs' = [runs EXCEPT ![r] = y]
      BY <1>5 DEF Wrap
    <2> HIDE DEF y
    <2> QED
      BY <1>3, <2>1
  <1>6. CASE Delivered(r)
    <2>1. CASE Stuck(r)
      <3> WITNESS [runs[r] EXCEPT !.pc = "help"]
      <3> QED
        BY <1>1, <1>6, <2>1 DEF Delivered, RunRec
    <2> QED
      BY <1>5, <1>6, <2>1 DEF Delivered
  <1>7. CASE Escalated(r)
    BY <1>5, <1>7 DEF Escalated
  <1>8. CASE Cancelled(r)
    <2>1. runs' = [runs EXCEPT ![r] = [y EXCEPT !.status = "interrupted"]]
      BY <1>8 DEF Cancelled
    <2> HIDE DEF y
    <2>2. [y EXCEPT !.status = "interrupted"].waits = runs[r].waits
      BY <1>3 DEF RunRec
    <2> QED
      BY <2>1, <2>2
  <1>9. CASE LeftRunning(r)
    <2> WITNESS [runs[r] EXCEPT !.pc = "none"]
    <2> QED
      BY <1>1, <1>9 DEF LeftRunning, RunRec
  <1>10. CASE StopRunning(r)
    <2> WITNESS [runs[r] EXCEPT !.stop = TRUE, !.cancel = TRUE]
    <2> QED
      BY <1>1, <1>10 DEF StopRunning, RunRec
  <1>11. ASSUME NEW s \in {"achieved", "completed", "failed", "rejected"}, Finish(r, s)
         PROVE  \E x : runs' = [runs EXCEPT ![r] = x] /\ x.waits = runs[r].waits
    <2> DEFINE x == [runs[r] EXCEPT !.status = s, !.cancel = FALSE, !.pc = "deliver"]
    <2>1. runs' = [runs EXCEPT ![r] = x]
      BY <1>1, <1>11, DomainOfRuns DEF Finish
    <2>2. x.waits = runs[r].waits
      BY <1>1 DEF RunRec
    <2> HIDE DEF x
    <2> QED
      BY <2>1, <2>2
  <1>13. CASE Breaks(r)
    <2> DEFINE s == IF runs[r].guarded THEN "failed" ELSE runs[r].status
    <2>1. runs' = [runs EXCEPT ![r] = [y EXCEPT !.status = s]]
      BY <1>1, <1>13, DomainOfRuns DEF Breaks
    <2> HIDE DEF y, s
    <2>2. [y EXCEPT !.status = s].waits = runs[r].waits
      BY <1>3 DEF RunRec
    <2> QED
      BY <2>1, <2>2
  <1>12. CASE \E s \in {"achieved", "completed", "failed", "rejected"} : Finish(r, s)
    BY <1>11, <1>12
  <1> QED
    BY <1>4, <1>6, <1>7, <1>8, <1>9, <1>10, <1>12, <1>13

LEMMA ClaimsStepTaken ==
    ASSUME Base, Base', [Next]_vars
    PROVE  ClaimsStep
  <1>1. ASSUME NEW e \in Events, CronTick(e) \/ RunNow(e) PROVE ClaimsStep
    <2>1. AutoOf[e] \in Autos /\ runs' = Append(runs, NewRun(AutoOf[e], e, "caller"))
          /\ UNCHANGED <<claims, displaced>>
      BY <1>1, EventAssumption DEF CronTick, RunNow
    <2> QED
      BY <2>1, WaitsOfNewRun, ClaimsLeftAlone
  <1>2. ASSUME ready # <<>>, FireTask(Head(ready)) PROVE ClaimsStep
    <2> DEFINE task == Head(ready)
               a == task.auto
    <2>1. a \in Autos /\ task.ev \in Events
      BY <1>2, TasksShortened DEF Base, TaskRec
    <2>2. UNCHANGED <<claims, displaced>>
      BY <1>2 DEF FireTask
    <2>3. CASE Busy(a)
      BY <1>2, <2>2, <2>3, WaitsLeftAlone, ClaimsLeftAlone DEF FireTask
    <2>4. CASE ~Busy(a)
      <3>1. PICK by \in {"matcher", "task"} : runs' = Append(runs, NewRun(a, task.ev, by))
        BY <1>2, <2>4 DEF FireTask
      <3> QED
        BY <2>1, <2>2, <3>1, WaitsOfNewRun, ClaimsLeftAlone
    <2> QED
      BY <2>3, <2>4
  <1>3. ASSUME ready # <<>>, ResumeTask(Head(ready)) PROVE ClaimsStep
    <2> DEFINE r == Head(ready).run
               x == [runs[r] EXCEPT !.pc = "exec"]
    <2>1. r \in 1..Len(runs) /\ runs[r] \in RunRec
      BY <1>3, TasksShortened, RunIsGood DEF Base, ResumeTask, TaskGood
    <2>2. runs' = [runs EXCEPT ![r] = x] /\ x.waits = runs[r].waits /\ UNCHANGED <<claims, displaced>>
      BY <1>3, <2>1 DEF ResumeTask, RunRec, history
    <2> HIDE DEF x
    <2> QED
      BY <2>1, <2>2, WaitsOfRewritten, ClaimsLeftAlone
  <1>4. CASE NextTask
    BY <1>2, <1>3, <1>4, AnswerClaims DEF NextTask
  <1>5. ASSUME NEW r \in DOMAIN runs, Step(r) \/ Person(r) PROVE ClaimsStep
    <2>1. ASSUME AnswerNow(r) PROVE ClaimsStep
      BY <2>1, DomainOfRuns, PrologueClaims DEF AnswerNow, history
    <2> QED
      BY <1>5, <2>1, StepOnOneRun, ParkClaims, SaidClaims, StopPausedClaims DEF Step, Person
  <1>6. ASSUME NEW orphan \in sweep.todo, SweepOne(orphan) PROVE ClaimsStep
    <2> DEFINE r == orphan[1]
               x == [runs[r] EXCEPT !.status = "interrupted", !.pc = "deliver",
                                    !.spec = enabled[runs[r].auto]]
    <2>1. r \in 1..Len(runs) /\ runs[r] \in RunRec
      BY RunIsGood DEF Base, SweepGood
    <2>2. runs' = [runs EXCEPT ![r] = x] /\ x.waits = runs[r].waits /\ UNCHANGED <<claims, displaced>>
      BY <1>6, <2>1 DEF SweepOne, RunRec
    <2> HIDE DEF x
    <2> QED
      BY <2>1, <2>2, WaitsOfRewritten, ClaimsLeftAlone
  <1>7. CASE Restart
    <2>1. NoNewWait
      BY <1>7, RestartedRuns, RunIsGood, IdleGood DEF Restart, NoNewWait
    <2> QED
      BY <1>7, <2>1, ClaimsLeftAlone DEF Restart
  <1>8. ASSUME UNCHANGED <<runs, claims, displaced>> PROVE ClaimsStep
    BY <1>8, WaitsLeftAlone, ClaimsLeftAlone
  <1>9. CASE Sweep
    BY <1>6, <1>8, <1>9 DEF Sweep, SweepStarts, SweepEnds, history
  <1>10. ASSUME NEW a \in Autos, Toggle(a) PROVE ClaimsStep
    BY <1>8, <1>10 DEF Toggle, history
  <1>11. CASE Shutdown
    BY <1>8, <1>11 DEF Shutdown, history
  <1>12. CASE UNCHANGED vars
    BY <1>8, <1>12 DEF vars, history
  <1> QED
    BY <1>1, <1>4, <1>5, <1>7, <1>9, <1>10, <1>11, <1>12, InboundClaims DEF Next, Arrival

\* A run that waits for its counterpart is the one a reply on the thread wakes, unless
\* another run claimed the thread or a wake meant for another came too late: answers,
\* stops and stale claims found by the matcher give back no claim of a run that still
\* waits (claims.py: register, release; runtime.py: _answer; matcher.py: handle_inbound).
THEOREM ClaimIsKept == Spec => []ClaimKept
  <1>1. ASSUME Base, ClaimKept, Base', ClaimsStep
        PROVE  ClaimKept'
    <2>1. DOMAIN runs' = 1..Len(runs') /\ DOMAIN runs = 1..Len(runs)
      BY <1>1 DEF Base, RunsGood
    <2>2. ASSUME NEW r \in 1..Len(runs'), runs'[r].waits # NoThread
          PROVE  Has(claims', displaced', r, runs'[r].waits)
      <3>1. CASE claims'[runs'[r].waits] = r
        BY <3>1 DEF Has
      <3>2. CASE claims'[runs'[r].waits] # r
        <4>1. /\ r \in 1..Len(runs) /\ runs'[r].waits = runs[r].waits
              /\ Has(claims, displaced, r, runs'[r].waits)
                   => Has(claims', displaced', r, runs'[r].waits)
          BY <1>1, <2>2, <3>2 DEF ClaimsStep
        <4>2. Has(claims, displaced, r, runs[r].waits)
          BY <1>1, <2>1, <2>2, <4>1 DEF ClaimKept, Has
        <4> QED
          BY <4>1, <4>2
      <3> QED
        BY <3>1, <3>2
    <2> QED
      BY <2>1, <2>2 DEF ClaimKept, Has
  <1>2. Init => ClaimKept
    BY DEF Init, ClaimKept
  <1>3. Base /\ Base' /\ [Next]_vars => ClaimsStep
    BY ClaimsStepTaken
  <1> QED
    BY <1>1, <1>2, <1>3, AlwaysBase, PTL DEF Spec

---------------------------------------------------------------------------
(* Nobody is left in the queue                                             *)

LEMMA SetOfAppend ==
    ASSUME NEW S, NEW q \in Seq(S), NEW x \in S
    PROVE  ToSet(Append(q, x)) = ToSet(q) \cup {x}
  <1>1. /\ Append(q, x) \in Seq(S) /\ Len(Append(q, x)) = Len(q) + 1 /\ Len(q) \in Nat
        /\ Append(q, x)[Len(q) + 1] = x /\ \A i \in 1..Len(q) : Append(q, x)[i] = q[i]
        /\ DOMAIN q = 1..Len(q)
    BY AppendProperties
  <1> DEFINE p == Append(q, x)
  <1> HIDE DEF p
  <1>2. DOMAIN p = 1..(Len(q) + 1)
    BY <1>1 DEF p
  <1>3. \A i \in DOMAIN p : i \in DOMAIN q \/ i = Len(q) + 1
    BY <1>1, <1>2
  <1>4. DOMAIN q \subseteq DOMAIN p /\ Len(q) + 1 \in DOMAIN p
    BY <1>1, <1>2
  <1>5. ToSet(p) = ToSet(q) \cup {x}
    BY <1>1, <1>3, <1>4 DEF p, ToSet
  <1> QED
    BY <1>5 DEF p

LEMMA SetOfJoin ==
    ASSUME NEW S, NEW q \in Seq(S), NEW s \in Seq(S)
    PROVE  ToSet(q \o s) = ToSet(q) \cup ToSet(s)
  <1> DEFINE p == q \o s
  <1>1. /\ p \in Seq(S) /\ Len(p) = Len(q) + Len(s) /\ Len(q) \in Nat /\ Len(s) \in Nat
        /\ \A i \in 1..(Len(q) + Len(s)) : p[i] = IF i <= Len(q) THEN q[i] ELSE s[i - Len(q)]
        /\ DOMAIN q = 1..Len(q) /\ DOMAIN s = 1..Len(s)
    BY ConcatProperties
  <1> HIDE DEF p
  <1>2. DOMAIN p = 1..(Len(q) + Len(s))
    BY <1>1
  <1>3. \A i \in DOMAIN q : i \in DOMAIN p /\ p[i] = q[i]
    BY <1>1, <1>2
  <1>4. \A i \in DOMAIN s : i + Len(q) \in DOMAIN p /\ p[i + Len(q)] = s[i]
    BY <1>1, <1>2
  <1>5. ASSUME NEW i \in DOMAIN p
        PROVE  p[i] \in ToSet(q) \cup ToSet(s)
    <2>1. CASE i <= Len(q)
      BY <1>1, <1>2, <2>1 DEF ToSet
    <2>2. CASE ~(i <= Len(q))
      <3>1. i - Len(q) \in DOMAIN s /\ p[i] = s[i - Len(q)]
        BY <1>1, <1>2, <2>2
      <3> QED
        BY <3>1 DEF ToSet
    <2> QED
      BY <2>1, <2>2
  <1>6. ToSet(q) \subseteq ToSet(p) /\ ToSet(s) \subseteq ToSet(p)
    BY <1>3, <1>4 DEF ToSet
  <1>7. ToSet(p) \subseteq ToSet(q) \cup ToSet(s)
    <2>1. \A v \in ToSet(p) : \E i \in DOMAIN p : v = p[i]
      BY DEF ToSet
    <2> QED
      BY <1>5, <2>1
  <1>8. ToSet(p) = ToSet(q) \cup ToSet(s)
    BY <1>6, <1>7
  <1> QED
    BY <1>8 DEF p

LEMMA SetOfTail ==
    ASSUME NEW S, NEW q \in Seq(S), q # <<>>
    PROVE  ToSet(q) = {Head(q)} \cup ToSet(Tail(q))
  <1>1. /\ Tail(q) \in Seq(S) /\ Len(Tail(q)) = Len(q) - 1 /\ Len(q) \in Nat \ {0}
        /\ \A i \in 1..Len(Tail(q)) : Tail(q)[i] = q[i + 1]
        /\ Head(q) = q[1] /\ DOMAIN q = 1..Len(q) /\ DOMAIN Tail(q) = 1..(Len(q) - 1)
    OBVIOUS
  <1> DEFINE p == Tail(q)
  <1> HIDE DEF p
  <1>2. \A i \in DOMAIN p : i + 1 \in DOMAIN q /\ p[i] = q[i + 1]
    BY <1>1 DEF p
  <1>3. \A i \in DOMAIN q : i = 1 \/ (i - 1 \in DOMAIN p /\ q[i] = p[i - 1])
    BY <1>1 DEF p
  <1>4. 1 \in DOMAIN q
    BY <1>1
  <1>5. ToSet(q) \subseteq {Head(q)} \cup ToSet(p)
    BY <1>1, <1>3 DEF ToSet
  <1>6. {Head(q)} \cup ToSet(p) \subseteq ToSet(q)
    BY <1>1, <1>2, <1>4 DEF ToSet
  <1> QED
    BY <1>5, <1>6 DEF p

\* Somebody who will look at the queue of a, among the runs R and among the tasks T.
RunWatches(R, a) ==
    \E r \in 1..Len(R) :
        R[r].auto = a /\ (R[r].status \in {"running", "paused"} \/ R[r].pc \in {"deliver", "help"})
TaskWatches(T, a) == \E task \in T : task.kind \in Firing /\ task.auto = a

LEMMA WatchedIs ==
    ASSUME NEW a
    PROVE  /\ Base  => (Watched(a) <=> RunWatches(runs, a) \/ TaskWatches(ToSet(ready), a))
           /\ Base' => (Watched(a)' <=> RunWatches(runs', a) \/ TaskWatches(ToSet(ready'), a))
  <1>1. ASSUME Base
        PROVE  Watched(a) <=> RunWatches(runs, a) \/ TaskWatches(ToSet(ready), a)
    <2>1. DOMAIN runs = 1..Len(runs)
      BY <1>1, DomainOfRuns
    <2>2. TaskWatches(ToSet(ready), a)
            <=> \E i \in DOMAIN ready : ready[i].kind \in Firing /\ ready[i].auto = a
      BY DEF TaskWatches, ToSet
    <2>3. RunWatches(runs, a)
            <=> Active(a) # {} \/ \E r \in DOMAIN runs : runs[r].auto = a /\ runs[r].pc \in {"deliver", "help"}
      BY <2>1 DEF RunWatches, Active
    <2> QED
      BY <2>2, <2>3 DEF Watched, Firing
  <1>2. ASSUME Base'
        PROVE  Watched(a)' <=> RunWatches(runs', a) \/ TaskWatches(ToSet(ready'), a)
    <2>1. DOMAIN runs' = 1..Len(runs')
      BY <1>2 DEF Base, RunsGood
    <2>2. TaskWatches(ToSet(ready'), a)
            <=> \E i \in DOMAIN ready' : ready'[i].kind \in Firing /\ ready'[i].auto = a
      BY DEF TaskWatches, ToSet
    <2>3. RunWatches(runs', a)
            <=> Active(a)' # {} \/ \E r \in DOMAIN runs' : runs'[r].auto = a /\ runs'[r].pc \in {"deliver", "help"}
      BY <2>1 DEF RunWatches, Active
    <2> QED
      BY <2>2, <2>3 DEF Watched, Firing
  <1> QED
    BY <1>1, <1>2

Toggled == "toggle" \in Kinds /\ disturbed["toggle"] > 0

\* As long as nobody moved a switch, a run whose spec says off belongs to an automation
\* that is off, and whoever is queued has somebody who looks at the queue.
SpecsTrue == \A r \in 1..Len(runs) : ~runs[r].spec => ~enabled[runs[r].auto]
Attended  == Toggled \/ (SpecsTrue /\ NobodyStranded)

\* What a step may do to the switches, the specs and the queues.
WatchStep ==
    /\ \A a \in Autos : enabled'[a] => enabled[a]
    /\ \A r \in 1..Len(runs') :
         \/ runs'[r].spec \/ ~enabled'[runs'[r].auto]
         \/ r \in 1..Len(runs) /\ ~runs[r].spec /\ runs'[r].auto = runs[r].auto
    /\ cut \subseteq cut'
    /\ \A a \in Single :
         \/ queue'[a] = <<>> \/ ~enabled'[a] \/ a \in cut'
         \/ RunWatches(runs', a) \/ TaskWatches(ToSet(ready'), a)
         \/ queue[a] # <<>> /\ ~RunWatches(runs, a) /\ ~TaskWatches(ToSet(ready), a)
         \/ \E r \in 1..Len(runs) : runs[r].auto = a /\ ~runs[r].spec

LEMMA AttendedKept ==
    ASSUME Base, Base', Attended, Toggled => Toggled', Toggled' \/ WatchStep
    PROVE  Attended'
  <1> SUFFICES ASSUME ~Toggled', ~Toggled, WatchStep
               PROVE  SpecsTrue' /\ NobodyStranded'
    BY DEF Attended
  <1>1. SpecsTrue /\ NobodyStranded
    BY DEF Attended
  <1>2. SpecsTrue'
    <2> SUFFICES ASSUME NEW r \in 1..Len(runs'), ~runs'[r].spec
                 PROVE  ~enabled'[runs'[r].auto]
      BY DEF SpecsTrue
    <2>1. runs'[r].auto \in Autos
      BY DEF Base, RunsGood, RunGood, RunRec
    <2> QED
      BY <1>1, <2>1 DEF WatchStep, SpecsTrue
  <1>3. ASSUME NEW a \in Single, queue'[a] # <<>>, enabled'[a], a \notin cut'
        PROVE  Watched(a)'
    <2>0. a \in Autos /\ enabled[a] /\ a \notin cut
      BY <1>3, AutosAssumption DEF WatchStep
    <2>1. ~(\E r \in 1..Len(runs) : runs[r].auto = a /\ ~runs[r].spec)
      BY <1>1, <2>0 DEF SpecsTrue
    <2>2. RunWatches(runs', a) \/ TaskWatches(ToSet(ready'), a) \/ (queue[a] # <<>> /\ ~Watched(a))
      BY <1>3, <2>1, WatchedIs DEF WatchStep
    <2>3. ~(queue[a] # <<>> /\ ~Watched(a))
      BY <1>1, <2>0 DEF NobodyStranded, Toggled
    <2> QED
      BY <2>2, <2>3, WatchedIs
  <1> QED
    BY <1>2, <1>3 DEF NobodyStranded

\* Steps that keep everybody who watches, and touch no switch and no queue.
LEMMA WatchersKept ==
    ASSUME Base, Base',
           \A a : RunWatches(runs, a) => RunWatches(runs', a) \/ TaskWatches(ToSet(ready'), a),
           \A a : TaskWatches(ToSet(ready), a)
                    => RunWatches(runs', a) \/ TaskWatches(ToSet(ready'), a),
           \A r \in 1..Len(runs') :
              \/ runs'[r].spec \/ ~enabled'[runs'[r].auto]
              \/ r \in 1..Len(runs) /\ ~runs[r].spec /\ runs'[r].auto = runs[r].auto,
           \A a \in Autos : enabled'[a] => enabled[a],
           UNCHANGED queue, cut \subseteq cut'
    PROVE  WatchStep
  BY DEF WatchStep

LEMMA RunsWatchStill ==
    ASSUME UNCHANGED runs
    PROVE  /\ \A a : RunWatches(runs, a) => RunWatches(runs', a)
           /\ \A r \in 1..Len(runs') :
                 \/ runs'[r].spec \/ ~enabled'[runs'[r].auto]
                 \/ r \in 1..Len(runs) /\ ~runs[r].spec /\ runs'[r].auto = runs[r].auto
  BY DEF RunWatches

\* A new run watches, with the switch as it is now for its spec.
LEMMA NewRunWatches ==
    ASSUME Base, NEW a \in Autos, NEW e \in Events, NEW by \in {"matcher", "task", "caller"},
           runs' = Append(runs, NewRun(a, e, by)), UNCHANGED enabled
    PROVE  /\ \A b : RunWatches(runs, b) => RunWatches(runs', b)
           /\ RunWatches(runs', a)
           /\ \A r \in 1..Len(runs') :
                 \/ runs'[r].spec \/ ~enabled'[runs'[r].auto]
                 \/ r \in 1..Len(runs) /\ ~runs[r].spec /\ runs'[r].auto = runs[r].auto
  <1> DEFINE x == NewRun(a, e, by)
  <1>1. Added(runs, runs', x)
    BY RunStarted
  <1>2. x.auto = a /\ x.status = "running" /\ x.spec = enabled[a]
    BY DEF NewRun
  <1> HIDE DEF x
  <1>3. \A s \in 1..Len(runs) : s \in 1..Len(runs') /\ runs'[s] = runs[s]
    BY <1>1 DEF Added
  <1>4. Len(runs) + 1 \in 1..Len(runs') /\ runs'[Len(runs) + 1] = x
    BY <1>1 DEF Added
  <1>5. \A s \in 1..Len(runs') : s \in 1..Len(runs) \/ s = Len(runs) + 1
    BY <1>1 DEF Added
  <1> QED
    BY <1>2, <1>3, <1>4, <1>5 DEF RunWatches

\* One run is rewritten: whether it watches, and what its spec says.
LEMMA RewrittenWatches ==
    ASSUME Base, Base', NEW r \in 1..Len(runs), NEW x, runs' = [runs EXCEPT ![r] = x],
           x.auto = runs[r].auto, \A a \in Autos : enabled'[a] => enabled[a],
           x.spec \/ ~enabled'[x.auto] \/ ~runs[r].spec
    PROVE  /\ \A a : RunWatches(runs, a) => RunWatches(runs', a) \/ a = x.auto
           /\ x.status \in {"running", "paused"} \/ x.pc \in {"deliver", "help"}
                => RunWatches(runs', x.auto)
           /\ ~(runs[r].status \in {"running", "paused"} \/ runs[r].pc \in {"deliver", "help"})
                => \A a : RunWatches(runs, a) => RunWatches(runs', a)
           /\ \A s \in 1..Len(runs') :
                 \/ runs'[s].spec \/ ~enabled'[runs'[s].auto]
                 \/ s \in 1..Len(runs) /\ ~runs[s].spec /\ runs'[s].auto = runs[s].auto
  <1>1. Wrote(runs, runs', r, x)
    BY Rewritten
  <1>2. \A s \in 1..Len(runs) : s \in 1..Len(runs') /\ (s # r => runs'[s] = runs[s])
    BY <1>1 DEF Wrote
  <1>3. \A s \in 1..Len(runs') : s \in 1..Len(runs)
    BY <1>1 DEF Wrote
  <1>4. \A s \in 1..Len(runs) : runs[s].spec \in BOOLEAN /\ runs[s].auto \in Autos
    BY RunIsGood DEF RunRec
  <1>5. runs'[r] = x /\ r \in 1..Len(runs')
    BY <1>1, <1>2 DEF Wrote
  <1>6. ASSUME NEW a, RunWatches(runs, a), ~RunWatches(runs', a)
        PROVE  a = x.auto /\ (runs[r].status \in {"running", "paused"} \/ runs[r].pc \in {"deliver", "help"})
    <2>1. PICK s \in 1..Len(runs) :
             /\ runs[s].auto = a
             /\ runs[s].status \in {"running", "paused"} \/ runs[s].pc \in {"deliver", "help"}
      BY <1>6 DEF RunWatches
    <2>2. s = r
      BY <1>2, <1>6, <2>1 DEF RunWatches
    <2> QED
      BY <2>1, <2>2
  <1>7. ASSUME NEW s \in 1..Len(runs'), ~runs'[s].spec, enabled'[runs'[s].auto]
        PROVE  s \in 1..Len(runs) /\ ~runs[s].spec /\ runs'[s].auto = runs[s].auto
    BY <1>2, <1>3, <1>4, <1>5, <1>7
  <1>8. x.status \in {"running", "paused"} \/ x.pc \in {"deliver", "help"} => RunWatches(runs', x.auto)
    BY <1>5 DEF RunWatches
  <1> QED
    BY <1>6, <1>7, <1>8

\* A run is rewritten that goes on to watch, or never did.
LEMMA WatcherGoesOn ==
    ASSUME Base, Base', NEW r \in 1..Len(runs), NEW x, runs' = [runs EXCEPT ![r] = x],
           x.auto = runs[r].auto, \A a \in Autos : enabled'[a] => enabled[a],
           x.spec \/ ~enabled'[x.auto] \/ ~runs[r].spec,
           \/ x.status \in {"running", "paused"} \/ x.pc \in {"deliver", "help"}
           \/ ~(runs[r].status \in {"running", "paused"} \/ runs[r].pc \in {"deliver", "help"}),
           \A task \in ToSet(ready) : task.kind \in Firing => task \in ToSet(ready'),
           UNCHANGED <<queue, cut>>
    PROVE  WatchStep
  <1>1. \A a : RunWatches(runs, a) => RunWatches(runs', a)
    BY RewrittenWatches
  <1>2. \A s \in 1..Len(runs') :
           \/ runs'[s].spec \/ ~enabled'[runs'[s].auto]
           \/ s \in 1..Len(runs) /\ ~runs[s].spec /\ runs'[s].auto = runs[s].auto
    BY RewrittenWatches
  <1>3. \A a : TaskWatches(ToSet(ready), a) => TaskWatches(ToSet(ready'), a)
    BY DEF TaskWatches
  <1> QED
    BY <1>1, <1>2, <1>3 DEF WatchStep

LEMMA DrainServes ==
    ASSUME Base, NEW a \in Autos, NEW wanted, NEW chained \in Seq(TaskRec), Drain(a, wanted, chained)
    PROVE  /\ ToSet(ready) \subseteq ToSet(ready')
           /\ \A b \in Autos : b # a => queue'[b] = queue[b]
           /\ ~wanted => queue' = queue
           /\ wanted /\ a \in Single /\ queue'[a] # <<>> => TaskWatches(ToSet(ready'), a)
  <1>1. ready \in Seq(TaskRec) /\ queue \in [Autos -> Seq(Events)]
    BY DEF Base, TasksGood, RestTyped
  <1>2. CASE ~(wanted /\ a \in Single)
    <2>1. ready' = ready \o chained /\ UNCHANGED queue
      BY <1>2 DEF Drain
    <2>2. ToSet(ready) \subseteq ToSet(ready \o chained)
      BY <1>1, SetOfJoin
    <2> QED
      BY <1>2, <2>1, <2>2
  <1>3. CASE wanted /\ a \in Single
    <2>1. PICK k \in 0..Len(queue[a]) :
             /\ queue' = [queue EXCEPT ![a] = SubSeq(@, k + 2, Len(@))]
             /\ ready' = (IF k < Len(queue[a])
                          THEN Append(ready, Task("drain", a, queue[a][k + 1], NoRun))
                          ELSE ready) \o chained
      BY <1>3 DEF Drain
    <2>2. queue[a] \in Seq(Events) /\ Len(queue[a]) \in Nat /\ k \in Nat
      BY <1>1, <2>1
    <2>3. \A b \in Autos : b # a => queue'[b] = queue[b]
      BY <1>1, <2>1
    <2>4. CASE k < Len(queue[a])
      <3> DEFINE task == Task("drain", a, queue[a][k + 1], NoRun)
      <3>1. queue[a][k + 1] \in Events /\ "drain" \in Firing /\ NoRun \in Nat
        BY <2>2, <2>4 DEF Firing, NoRun
      <3>2. task \in TaskRec /\ task.kind \in Firing /\ task.auto = a
        BY <3>1 DEF Task, TaskRec
      <3> HIDE DEF task
      <3>3. Append(ready, task) \in Seq(TaskRec) /\ ToSet(Append(ready, task)) = ToSet(ready) \cup {task}
        BY <1>1, <3>2, SetOfAppend
      <3>4. ToSet(Append(ready, task) \o chained) = ToSet(Append(ready, task)) \cup ToSet(chained)
        <4> DEFINE q == Append(ready, task)
        <4>1. q \in Seq(TaskRec)
          BY <3>3
        <4> HIDE DEF q
        <4>2. ToSet(q \o chained) = ToSet(q) \cup ToSet(chained)
          BY <4>1, SetOfJoin
        <4> QED
          BY <4>2 DEF q
      <3>5. ready' = Append(ready, task) \o chained
        BY <2>1, <2>4 DEF task
      <3>6. ToSet(ready) \subseteq ToSet(ready') /\ task \in ToSet(ready')
        BY <3>3, <3>4, <3>5
      <3> QED
        BY <1>3, <2>3, <3>2, <3>6 DEF TaskWatches
    <2>5. CASE ~(k < Len(queue[a]))
      <3>1. ready' = ready \o chained
        BY <2>1, <2>5
      <3>2. ToSet(ready) \subseteq ToSet(ready \o chained)
        BY <1>1, SetOfJoin
      <3>3. SubSeq(queue[a], k + 2, Len(queue[a])) = <<>>
        <4>1. /\ SubSeq(queue[a], k + 2, Len(queue[a])) \in Seq(Events)
              /\ Len(SubSeq(queue[a], k + 2, Len(queue[a]))) = 0
          BY <2>2, <2>5
        <4> QED
          BY <4>1, EmptySeq
      <3>4. queue'[a] = <<>>
        BY <1>1, <2>1, <3>3
      <3> QED
        BY <1>3, <2>3, <3>1, <3>2, <3>4
    <2> QED
      BY <2>4, <2>5
  <1> QED
    BY <1>2, <1>3

\* A run is rewritten that ends, and the queue gets its turn.
LEMMA WatcherDrains ==
    ASSUME Base, Base', NEW r \in 1..Len(runs), NEW x, runs' = [runs EXCEPT ![r] = x],
           x.auto = runs[r].auto, \A a \in Autos : enabled'[a] => enabled[a],
           x.spec \/ ~runs[r].spec,
           NEW wanted, NEW chained \in Seq(TaskRec), Drain(runs[r].auto, wanted, chained),
           wanted \/ ~enabled'[runs[r].auto] \/ ~runs[r].spec \/ runs[r].auto \in cut',
           cut \subseteq cut'
    PROVE  WatchStep
  <1> DEFINE a == runs[r].auto
  <1>0. a \in Autos
    BY RunIsGood DEF RunRec
  <1>1. \A b : RunWatches(runs, b) => RunWatches(runs', b) \/ b = a
    BY RewrittenWatches
  <1>2. \A s \in 1..Len(runs') :
           \/ runs'[s].spec \/ ~enabled'[runs'[s].auto]
           \/ s \in 1..Len(runs) /\ ~runs[s].spec /\ runs'[s].auto = runs[s].auto
    BY RewrittenWatches
  <1> HIDE DEF a
  <1>3. /\ ToSet(ready) \subseteq ToSet(ready')
        /\ \A b \in Autos : b # a => queue'[b] = queue[b]
        /\ wanted /\ a \in Single /\ queue'[a] # <<>> => TaskWatches(ToSet(ready'), a)
    BY <1>0, DrainServes DEF a
  <1>4. \A b : TaskWatches(ToSet(ready), b) => TaskWatches(ToSet(ready'), b)
    BY <1>3 DEF TaskWatches
  <1>5. ASSUME NEW b \in Single
        PROVE  \/ queue'[b] = <<>> \/ ~enabled'[b] \/ b \in cut'
               \/ RunWatches(runs', b) \/ TaskWatches(ToSet(ready'), b)
               \/ queue[b] # <<>> /\ ~RunWatches(runs, b) /\ ~TaskWatches(ToSet(ready), b)
               \/ \E s \in 1..Len(runs) : runs[s].auto = b /\ ~runs[s].spec
    <2>1. CASE b # a
      <3>1. b \in Autos
        BY AutosAssumption
      <3> QED
        BY <1>1, <1>3, <1>4, <2>1, <3>1
    <2>2. CASE b = a
      <3>1. wanted \/ ~enabled'[b] \/ (runs[r].auto = b /\ ~runs[r].spec) \/ b \in cut'
        BY <2>2 DEF a
      <3> QED
        BY <1>3, <2>2, <3>1
    <2> QED
      BY <2>1, <2>2
  <1> QED
    BY <1>2, <1>5 DEF WatchStep

LEMMA InboundWatch ==
    ASSUME Base, Base', NEW e \in Events, Inbound(e)
    PROVE  WatchStep
  <1> DEFINE a == AutoOf[e]
  <1>1. ready \in Seq(TaskRec) /\ ready' \in Seq(TaskRec) /\ UNCHANGED <<runs, enabled>> /\ a \in Autos
    BY EventAssumption DEF Base, TasksGood, Inbound
  <1>2. ToSet(ready) \subseteq ToSet(ready')
    <2>1. ready' = ready \/ \E task : ready' = Append(ready, task)
      BY DEF Inbound, DispatchMatch
    <2>2. ASSUME NEW task, ready' = Append(ready, task) PROVE ToSet(ready) \subseteq ToSet(ready')
      <3>1. task \in TaskRec
        <4>1. Append(ready, task) \in Seq(TaskRec)
          BY <1>1, <2>2
        <4>2. Append(ready, task)[Len(ready) + 1] = task /\ Len(Append(ready, task)) = Len(ready) + 1
              /\ Len(ready) \in Nat
          BY <1>1
        <4>3. Len(ready) + 1 \in 1..Len(Append(ready, task))
          BY <4>2
        <4>4. Append(ready, task)[Len(ready) + 1] \in TaskRec
          BY <4>1, <4>3, ElementOfSeq
        <4> QED
          BY <4>2, <4>4
      <3> QED
        BY <1>1, <2>2, <3>1, SetOfAppend
    <2> QED
      BY <2>1, <2>2
  <1>3. \A b : TaskWatches(ToSet(ready), b) => TaskWatches(ToSet(ready'), b)
    BY <1>2 DEF TaskWatches
  <1>4. /\ \A b : RunWatches(runs, b) => RunWatches(runs', b)
        /\ \A r \in 1..Len(runs') :
              \/ runs'[r].spec \/ ~enabled'[runs'[r].auto]
              \/ r \in 1..Len(runs) /\ ~runs[r].spec /\ runs'[r].auto = runs[r].auto
    BY <1>1, RunsWatchStill
  <1>5. CASE UNCHANGED <<queue, cut>>
    BY <1>1, <1>3, <1>4, <1>5 DEF WatchStep
  <1>6. CASE /\ queue' = [queue EXCEPT ![a] = Append(@, e)]
             /\ cut' = IF Watched(a) THEN cut ELSE cut \cup {a}
    <2>1. \A b \in Autos : b # a => queue'[b] = queue[b]
      BY <1>1, <1>6 DEF Base, RestTyped
    <2>2. cut \subseteq cut' /\ (a \in cut' \/ Watched(a))
      BY <1>6
    <2>3. a \in cut' \/ RunWatches(runs', a) \/ TaskWatches(ToSet(ready'), a)
      BY <1>3, <1>4, <2>2, WatchedIs
    <2>4. Single \subseteq Autos
      BY AutosAssumption
    <2> HIDE DEF a
    <2> QED
      BY <1>1, <1>3, <1>4, <2>1, <2>2, <2>3, <2>4 DEF WatchStep
  <1> QED
    BY <1>5, <1>6 DEF Inbound, DispatchMatch

LEMMA CallerWatch ==
    ASSUME Base, Base', NEW e \in Events, CronTick(e) \/ RunNow(e)
    PROVE  WatchStep
  <1>1. /\ AutoOf[e] \in Autos /\ runs' = Append(runs, NewRun(AutoOf[e], e, "caller"))
        /\ UNCHANGED <<enabled, queue, ready, cut>>
    BY EventAssumption DEF CronTick, RunNow, memory
  <1>2. /\ \A b : RunWatches(runs, b) => RunWatches(runs', b)
        /\ \A r \in 1..Len(runs') :
              \/ runs'[r].spec \/ ~enabled'[runs'[r].auto]
              \/ r \in 1..Len(runs) /\ ~runs[r].spec /\ runs'[r].auto = runs[r].auto
    BY <1>1, NewRunWatches
  <1> QED
    BY <1>1, <1>2 DEF WatchStep

LEMMA FireTaskWatch ==
    ASSUME Base, Base', ready # <<>>, FireTask(Head(ready))
    PROVE  WatchStep
  <1> DEFINE task == Head(ready)
             a == task.auto
  <1>1. a \in Autos /\ task.ev \in Events /\ ready \in Seq(TaskRec)
    BY TasksShortened DEF Base, TasksGood, TaskRec
  <1>2. ready' = Tail(ready) /\ UNCHANGED <<enabled, cut>>
    BY DEF FireTask
  <1>3. ToSet(ready) = {task} \cup ToSet(ready')
    BY <1>1, <1>2, SetOfTail
  <1> HIDE DEF task
  <1>4. \A b : TaskWatches(ToSet(ready), b) => TaskWatches(ToSet(ready'), b) \/ b = a
    BY <1>3 DEF TaskWatches
  <1>5. CASE Busy(a)
    <2>1. UNCHANGED runs /\ \A b \in Autos : b # a => queue'[b] = queue[b]
      BY <1>1, <1>5 DEF task, FireTask, Base, RestTyped
    <2>2. RunWatches(runs', a)
      <3>1. Active(a) # {} /\ DOMAIN runs = 1..Len(runs)
        BY <1>5, DomainOfRuns DEF Busy
      <3> QED
        BY <2>1, <3>1 DEF Active, RunWatches
    <2>3. \A r \in 1..Len(runs') :
             \/ runs'[r].spec \/ ~enabled'[runs'[r].auto]
             \/ r \in 1..Len(runs) /\ ~runs[r].spec /\ runs'[r].auto = runs[r].auto
      BY <2>1, RunsWatchStill
    <2>4. \A b : RunWatches(runs, b) => RunWatches(runs', b)
      BY <2>1, RunsWatchStill
    <2>5. Single \subseteq Autos
      BY AutosAssumption
    <2> HIDE DEF a
    <2> QED
      BY <1>2, <1>4, <2>1, <2>2, <2>3, <2>4, <2>5 DEF WatchStep
  <1>6. CASE ~Busy(a)
    <2>1. PICK by \in {"matcher", "task"} : runs' = Append(runs, NewRun(a, task.ev, by))
      BY <1>6 DEF task, FireTask
    <2>2. UNCHANGED queue
      BY <1>6 DEF task, FireTask
    <2>3. /\ \A b : RunWatches(runs, b) => RunWatches(runs', b)
          /\ RunWatches(runs', a)
          /\ \A r \in 1..Len(runs') :
                \/ runs'[r].spec \/ ~enabled'[runs'[r].auto]
                \/ r \in 1..Len(runs) /\ ~runs[r].spec /\ runs'[r].auto = runs[r].auto
      BY <1>1, <1>2, <2>1, NewRunWatches
    <2> HIDE DEF a
    <2> QED
      BY <1>2, <1>4, <2>2, <2>3 DEF WatchStep
  <1> QED
    BY <1>5, <1>6

LEMMA PrologueWatch ==
    ASSUME Base, Base', NEW r \in 1..Len(runs), NEW rest \in Seq(TaskRec), Prologue(r, rest),
           UNCHANGED <<enabled, queue, cut>>,
           \A task \in ToSet(ready) : task.kind \in Firing => task \in ToSet(rest)
    PROVE  WatchStep
  <1> DEFINE x == [runs[r] EXCEPT !.status = "running", !.mine = TRUE, !.waits = NoThread,
                                  !.spec = enabled[runs[r].auto], !.guarded = TRUE]
             task == Task("resume", runs[r].auto, runs[r].ev, r)
  <1>1. runs[r] \in RunRec
    BY RunIsGood
  <1>2. runs' = [runs EXCEPT ![r] = x] /\ ready' = Append(rest, task)
    BY DomainOfRuns DEF Prologue
  <1>3. x.auto = runs[r].auto /\ x.status = "running" /\ x.spec = enabled[runs[r].auto]
    BY <1>1 DEF RunRec
  <1>4. task \in TaskRec
    BY <1>1, DomainOfRuns DEF Task, TaskRec, RunRec
  <1> HIDE DEF x, task
  <1>5. ToSet(rest) \subseteq ToSet(ready')
    BY <1>2, <1>4, SetOfAppend
  <1>6. \A t \in ToSet(ready) : t.kind \in Firing => t \in ToSet(ready')
    BY <1>5
  <1>7. x.spec \/ ~enabled'[x.auto]
    BY <1>3
  <1> QED
    BY <1>2, <1>3, <1>6, <1>7, WatcherGoesOn

LEMMA FiringInTail ==
    ASSUME Base, ready # <<>>, Head(ready).kind \in {"answer", "resume"}
    PROVE  /\ Tail(ready) \in Seq(TaskRec)
           /\ \A task \in ToSet(ready) : task.kind \in Firing => task \in ToSet(Tail(ready))
  <1>1. ready \in Seq(TaskRec) /\ Tail(ready) \in Seq(TaskRec)
    BY TasksShortened DEF Base, TasksGood
  <1>2. ToSet(ready) = {Head(ready)} \cup ToSet(Tail(ready))
    BY <1>1, SetOfTail
  <1>3. Head(ready).kind \notin Firing
    BY DEF Firing
  <1> QED
    BY <1>1, <1>2, <1>3

\* Steps that touch no run, no switch and no queue, and start no task that fires.
LEMMA NothingToWatch ==
    ASSUME Base, Base', UNCHANGED <<runs, enabled, queue>>, cut \subseteq cut',
           \A task \in ToSet(ready) : task.kind \in Firing => task \in ToSet(ready')
    PROVE  WatchStep
  <1>1. \A a : TaskWatches(ToSet(ready), a) => TaskWatches(ToSet(ready'), a)
    BY DEF TaskWatches
  <1>2. \A a : RunWatches(runs, a) => RunWatches(runs', a)
    BY RunsWatchStill
  <1> QED
    BY <1>1, <1>2, RunsWatchStill DEF WatchStep

LEMMA NextTaskWatch ==
    ASSUME Base, Base', NextTask
    PROVE  WatchStep
  <1> DEFINE task == Head(ready)
             r == task.run
  <1>1. CASE FireTask(task)
    BY <1>1, FireTaskWatch DEF NextTask
  <1>2. CASE AnswerTask(task)
    <2>1. r \in 1..Len(runs) /\ task.kind = "answer" /\ ready # <<>>
      BY <1>2, TasksShortened DEF NextTask, Base, AnswerTask, TaskGood
    <2>2. /\ Tail(ready) \in Seq(TaskRec)
          /\ \A t \in ToSet(ready) : t.kind \in Firing => t \in ToSet(Tail(ready))
      BY <2>1, FiringInTail
    <2>3. UNCHANGED <<enabled, queue, cut>>
      BY <1>2 DEF AnswerTask
    <2>4. CASE Prologue(r, Tail(ready))
      BY <2>1, <2>2, <2>3, <2>4, PrologueWatch
    <2>5. CASE ~Prologue(r, Tail(ready))
      <3>1. ready' = Tail(ready) /\ UNCHANGED runs
        BY <1>2, <2>5 DEF AnswerTask
      <3> QED
        BY <2>2, <2>3, <3>1, NothingToWatch
    <2> QED
      BY <2>4, <2>5
  <1>3. CASE ResumeTask(task)
    <2> DEFINE x == [runs[r] EXCEPT !.pc = "exec"]
    <2>1. r \in 1..Len(runs) /\ task.kind = "resume" /\ ready # <<>> /\ runs[r].status = "running"
      BY <1>3, TasksShortened DEF NextTask, Base, ResumeTask, TaskGood, Resumable
    <2>2. \A t \in ToSet(ready) : t.kind \in Firing => t \in ToSet(Tail(ready))
      BY <2>1, FiringInTail
    <2>3. runs[r] \in RunRec
      BY <2>1, RunIsGood
    <2>4. ready' = Tail(ready) /\ UNCHANGED <<enabled, queue, cut>> /\ runs' = [runs EXCEPT ![r] = x]
      BY <1>3, <2>1 DEF ResumeTask, history
    <2>5. x.auto = runs[r].auto /\ x.status = "running" /\ x.spec = runs[r].spec /\ x.spec \in BOOLEAN
      BY <2>1, <2>3 DEF RunRec
    <2> HIDE DEF x
    <2>6. x.spec \/ ~runs[r].spec
      BY <2>5
    <2> QED
      BY <2>1, <2>2, <2>4, <2>5, <2>6, WatcherGoesOn
  <1> QED
    BY <1>1, <1>2, <1>3 DEF NextTask

\* A run that goes on, or is settled and about to be wrapped up.
LEMMA RunWatch ==
    ASSUME Base, Base', NEW r,
           \/ WorkStarts(r) \/ LeftRunning(r) \/ StopRunning(r)
           \/ \E s \in {"achieved", "completed", "failed", "rejected"} : Finish(r, s)
           \/ \E k \in {"counterpart", "help"} : Park(r, k) \/ Said(r, k)
    PROVE  WatchStep
  <1>1. r \in 1..Len(runs) /\ runs[r] \in RunRec /\ RunGood(runs[r])
    BY DomainOfRuns, RunIsGood
       DEF WorkStarts, LeftRunning, StopRunning, Finish, Park, Said, Running, At
  <1>2. UNCHANGED <<enabled, queue, ready, cut>>
    BY DEF WorkStarts, LeftRunning, StopRunning, Finish, Park, Said, history, memory
  <1>3. ASSUME NEW x, runs' = [runs EXCEPT ![r] = x], x.auto = runs[r].auto, x.spec = runs[r].spec,
               \/ x.status \in {"running", "paused"} \/ x.pc \in {"deliver", "help"}
               \/ x.status = runs[r].status /\ x.pc = runs[r].pc
        PROVE  WatchStep
    <2>1. runs[r].spec \in BOOLEAN
      BY <1>1 DEF RunRec
    <2>2. x.spec \/ ~runs[r].spec
      BY <1>3, <2>1
    <2>3. \/ x.status \in {"running", "paused"} \/ x.pc \in {"deliver", "help"}
          \/ ~(runs[r].status \in {"running", "paused"} \/ runs[r].pc \in {"deliver", "help"})
      BY <1>3
    <2> QED
      BY <1>1, <1>2, <1>3, <2>2, <2>3, WatcherGoesOn
  <1>4. CASE WorkStarts(r)
    <2> DEFINE x == [runs[r] EXCEPT !.work = TRUE]
    <2>1. /\ runs' = [runs EXCEPT ![r] = x] /\ x.auto = runs[r].auto /\ x.spec = runs[r].spec
          /\ x.status = runs[r].status /\ x.pc = runs[r].pc
      BY <1>1, <1>4 DEF WorkStarts, RunRec
    <2> HIDE DEF x
    <2> QED
      BY <1>3, <2>1
  <1>5. CASE LeftRunning(r)
    <2> DEFINE x == [runs[r] EXCEPT !.pc = "none"]
    <2>1. /\ runs' = [runs EXCEPT ![r] = x] /\ x.auto = runs[r].auto /\ x.spec = runs[r].spec
          /\ x.status = "running"
      BY <1>1, <1>5 DEF LeftRunning, RunRec, RunGood, Running, At
    <2> HIDE DEF x
    <2> QED
      BY <1>3, <2>1
  <1>6. CASE StopRunning(r)
    <2> DEFINE x == [runs[r] EXCEPT !.stop = TRUE, !.cancel = TRUE]
    <2>1. /\ runs' = [runs EXCEPT ![r] = x] /\ x.auto = runs[r].auto /\ x.spec = runs[r].spec
          /\ x.status = runs[r].status /\ x.pc = runs[r].pc
      BY <1>1, <1>6 DEF StopRunning, RunRec
    <2> HIDE DEF x
    <2> QED
      BY <1>3, <2>1
  <1>7. ASSUME NEW s \in {"achieved", "completed", "failed", "rejected"}, Finish(r, s)
        PROVE  WatchStep
    <2> DEFINE x == [runs[r] EXCEPT !.status = s, !.cancel = FALSE, !.pc = "deliver"]
    <2>1. runs' = [runs EXCEPT ![r] = x]
      BY <1>7, DomainOfRuns DEF Finish, Running, At
    <2>2. x.auto = runs[r].auto /\ x.spec = runs[r].spec /\ x.pc = "deliver"
      BY <1>1 DEF RunRec
    <2> HIDE DEF x
    <2> QED
      BY <1>3, <2>1, <2>2
  <1>8. ASSUME NEW k \in {"counterpart", "help"}, Park(r, k)
        PROVE  WatchStep
    <2> DEFINE x == [runs[r] EXCEPT !.status = "paused", !.pc = "none", !.cancel = FALSE,
                            !.says = @ \cup {k}, !.parks = @ + 1, !.guarded = FALSE,
                            !.by = IF @ = "matcher" THEN "notice" ELSE @,
                            !.waits = IF k = "counterpart" THEN OwnThread(r) ELSE NoThread]
    <2>1. runs' = [runs EXCEPT ![r] = x]
      BY <1>8, DomainOfRuns DEF Park, Running, At
    <2>2. x.auto = runs[r].auto /\ x.spec = runs[r].spec /\ x.status = "paused"
      BY <1>1 DEF RunRec
    <2> HIDE DEF x
    <2> QED
      BY <1>3, <2>1, <2>2
  <1>9. ASSUME NEW k \in {"counterpart", "help"}, Said(r, k)
        PROVE  WatchStep
    <2> DEFINE x == [runs[r] EXCEPT !.says = @ \ {k}, !.by = IF @ = "notice" THEN "task" ELSE @]
    <2>1. runs' = [runs EXCEPT ![r] = x]
      BY <1>9, DomainOfRuns DEF Said
    <2>2. x.auto = runs[r].auto /\ x.spec = runs[r].spec /\ x.status = runs[r].status /\ x.pc = runs[r].pc
      BY <1>1 DEF RunRec
    <2> HIDE DEF x
    <2> QED
      BY <1>3, <2>1, <2>2
  <1>10. CASE \E s \in {"achieved", "completed", "failed", "rejected"} : Finish(r, s)
    BY <1>7, <1>10
  <1>11. CASE \E k \in {"counterpart", "help"} : Park(r, k) \/ Said(r, k)
    BY <1>8, <1>9, <1>11
  <1> QED
    BY <1>4, <1>5, <1>6, <1>10, <1>11

LEMMA WrapWatch ==
    ASSUME Base, Base', NEW r \in 1..Len(runs), NEW off, Wrap(r, off),
           \A a \in Autos : enabled'[a] => enabled[a],
           off => ~enabled'[runs[r].auto]
    PROVE  WatchStep
  <1> DEFINE x == Over(runs[r])
             wanted == ~off /\ runs[r].spec
  <1>1. runs[r] \in RunRec
    BY RunIsGood
  <1>2. x.auto = runs[r].auto /\ x.spec = TRUE
    BY <1>1, OverGood
  <1>4. Chained(r) \in Seq(TaskRec)
    BY ChainedGood
  <1>5. wanted \/ ~enabled'[runs[r].auto] \/ ~runs[r].spec
    OBVIOUS
  <1>3. runs' = [runs EXCEPT ![r] = x]
    BY DEF Wrap
  <1>30. Housekeeping(runs[r].auto, wanted, Chained(r))
    BY DEF Wrap
  <1> HIDE DEF x, wanted
  <1>31. KeptUp(runs[r].auto, wanted, Chained(r))
    BY <1>30, HousekeepingDrains
  <1>6. PICK w \in {wanted, FALSE} :
          /\ Drain(runs[r].auto, w, Chained(r)) /\ cut \subseteq cut'
          /\ w = wanted \/ runs[r].auto \in cut'
    BY <1>31 DEF KeptUp
  <1>7. w \/ ~enabled'[runs[r].auto] \/ ~runs[r].spec \/ runs[r].auto \in cut'
    BY <1>5, <1>6
  <1> QED
    BY <1>2, <1>3, <1>4, <1>6, <1>7, WatcherDrains

LEMMA EndWatch ==
    ASSUME Base, Base', NEW r, Delivered(r) \/ Escalated(r) \/ Cancelled(r) \/ StopPaused(r)
    PROVE  WatchStep
  <1>1. r \in 1..Len(runs) /\ runs[r] \in RunRec /\ RunGood(runs[r])
    BY DomainOfRuns, RunIsGood DEF Delivered, Escalated, Cancelled, StopPaused, Running, At
  <1>2. runs[r].auto \in Autos /\ enabled \in [Autos -> BOOLEAN] /\ runs[r].spec \in BOOLEAN
    BY <1>1 DEF RunRec, Base, RestTyped
  <1>3. <<>> \in Seq(TaskRec)
    OBVIOUS
  <1>4. CASE Delivered(r)
    <2>1. CASE Stuck(r)
      <3> DEFINE x == [runs[r] EXCEPT !.pc = "help"]
      <3>1. /\ runs' = [runs EXCEPT ![r] = x] /\ x.auto = runs[r].auto /\ x.spec = runs[r].spec
            /\ x.pc = "help" /\ UNCHANGED <<enabled, queue, ready, cut>>
        BY <1>1, <1>4, <2>1 DEF Delivered, RunRec, memory, history
      <3> HIDE DEF x
      <3>2. x.spec \/ ~runs[r].spec
        BY <1>2, <3>1
      <3> QED
        BY <1>1, <3>1, <3>2, WatcherGoesOn
    <2>2. CASE ~Stuck(r)
      <3>1. /\ \A a \in Autos : enabled'[a] => enabled[a]
            /\ runs[r].status = "achieved" => ~enabled'[runs[r].auto]
        BY <1>2, <1>4, <2>2 DEF Delivered
      <3>2. Wrap(r, runs[r].status = "achieved")
        BY <1>4, <2>2 DEF Delivered
      <3> QED
        BY <1>1, <3>1, <3>2, WrapWatch
    <2> QED
      BY <2>1, <2>2
  <1>5. CASE Escalated(r)
    <2>1. /\ \A a \in Autos : enabled'[a] => enabled[a]
          /\ OnStuck = "escalate_pause" => ~enabled'[runs[r].auto]
      BY <1>2, <1>5 DEF Escalated
    <2>2. Wrap(r, OnStuck = "escalate_pause")
      BY <1>5 DEF Escalated
    <2> QED
      BY <1>1, <2>1, <2>2, WrapWatch
  <1>6. CASE Cancelled(r)
    <2> DEFINE y == Over(runs[r])
               x == [y EXCEPT !.status = "interrupted"]
    <2>1. y \in RunRec /\ y.auto = runs[r].auto /\ y.spec = TRUE
      BY <1>1, OverGood
    <2>2. runs' = [runs EXCEPT ![r] = x] /\ UNCHANGED enabled
      BY <1>6 DEF Cancelled
    <2> HIDE DEF y
    <2>3. x.auto = runs[r].auto /\ x.spec
      BY <2>1 DEF RunRec
    <2> HIDE DEF x
    <2>4. Housekeeping(runs[r].auto, runs[r].spec, <<>>)
      BY <1>6, Zenon DEF Cancelled
    <2>5. KeptUp(runs[r].auto, runs[r].spec, <<>>)
      BY <2>4, HousekeepingDrains
    <2>6. PICK w \in {runs[r].spec, FALSE} :
            /\ Drain(runs[r].auto, w, <<>>) /\ cut \subseteq cut'
            /\ w = runs[r].spec \/ runs[r].auto \in cut'
      BY <2>5 DEF KeptUp
    <2>7. w \/ ~enabled'[runs[r].auto] \/ ~runs[r].spec \/ runs[r].auto \in cut'
      BY <2>6
    <2> QED
      BY <1>1, <1>3, <2>2, <2>3, <2>6, <2>7, WatcherDrains
  <1>7. CASE StopPaused(r)
    <2> DEFINE x == [runs[r] EXCEPT !.status = "interrupted", !.stop = TRUE, !.waits = NoThread]
    <2>1. /\ runs' = [runs EXCEPT ![r] = x] /\ Drain(runs[r].auto, enabled[runs[r].auto], <<>>)
          /\ UNCHANGED <<enabled, cut>> /\ x.auto = runs[r].auto /\ x.spec = runs[r].spec
      BY <1>1, <1>7 DEF StopPaused, RunRec
    <2> HIDE DEF x
    <2>2. x.spec \/ ~runs[r].spec
      BY <1>2, <2>1
    <2>3. enabled[runs[r].auto] \/ ~enabled'[runs[r].auto]
      BY <2>1
    <2> QED
      BY <1>1, <1>3, <2>1, <2>2, <2>3, WatcherDrains
  <1> QED
    BY <1>4, <1>5, <1>6, <1>7

\* A run that breaks off leaves its queue without a run to come, and says so.
LEMMA BreaksWatch ==
    ASSUME Base, Base', NEW r, Breaks(r)
    PROVE  WatchStep
  <1> DEFINE s == IF runs[r].guarded THEN "failed" ELSE runs[r].status
             y == Over(runs[r])
             x == [y EXCEPT !.status = s]
  <1>1. r \in 1..Len(runs) /\ runs[r] \in RunRec
    BY DomainOfRuns, RunIsGood DEF Breaks
  <1>2. /\ runs' = [runs EXCEPT ![r] = x] /\ cut' = cut \cup {runs[r].auto}
        /\ UNCHANGED <<enabled, queue, ready>>
    BY <1>1 DEF Breaks
  <1>3. y \in RunRec /\ y.auto = runs[r].auto /\ y.spec = TRUE
    BY <1>1, OverGood
  <1> HIDE DEF y, s
  <1>4. x.auto = runs[r].auto /\ x.spec
    BY <1>3 DEF RunRec
  <1> HIDE DEF x
  <1>5. /\ \A a : RunWatches(runs, a) => RunWatches(runs', a) \/ a = x.auto
        /\ \A t \in 1..Len(runs') :
              \/ runs'[t].spec \/ ~enabled'[runs'[t].auto]
              \/ t \in 1..Len(runs) /\ ~runs[t].spec /\ runs'[t].auto = runs[t].auto
    BY <1>1, <1>2, <1>4, RewrittenWatches
  <1> QED
    BY <1>2, <1>4, <1>5 DEF WatchStep

LEMMA SweepWatch ==
    ASSUME Base, Base', Sweep
    PROVE  WatchStep
  <1>1. CASE SweepStarts
    BY <1>1, NothingToWatch DEF SweepStarts, history
  <1>2. CASE SweepEnds
    <2>1. ready' = ready \o Relaunches /\ UNCHANGED <<runs, enabled, queue, cut>>
      BY <1>2 DEF SweepEnds, Relaunches, history
    <2>2. ready \in Seq(TaskRec) /\ Relaunches \in Seq(TaskRec)
      BY RelaunchesGood DEF Base, TasksGood
    <2>3. ToSet(ready) \subseteq ToSet(ready')
      BY <2>1, <2>2, SetOfJoin
    <2> QED
      BY <2>1, <2>3, NothingToWatch
  <1>3. ASSUME NEW orphan \in sweep.todo, SweepOne(orphan)
        PROVE  WatchStep
    <2> DEFINE r == orphan[1]
               x == [runs[r] EXCEPT !.status = "interrupted", !.pc = "deliver",
                                    !.spec = enabled[runs[r].auto]]
    <2>1. r \in 1..Len(runs) /\ runs[r] \in RunRec
      BY RunIsGood DEF Base, SweepGood
    <2>2. /\ runs' = [runs EXCEPT ![r] = x] /\ x.auto = runs[r].auto /\ x.pc = "deliver"
          /\ x.spec = enabled[runs[r].auto] /\ UNCHANGED <<enabled, queue, ready, cut>>
      BY <1>3, <2>1 DEF SweepOne, RunRec
    <2> HIDE DEF x
    <2>3. x.spec \/ ~enabled'[x.auto]
      BY <2>2
    <2> QED
      BY <2>1, <2>2, <2>3, WatcherGoesOn
  <1> QED
    BY <1>1, <1>2, <1>3 DEF Sweep

\* A death cuts off the queues whose next fire, or whose ending run, was in memory.
LEMMA RestartWatch ==
    ASSUME Base, Base', Restart
    PROVE  WatchStep
  <1>1. /\ Len(runs') = Len(runs) /\ Len(runs) \in Nat
        /\ \A r \in 1..Len(runs) : runs'[r] = Idle(runs[r])
    BY RestartedRuns DEF Restart
  <1>2. \A r \in 1..Len(runs) :
           runs'[r].auto = runs[r].auto /\ runs'[r].status = runs[r].status /\ runs'[r].spec = runs[r].spec
    BY <1>1, RunIsGood, IdleGood
  <1> DEFINE fires == {task \in ToSet(ready) : task.kind \in Firing}
             ending == {r \in DOMAIN runs : runs[r].pc \in {"deliver", "help"}}
  <1>3. /\ cut' = cut \cup {task.auto : task \in fires} \cup {runs[r].auto : r \in ending}
        /\ UNCHANGED <<enabled, queue>>
    BY DEF Restart
  <1>4. ASSUME NEW a, TaskWatches(ToSet(ready), a) PROVE a \in cut'
    BY <1>3, <1>4 DEF TaskWatches
  <1>5. ASSUME NEW a, RunWatches(runs, a) PROVE RunWatches(runs', a) \/ a \in cut'
    <2>1. PICK r \in 1..Len(runs) :
             /\ runs[r].auto = a
             /\ runs[r].status \in {"running", "paused"} \/ runs[r].pc \in {"deliver", "help"}
      BY <1>5 DEF RunWatches
    <2>2. CASE runs[r].status \in {"running", "paused"}
      BY <1>1, <1>2, <2>1, <2>2 DEF RunWatches
    <2>3. CASE runs[r].pc \in {"deliver", "help"}
      <3>1. r \in ending
        BY <2>3, DomainOfRuns
      <3> QED
        BY <1>3, <2>1, <3>1
    <2> QED
      BY <2>1, <2>2, <2>3
  <1>6. cut \subseteq cut'
    BY <1>3
  <1>7. \A r \in 1..Len(runs') :
           \/ runs'[r].spec \/ ~enabled'[runs'[r].auto]
           \/ r \in 1..Len(runs) /\ ~runs[r].spec /\ runs'[r].auto = runs[r].auto
    BY <1>1, <1>2
  <1> HIDE DEF fires, ending
  <1> QED
    BY <1>3, <1>4, <1>5, <1>6, <1>7 DEF WatchStep

\* A switch that was moved once has been moved.
LEMMA ToggledStays == ASSUME Base, [Next]_vars PROVE Toggled => Toggled'
  <1>1. disturbed \in [Kinds -> Nat]
    BY DEF Base, RestTyped
  <1>2. disturbed' = disturbed \/ \E kind : Disturb(kind)
    <2>1. ASSUME NEW e, Inbound(e) \/ CronTick(e) \/ RunNow(e) PROVE UNCHANGED disturbed
      BY <2>1 DEF Inbound, CronTick, RunNow
    <2>2. CASE NextTask
      BY <2>2 DEF NextTask, FireTask, AnswerTask, ResumeTask
    <2>3. CASE Sweep
      BY <2>3 DEF Sweep, SweepStarts, SweepEnds, SweepOne
    <2>4. ASSUME NEW r, Step(r) PROVE disturbed' = disturbed \/ Disturb("fault")
      <3>1. ASSUME NEW off, Wrap(r, off) PROVE disturbed' = disturbed \/ Disturb("fault")
        BY <3>1, Zenon DEF Wrap, Housekeeping
      <3>2. ASSUME Cancelled(r) \/ Breaks(r) PROVE disturbed' = disturbed \/ Disturb("fault")
        BY <3>2, Zenon DEF Cancelled, Housekeeping, Breaks
      <3>3. ASSUME Delivered(r) \/ Escalated(r) PROVE disturbed' = disturbed \/ Disturb("fault")
        BY <3>1, <3>3 DEF Delivered, Escalated
      <3>4. ASSUME \/ WorkStarts(r) \/ LeftRunning(r)
                   \/ \E k \in {"counterpart", "help"} : Park(r, k) \/ Said(r, k)
                   \/ \E s \in {"achieved", "completed", "failed", "rejected"} : Finish(r, s)
            PROVE  UNCHANGED disturbed
        BY <3>4 DEF WorkStarts, LeftRunning, Park, Said, Finish
      <3> QED
        BY <2>4, <3>2, <3>3, <3>4, Zenon DEF Step
    <2>5. ASSUME NEW r, Person(r) PROVE disturbed' = disturbed \/ Disturb("stop")
      BY <2>5, Zenon DEF Person, AnswerNow, StopRunning, StopPaused
    <2>6. ASSUME NEW a, Toggle(a) PROVE Disturb("toggle")
      BY <2>6, Zenon DEF Toggle
    <2>7. CASE Shutdown
      BY <2>7, Zenon DEF Shutdown
    <2>8. CASE Restart
      BY <2>8, Zenon DEF Restart
    <2>9. CASE UNCHANGED vars
      BY <2>9 DEF vars
    <2> QED
      BY <2>1, <2>2, <2>3, <2>4, <2>5, <2>6, <2>7, <2>8, <2>9, Zenon DEF Next, Arrival
  <1>3. ASSUME NEW kind, Disturb(kind)
        PROVE  disturbed' \in [Kinds -> Nat] /\ \A k \in Kinds : disturbed'[k] >= disturbed[k]
    BY <1>3, Disturbed
  <1>4. disturbed' \in [Kinds -> Nat] /\ \A k \in Kinds : disturbed'[k] >= disturbed[k]
    BY <1>1, <1>2, <1>3
  <1> QED
    BY <1>1, <1>4 DEF Toggled

LEMMA WatchStepTaken ==
    ASSUME Base, Base', [Next]_vars
    PROVE  Toggled' \/ WatchStep
  <1>1. ASSUME NEW e \in Events, Inbound(e) \/ CronTick(e) \/ RunNow(e) PROVE WatchStep
    BY <1>1, InboundWatch, CallerWatch
  <1>2. ASSUME NEW r \in DOMAIN runs, Step(r) PROVE WatchStep
    BY <1>2, RunWatch, EndWatch, BreaksWatch DEF Step
  <1>3. ASSUME NEW r \in DOMAIN runs, Person(r) PROVE WatchStep
    <2>1. ASSUME AnswerNow(r) PROVE WatchStep
      <3>1. ready \in Seq(TaskRec) /\ r \in 1..Len(runs)
        BY DomainOfRuns DEF Base, TasksGood
      <3> QED
        BY <2>1, <3>1, PrologueWatch DEF AnswerNow, history
    <2> QED
      BY <1>3, <2>1, RunWatch, EndWatch DEF Person
  <1>4. ASSUME NEW a \in Autos, Toggle(a) PROVE Toggled'
    <2>1. Disturb("toggle")
      BY <1>4, Zenon DEF Toggle
    <2>2. "toggle" \in Kinds /\ disturbed'["toggle"] > 0
      BY <2>1, Disturbed
    <2> QED
      BY <2>2 DEF Toggled
  <1>5. CASE Shutdown
    BY <1>5, NothingToWatch DEF Shutdown, history
  <1>6. CASE UNCHANGED vars
    BY <1>6, NothingToWatch DEF vars, memory, history
  <1> QED
    BY <1>1, <1>2, <1>3, <1>4, <1>5, <1>6, NextTaskWatch, SweepWatch, RestartWatch, Zenon
       DEF Next, Arrival

\* An event queued for an automation that is on has someone who will drain it, unless a
\* crash or a fault came between two runs of the automation, the message was queued behind a fire
\* whose run was already over, or the owner moved the switch (runtime.py:
\* _drain_queue_if_single, _post_finish, _stop; matcher.py: _dispatch_match).
THEOREM NobodyIsStranded == Spec => []NobodyStranded
  <1>1. Init => Attended
    <2> SUFFICES ASSUME Init PROVE SpecsTrue /\ NobodyStranded
      BY DEF Attended
    <2>1. Len(runs) = 0 /\ queue = [a \in Autos |-> <<>>]
      BY DEF Init
    <2>2. \A a \in Single : queue[a] = <<>>
      BY <2>1, AutosAssumption
    <2> QED
      BY <2>1, <2>2 DEF SpecsTrue, NobodyStranded
  <1>2. Base /\ Attended /\ Base' /\ [Next]_vars => Attended'
    BY AttendedKept, ToggledStays, WatchStepTaken
  <1>3. Attended => NobodyStranded
    BY DEF Attended, Toggled, NobodyStranded
  <1> QED
    BY <1>1, <1>2, <1>3, AlwaysBase, PTL DEF Spec

---------------------------------------------------------------------------
(* What becomes of an event                                                *)

\* The sweep w will launch the run r again.
Again(w, r) == r \in ToSet(w.relaunch) \/ (w.at = r /\ w.again)

RunHas(R, w, p) ==
    \E r \in 1..Len(R) :
        /\ <<R[r].auto, R[r].ev>> = p
        /\ R[r].work \/ R[r].stop \/ R[r].status # "interrupted" \/ Again(w, r)
\* The spawned tasks that carry an event: those that fire it, and those that answer with it.
Carrying       == Firing \cup {"answer"}
TaskHas(T, p)  == \E task \in T : task.kind \in Carrying /\ Key(task) = p
QueueHas(Q, p) == p[2] \in ToSet(Q[p[1]])

Kept(p)     == RunHas(runs, sweep, p) \/ TaskHas(ToSet(ready), p) \/ QueueHas(queue, p)
KeptNext(p) == RunHas(runs', sweep', p) \/ TaskHas(ToSet(ready'), p) \/ QueueHas(queue', p)
                 \/ p \in excused' \cup late'

\* What a step may do to the events: none is lost by where it was, a new one is somewhere.
EventStep ==
    /\ excused \subseteq excused' /\ late \subseteq late'
    /\ \A p \in Autos \X Events :
         /\ RunHas(runs, sweep, p) => KeptNext(p)
         /\ TaskHas(ToSet(ready), p) => KeptNext(p)
         /\ QueueHas(queue, p) => KeptNext(p)
         /\ p \in taken' => p \in taken \/ KeptNext(p)

LEMMA EventKeptIs ==
    /\ Base  => (EventKept <=> \A p \in taken \ (excused \cup late) : Kept(p))
    /\ Base' => (EventKept' <=> \A p \in taken' \ (excused' \cup late') : KeptNext(p))
  <1>1. ASSUME Base PROVE EventKept <=> \A p \in taken \ (excused \cup late) : Kept(p)
    <2>1. DOMAIN runs = 1..Len(runs)
      BY <1>1, DomainOfRuns
    <2>2. \A p : RunHas(runs, sweep, p) <=>
             \E r \in DOMAIN runs :
               /\ <<runs[r].auto, runs[r].ev>> = p
               /\ \/ runs[r].work \/ runs[r].stop \/ runs[r].status # "interrupted"
                  \/ r \in ToSet(sweep.relaunch) \/ (sweep.at = r /\ sweep.again)
      BY <2>1 DEF RunHas, Again
    <2>3. \A p : TaskHas(ToSet(ready), p) <=>
             \E i \in DOMAIN ready : ready[i].kind \in Firing \cup {"answer"} /\ Key(ready[i]) = p
      BY DEF TaskHas, Carrying, ToSet
    <2> QED
      BY <2>2, <2>3 DEF EventKept, Kept, QueueHas
  <1>2. ASSUME Base' PROVE EventKept' <=> \A p \in taken' \ (excused' \cup late') : KeptNext(p)
    <2>1. DOMAIN runs' = 1..Len(runs')
      BY <1>2 DEF Base, RunsGood
    <2>2. \A p : RunHas(runs', sweep', p) <=>
             \E r \in DOMAIN runs' :
               /\ <<runs'[r].auto, runs'[r].ev>> = p
               /\ \/ runs'[r].work \/ runs'[r].stop \/ runs'[r].status # "interrupted"
                  \/ r \in ToSet(sweep'.relaunch) \/ (sweep'.at = r /\ sweep'.again)
      BY <2>1 DEF RunHas, Again
    <2>3. \A p : TaskHas(ToSet(ready'), p) <=>
             \E i \in DOMAIN ready' : ready'[i].kind \in Firing \cup {"answer"} /\ Key(ready'[i]) = p
      BY DEF TaskHas, Carrying, ToSet, Key
    <2>4. \A p \in taken' \ (excused' \cup late') : p \notin excused' \cup late'
      OBVIOUS
    <2> QED
      BY <2>2, <2>3, <2>4 DEF EventKept, KeptNext, QueueHas, Key
  <1> QED
    BY <1>1, <1>2

\* What a gentle step leaves of a run still speaks for its event.
LEMMA RunsKeepEvents ==
    ASSUME Base, GentleStep, \A r \in 1..Len(runs) : Again(sweep, r) => Again(sweep', r)
    PROVE  \A p : RunHas(runs, sweep, p) => RunHas(runs', sweep', p)
  <1>1. Len(runs) \in Nat /\ \A r \in 1..Len(runs) : r \in 1..Len(runs')
    BY DomainOfRuns DEF GentleStep, RunsStep
  <1>2. \A r \in 1..Len(runs) :
           /\ runs'[r].auto = runs[r].auto /\ runs'[r].ev = runs[r].ev
           /\ runs[r].work => runs'[r].work
           /\ runs[r].stop => runs'[r].stop
           /\ runs[r].status # "interrupted" => runs'[r].status # "interrupted" \/ runs'[r].stop
    BY DEF GentleStep, Gentle, Lawful
  <1> QED
    BY <1>1, <1>2 DEF RunHas

\* Steps that fire, drain and sweep nothing.
LEMMA EventsLeftAlone ==
    ASSUME Base, GentleStep, UNCHANGED <<queue, sweep, excused, late, taken>>,
           \A task \in ToSet(ready) : task.kind \in Carrying => task \in ToSet(ready')
    PROVE  EventStep
  <1>1. \A p : RunHas(runs, sweep, p) => RunHas(runs', sweep', p)
    BY RunsKeepEvents
  <1>2. \A p : TaskHas(ToSet(ready), p) => TaskHas(ToSet(ready'), p)
    BY DEF TaskHas
  <1> QED
    BY <1>1, <1>2 DEF EventStep, KeptNext

\* A run that starts speaks for its event.
LEMMA NewRunHas ==
    ASSUME Base, NEW a \in Autos, NEW e \in Events, NEW by \in {"matcher", "task", "caller"},
           runs' = Append(runs, NewRun(a, e, by)), NEW w
    PROVE  RunHas(runs', w, <<a, e>>)
  <1> DEFINE x == NewRun(a, e, by)
  <1>1. Added(runs, runs', x)
    BY RunStarted
  <1>2. x.auto = a /\ x.ev = e /\ x.status # "interrupted"
    BY DEF NewRun
  <1> HIDE DEF x
  <1>3. Len(runs) + 1 \in 1..Len(runs') /\ runs'[Len(runs) + 1] = x
    BY <1>1 DEF Added
  <1> QED
    BY <1>2, <1>3 DEF RunHas

LEMMA CallerEvents ==
    ASSUME Base, NEW e \in Events, CronTick(e) \/ RunNow(e)
    PROVE  EventStep
  <1> DEFINE a == AutoOf[e]
  <1>1. /\ a \in Autos /\ runs' = Append(runs, NewRun(a, e, "caller"))
        /\ taken' = taken \cup {<<a, e>>} /\ UNCHANGED <<queue, ready, sweep, excused, late>>
    BY EventAssumption DEF CronTick, RunNow, memory
  <1>2. \A p : RunHas(runs, sweep, p) => RunHas(runs', sweep', p)
    BY <1>1, CallerBase, RunsKeepEvents
  <1>3. RunHas(runs', sweep', <<a, e>>)
    BY <1>1, NewRunHas
  <1> QED
    BY <1>1, <1>2, <1>3 DEF EventStep, KeptNext

\* An event put at the end of a queue is in it, with those that were.
LEMMA QueuedEvent ==
    ASSUME Base, NEW a \in Autos, NEW e \in Events, queue' = [queue EXCEPT ![a] = Append(@, e)]
    PROVE  /\ QueueHas(queue', <<a, e>>)
           /\ \A p \in Autos \X Events : QueueHas(queue, p) => QueueHas(queue', p)
  <1>1. queue \in [Autos -> Seq(Events)] /\ queue[a] \in Seq(Events)
    BY DEF Base, RestTyped
  <1>2. ToSet(Append(queue[a], e)) = ToSet(queue[a]) \cup {e}
    BY <1>1, SetOfAppend
  <1>3. queue'[a] = Append(queue[a], e) /\ \A b \in Autos : b # a => queue'[b] = queue[b]
    BY <1>1
  <1>4. \A b \in Autos : ToSet(queue[b]) \subseteq ToSet(queue'[b])
    BY <1>2, <1>3
  <1> QED
    BY <1>2, <1>3, <1>4 DEF QueueHas

LEMMA InboundEvents ==
    ASSUME Base, Base', NEW e \in Events, Inbound(e)
    PROVE  EventStep
  <1> DEFINE a == AutoOf[e]
             fire == Task("fire", a, e, NoRun)
             answer == Task("answer", runs[claims[ThreadOf[e]]].auto, e, claims[ThreadOf[e]])
  <1>1. ready \in Seq(TaskRec) /\ UNCHANGED <<runs, sweep, excused, late>> /\ a \in Autos
    BY EventAssumption DEF Base, TasksGood, Inbound
  <1>2. \A p : RunHas(runs, sweep, p) => RunHas(runs', sweep', p)
    BY <1>1
  <1>3. CASE /\ ready' = Append(ready, answer) /\ claims[ThreadOf[e]] # NoRun
             /\ taken' = taken \cup {<<runs[claims[ThreadOf[e]]].auto, e>>} /\ UNCHANGED queue
    <2>1. answer \in TaskRec /\ answer.kind \in Carrying
          /\ Key(answer) = <<runs[claims[ThreadOf[e]]].auto, e>>
      <3>1. claims[ThreadOf[e]] \in 1..Len(runs) /\ claims[ThreadOf[e]] \in Nat
        <4>1. ThreadOf[e] \in Threads
          BY EventAssumption DEF Inbound
        <4> QED
          BY <1>3, <4>1, DomainOfRuns DEF Base, RestTyped, NoRun
      <3>2. runs[claims[ThreadOf[e]]].auto \in Autos
        BY <3>1, RunIsGood DEF RunRec
      <3> QED
        BY <3>1, <3>2 DEF Task, TaskRec, Carrying, Key
    <2> HIDE DEF answer
    <2>2. ToSet(ready') = ToSet(ready) \cup {answer}
      BY <1>1, <1>3, <2>1, SetOfAppend
    <2>3. /\ \A p : TaskHas(ToSet(ready), p) => TaskHas(ToSet(ready'), p)
          /\ TaskHas(ToSet(ready'), <<runs[claims[ThreadOf[e]]].auto, e>>)
      BY <2>1, <2>2 DEF TaskHas
    <2> QED
      BY <1>1, <1>2, <1>3, <2>3 DEF EventStep, KeptNext
  <1>4. CASE /\ taken' = taken \cup {<<a, e>>} /\ queue' = [queue EXCEPT ![a] = Append(@, e)]
             /\ UNCHANGED ready
    BY <1>1, <1>2, <1>4, QueuedEvent DEF EventStep, KeptNext
  <1>5. CASE /\ taken' = taken \cup {<<a, e>>} /\ ready' = Append(ready, fire)
             /\ UNCHANGED queue
    <2>1. fire \in TaskRec /\ fire.kind \in Carrying /\ Key(fire) = <<a, e>>
      BY <1>1 DEF Task, TaskRec, Carrying, Firing, Key, NoRun
    <2> HIDE DEF fire
    <2>2. ToSet(ready') = ToSet(ready) \cup {fire}
      BY <1>1, <1>5, <2>1, SetOfAppend
    <2>3. /\ \A p : TaskHas(ToSet(ready), p) => TaskHas(ToSet(ready'), p)
          /\ TaskHas(ToSet(ready'), <<a, e>>)
      BY <2>1, <2>2 DEF TaskHas
    <2> QED
      BY <1>1, <1>2, <1>5, <2>3 DEF EventStep, KeptNext
  <1>6. CASE UNCHANGED <<taken, queue, ready>>
    BY <1>1, <1>2, <1>6 DEF EventStep, KeptNext
  <1> QED
    BY <1>3, <1>4, <1>5, <1>6 DEF Inbound, DispatchMatch

LEMMA FireTaskEvents ==
    ASSUME Base, Base', ready # <<>>, FireTask(Head(ready))
    PROVE  EventStep
  <1> DEFINE task == Head(ready)
             a == task.auto
             e == task.ev
  <1>1. a \in Autos /\ e \in Events /\ ready \in Seq(TaskRec)
    BY TasksShortened DEF Base, TasksGood, TaskRec
  <1>2. ready' = Tail(ready) /\ UNCHANGED <<sweep, taken, late>> /\ Key(task) = <<a, e>>
    BY DEF FireTask, Key
  <1>3. ToSet(ready) = {task} \cup ToSet(ready')
    BY <1>1, <1>2, SetOfTail
  <1>4. \A p : TaskHas(ToSet(ready), p) => TaskHas(ToSet(ready'), p) \/ p = Key(task)
    <2> HIDE DEF task
    <2> QED
      BY <1>3 DEF TaskHas
  <1>5. \A p : RunHas(runs, sweep, p) => RunHas(runs', sweep', p)
    BY <1>2, FireTaskBase, RunsKeepEvents
  <1>6. CASE ~Busy(a)
    <2>1. PICK by \in {"matcher", "task"} : runs' = Append(runs, NewRun(a, e, by))
      BY <1>6 DEF FireTask
    <2>2. UNCHANGED <<queue, excused>>
      BY <1>6 DEF FireTask
    <2>3. RunHas(runs', sweep', <<a, e>>)
      BY <1>1, <2>1, NewRunHas
    <2> HIDE DEF a, e, task
    <2> QED
      BY <1>2, <1>4, <1>5, <2>2, <2>3 DEF EventStep, KeptNext
  <1>7. CASE Busy(a) /\ task.kind = "relaunch"
    <2>1. UNCHANGED queue /\ excused' = excused \cup {<<a, e>>}
      BY <1>2, <1>7 DEF FireTask
    <2> HIDE DEF a, e, task
    <2> QED
      BY <1>2, <1>4, <1>5, <2>1 DEF EventStep, KeptNext
  <1>8. CASE Busy(a) /\ task.kind # "relaunch"
    <2>1. UNCHANGED excused /\ queue' = [queue EXCEPT ![a] = Append(@, e)]
      BY <1>8 DEF FireTask
    <2>2. /\ QueueHas(queue', <<a, e>>)
          /\ \A p \in Autos \X Events : QueueHas(queue, p) => QueueHas(queue', p)
      BY <1>1, <2>1, QueuedEvent
    <2> HIDE DEF a, e, task
    <2> QED
      BY <1>2, <1>4, <1>5, <2>1, <2>2 DEF EventStep, KeptNext
  <1> QED
    BY <1>6, <1>7, <1>8

LEMMA NextTaskEvents ==
    ASSUME Base, Base', NextTask
    PROVE  EventStep
  <1> DEFINE task == Head(ready)
  <1>1. CASE FireTask(task)
    BY <1>1, FireTaskEvents DEF NextTask
  <1>2. CASE AnswerTask(task)
    <2>1. task.kind = "answer" /\ ready # <<>> /\ GentleStep
      BY <1>2, AnswerTaskBase DEF NextTask, AnswerTask
    <2>2. ready \in Seq(TaskRec) /\ Tail(ready) \in Seq(TaskRec) /\ task.run \in 1..Len(runs)
      BY <2>1, TasksShortened DEF Base, TasksGood, TaskGood
    <2>3. ready' = Tail(ready) \/ \E t \in TaskRec : ready' = Append(Tail(ready), t)
      <3>1. Prologue(task.run, Tail(ready)) =>
              ready' = Append(Tail(ready), Task("resume", runs[task.run].auto, runs[task.run].ev, task.run))
        BY DEF Prologue
      <3>2. Task("resume", runs[task.run].auto, runs[task.run].ev, task.run) \in TaskRec
        BY <2>2, RunIsGood, DomainOfRuns DEF Task, TaskRec, RunRec
      <3> QED
        BY <1>2, <3>1, <3>2 DEF AnswerTask
    <2>4. ToSet(ready) \subseteq {task} \cup ToSet(ready')
      <3> DEFINE rest == Tail(ready)
      <3>1. rest \in Seq(TaskRec)
        BY <2>2
      <3>2. ToSet(ready) = {task} \cup ToSet(rest)
        BY <2>1, <2>2, SetOfTail
      <3> HIDE DEF rest, task
      <3>3. \A t \in TaskRec : ToSet(Append(rest, t)) = ToSet(rest) \cup {t}
        BY <3>1, SetOfAppend
      <3>4. ready' = rest \/ \E t \in TaskRec : ready' = Append(rest, t)
        BY <2>3 DEF rest
      <3>5. ToSet(rest) \subseteq ToSet(ready')
        BY <3>3, <3>4
      <3> QED
        BY <3>2, <3>5
    <2>5. /\ UNCHANGED <<queue, sweep, taken>> /\ Key(task) \in excused' \cup late'
          /\ excused \subseteq excused' /\ late \subseteq late'
      BY <1>2 DEF AnswerTask
    <2>6. \A p : RunHas(runs, sweep, p) => RunHas(runs', sweep', p)
      BY <2>1, <2>5, RunsKeepEvents
    <2>7. \A p : TaskHas(ToSet(ready), p) => TaskHas(ToSet(ready'), p) \/ p = Key(task)
      <3> HIDE DEF task
      <3> QED
        BY <2>4 DEF TaskHas
    <2> QED
      BY <2>5, <2>6, <2>7 DEF EventStep, KeptNext
  <1>3. CASE ResumeTask(task)
    <2>1. task.kind = "resume" /\ ready # <<>> /\ GentleStep /\ ready' = Tail(ready)
      BY <1>3, ResumeTaskBase DEF NextTask, ResumeTask
    <2>2. \A t \in ToSet(ready) : t.kind \in Carrying => t \in ToSet(ready')
      <3>1. ready \in Seq(TaskRec)
        BY DEF Base, TasksGood
      <3>2. ToSet(ready) = {task} \cup ToSet(ready')
        BY <2>1, <3>1, SetOfTail
      <3> QED
        BY <2>1, <3>2 DEF Carrying, Firing
    <2> QED
      BY <1>3, <2>1, <2>2, EventsLeftAlone DEF ResumeTask, history
  <1> QED
    BY <1>1, <1>2, <1>3 DEF NextTask

LEMMA AnswerNowEvents ==
    ASSUME Base, NEW r, AnswerNow(r)
    PROVE  EventStep
  <1>1. r \in 1..Len(runs) /\ ready \in Seq(TaskRec)
    BY DomainOfRuns DEF AnswerNow, Base, TasksGood
  <1>2. Task("resume", runs[r].auto, runs[r].ev, r) \in TaskRec
    BY <1>1, RunIsGood, DomainOfRuns DEF Task, TaskRec, RunRec
  <1>3. ready' = Append(ready, Task("resume", runs[r].auto, runs[r].ev, r))
    BY DEF AnswerNow, Prologue
  <1>4. ToSet(ready) \subseteq ToSet(ready')
    BY <1>1, <1>2, <1>3, SetOfAppend
  <1> QED
    BY <1>4, AnswerNowBase, EventsLeftAlone DEF AnswerNow, history

\* A drain gives up what has expired, fires the oldest event left and keeps the rest.
LEMMA DrainKeepsEvents ==
    ASSUME Base, NEW a \in Autos, NEW wanted, NEW chained \in Seq(TaskRec), Drain(a, wanted, chained)
    PROVE  /\ excused \subseteq excused'
           /\ ToSet(ready) \cup ToSet(chained) \subseteq ToSet(ready')
           /\ \A p \in Autos \X Events :
                QueueHas(queue, p)
                  => QueueHas(queue', p) \/ TaskHas(ToSet(ready'), p) \/ p \in excused'
  <1>1. ready \in Seq(TaskRec) /\ queue \in [Autos -> Seq(Events)]
    BY DEF Base, TasksGood, RestTyped
  <1>2. CASE ~(wanted /\ a \in Single)
    <2>1. ready' = ready \o chained /\ UNCHANGED <<queue, excused>>
      BY <1>2 DEF Drain
    <2>2. ToSet(ready \o chained) = ToSet(ready) \cup ToSet(chained)
      BY <1>1, SetOfJoin
    <2> QED
      BY <2>1, <2>2
  <1>3. CASE wanted /\ a \in Single
    <2>1. PICK k \in 0..Len(queue[a]) :
             /\ queue' = [queue EXCEPT ![a] = SubSeq(@, k + 2, Len(@))]
             /\ excused' = excused \cup {<<a, queue[a][i]>> : i \in 1..k}
             /\ ready' = (IF k < Len(queue[a])
                          THEN Append(ready, Task("drain", a, queue[a][k + 1], NoRun))
                          ELSE ready) \o chained
      BY <1>3 DEF Drain
    <2> DEFINE q == queue[a]
               rest == SubSeq(q, k + 2, Len(q))
               task == Task("drain", a, q[k + 1], NoRun)
               base == IF k < Len(q) THEN Append(ready, task) ELSE ready
    <2>2. q \in Seq(Events) /\ Len(q) \in Nat /\ k \in Nat /\ DOMAIN q = 1..Len(q) /\ k <= Len(q)
      BY <1>1, <2>1
    <2>3. \A b \in Autos : b # a => queue'[b] = queue[b]
      BY <1>1, <2>1
    <2>4. queue'[a] = rest
      BY <1>1, <2>1
    <2>5. \A j \in 1..Len(q) : j >= k + 2 => q[j] \in ToSet(rest)
      <3>0. \A i \in (k + 2)..Len(q) : q[i] \in Events
        BY <2>2
      <3>1. /\ rest \in Seq(Events) /\ Len(rest) = IF k + 2 <= Len(q) THEN Len(q) - (k + 2) + 1 ELSE 0
            /\ \A i \in 1..(Len(q) - (k + 2) + 1) : rest[i] = q[(k + 2) + i - 1]
        BY <2>2, <3>0, SubSeqProperties
      <3> HIDE DEF rest
      <3>2. ASSUME NEW j \in 1..Len(q), j >= k + 2
            PROVE  q[j] \in ToSet(rest)
        <4>1. j - k - 1 \in 1..(Len(q) - (k + 2) + 1) /\ (k + 2) + (j - k - 1) - 1 = j
          BY <2>2, <3>2
        <4>2. rest[j - k - 1] = q[j]
          BY <3>1, <4>1
        <4>3. j - k - 1 \in 1..Len(rest) /\ DOMAIN rest = 1..Len(rest)
          BY <2>2, <3>1, <3>2
        <4> QED
          BY <4>2, <4>3 DEF ToSet
      <3> QED
        BY <3>2
    <2>6. base \in Seq(TaskRec) /\ ToSet(ready) \subseteq ToSet(base)
          /\ (k < Len(q) => TaskHas(ToSet(base), <<a, q[k + 1]>>))
      <3>1. CASE k < Len(q)
        <4>1. q[k + 1] \in Events /\ "drain" \in Firing /\ NoRun \in Nat
          BY <2>2, <3>1 DEF Firing, NoRun
        <4>2. task \in TaskRec /\ task.kind \in Carrying /\ Key(task) = <<a, q[k + 1]>>
          BY <4>1 DEF Task, TaskRec, Carrying, Key
        <4> HIDE DEF task
        <4>3. Append(ready, task) \in Seq(TaskRec) /\ ToSet(Append(ready, task)) = ToSet(ready) \cup {task}
          BY <1>1, <4>2, SetOfAppend
        <4>4. base = Append(ready, task)
          BY <3>1
        <4> HIDE DEF base, q
        <4> QED
          BY <4>2, <4>3, <4>4 DEF TaskHas
      <3>2. CASE ~(k < Len(q))
        BY <1>1, <3>2
      <3> QED
        BY <3>1, <3>2
    <2>7. ready' = base \o chained
      BY <2>1
    <2> HIDE DEF base
    <2>8. ToSet(ready') = ToSet(base) \cup ToSet(chained)
      BY <2>6, <2>7, SetOfJoin
    <2>9. ASSUME NEW p \in Autos \X Events, QueueHas(queue, p)
          PROVE  QueueHas(queue', p) \/ TaskHas(ToSet(ready'), p) \/ p \in excused'
      <3>1. CASE p[1] # a
        BY <2>3, <2>9, <3>1 DEF QueueHas
      <3>2. CASE p[1] = a
        <4>1. PICK j \in 1..Len(q) : q[j] = p[2]
          BY <2>2, <2>9, <3>2 DEF QueueHas, ToSet
        <4>2. p = <<a, q[j]>>
          BY <3>2, <4>1
        <4>3. CASE j <= k
          BY <2>1, <2>2, <4>2, <4>3
        <4>4. CASE j = k + 1
          <5>1. TaskHas(ToSet(base), p)
            BY <2>2, <2>6, <4>2, <4>4
          <5> QED
            BY <2>8, <5>1 DEF TaskHas
        <4>5. CASE j >= k + 2
          BY <2>4, <2>5, <3>2, <4>1, <4>5 DEF QueueHas
        <4> QED
          BY <2>2, <4>3, <4>4, <4>5
      <3> QED
        BY <3>1, <3>2
    <2> QED
      BY <2>1, <2>6, <2>8, <2>9
  <1> QED
    BY <1>2, <1>3

\* A run that ends, with whatever its queue and its chains fire.
LEMMA WrapEvents ==
    ASSUME Base, GentleStep, NEW r \in 1..Len(runs), NEW off, Wrap(r, off)
    PROVE  EventStep
  <1> DEFINE a == runs[r].auto
             e == runs[r].ev
             bs == {c \in Chain[a] : Chained(r) # <<>> /\ enabled[c]}
  <1>1. a \in Autos /\ e \in Events /\ Chain[a] \subseteq Autos
    BY RunIsGood, ChainAssumption DEF RunRec
  <1>2. taken' = taken \cup {<<b, e>> : b \in bs} /\ UNCHANGED late
    BY DEF Wrap
  <1>20. PICK w : Drain(a, w, Chained(r))
    <2> DEFINE wanted == ~off /\ runs[r].spec
    <2>1. Housekeeping(a, wanted, Chained(r))
      BY DEF Wrap
    <2> HIDE DEF wanted
    <2>2. KeptUp(a, wanted, Chained(r))
      BY <2>1, HousekeepingDrains
    <2> QED
      BY <2>2 DEF KeptUp
  <1>3. Chained(r) \in Seq(TaskRec)
    BY ChainedGood
  <1>4. /\ excused \subseteq excused'
        /\ ToSet(ready) \cup ToSet(Chained(r)) \subseteq ToSet(ready')
        /\ \A p \in Autos \X Events :
             QueueHas(queue, p)
               => QueueHas(queue', p) \/ TaskHas(ToSet(ready'), p) \/ p \in excused'
    BY <1>1, <1>20, <1>3, DrainKeepsEvents
  <1>5. \A p : TaskHas(ToSet(ready), p) => TaskHas(ToSet(ready'), p)
    BY <1>4 DEF TaskHas
  <1>6. ASSUME NEW b \in bs
        PROVE  TaskHas(ToSet(ready'), <<b, e>>)
    <2>1. runs[r].status \in ChainWhen
      BY DEF Chained
    <2>2. Task("chain", b, e, NoRun) \in ToSet(Chained(r))
      BY <2>1, ChainedGood
    <2>3. Key(Task("chain", b, e, NoRun)) = <<b, e>> /\ Task("chain", b, e, NoRun).kind \in Carrying
      BY DEF Task, Key, Carrying, Firing
    <2>4. Task("chain", b, e, NoRun) \in ToSet(ready')
      BY <1>4, <2>2
    <2> QED
      BY <2>3, <2>4 DEF TaskHas
  <1>7. ASSUME NEW s \in 1..Len(runs), Again(sweep, s)
        PROVE  Again(sweep', s)
    <2>1. CASE sweep.at # r
      BY <1>7, <2>1 DEF Wrap
    <2>2. CASE sweep.at = r
      <3>1. SweepGood(sweep, runs)
        BY DEF Base
      <3> DEFINE again == IF sweep.again THEN Append(sweep.relaunch, r) ELSE sweep.relaunch
      <3>2. sweep'.relaunch = again
        BY <2>2, <3>1 DEF Wrap, SweepGood
      <3>3. sweep.relaunch \in Seq(Nat) /\ r \in Nat
        BY <3>1, DomainOfRuns DEF SweepGood
      <3>4. ToSet(Append(sweep.relaunch, r)) = ToSet(sweep.relaunch) \cup {r}
        BY <3>3, SetOfAppend
      <3>5. ToSet(again) = ToSet(sweep.relaunch) \cup (IF sweep.again THEN {r} ELSE {})
        BY <3>4
      <3> HIDE DEF again
      <3> QED
        BY <1>7, <2>2, <3>2, <3>5 DEF Again
    <2> QED
      BY <2>1, <2>2
  <1>8. \A p : RunHas(runs, sweep, p) => RunHas(runs', sweep', p)
    BY <1>7, RunsKeepEvents
  <1>9. \A p \in taken' : p \in taken \/ TaskHas(ToSet(ready'), p)
    BY <1>2, <1>6
  <1> QED
    BY <1>2, <1>4, <1>5, <1>8, <1>9 DEF EventStep, KeptNext

LEMMA EndEvents ==
    ASSUME Base, Base', NEW r, Delivered(r) \/ Escalated(r) \/ Cancelled(r) \/ StopPaused(r)
    PROVE  EventStep
  <1>1. r \in 1..Len(runs) /\ runs[r].auto \in Autos /\ <<>> \in Seq(TaskRec)
    BY DomainOfRuns, RunIsGood DEF Delivered, Escalated, Cancelled, StopPaused, Running, At, RunRec
  <1>2. GentleStep
    BY DeliveredBase, EscalatedBase, CancelledBase, StopPausedBase
  <1>3. ASSUME NEW wanted, Drain(runs[r].auto, wanted, <<>>), UNCHANGED <<sweep, taken, late>>
        PROVE  EventStep
    <2>1. /\ excused \subseteq excused'
          /\ ToSet(ready) \subseteq ToSet(ready')
          /\ \A p \in Autos \X Events :
               QueueHas(queue, p)
                 => QueueHas(queue', p) \/ TaskHas(ToSet(ready'), p) \/ p \in excused'
      BY <1>1, <1>3, DrainKeepsEvents
    <2>2. \A p : TaskHas(ToSet(ready), p) => TaskHas(ToSet(ready'), p)
      BY <2>1 DEF TaskHas
    <2>3. \A p : RunHas(runs, sweep, p) => RunHas(runs', sweep', p)
      BY <1>2, <1>3, RunsKeepEvents
    <2> QED
      BY <1>3, <2>1, <2>2, <2>3 DEF EventStep, KeptNext
  <1>4. CASE Delivered(r)
    <2>1. CASE Stuck(r)
      BY <1>2, <1>4, <2>1, EventsLeftAlone DEF Delivered, memory, history
    <2>2. CASE ~Stuck(r)
      BY <1>1, <1>2, <1>4, <2>2, WrapEvents DEF Delivered
    <2> QED
      BY <2>1, <2>2
  <1>5. CASE Escalated(r)
    BY <1>1, <1>2, <1>5, WrapEvents DEF Escalated
  <1>6. CASE Cancelled(r)
    <2>1. Housekeeping(runs[r].auto, runs[r].spec, <<>>) /\ UNCHANGED <<sweep, taken, late>>
      BY <1>6, Zenon DEF Cancelled
    <2>2. KeptUp(runs[r].auto, runs[r].spec, <<>>)
      BY <2>1, HousekeepingDrains
    <2> QED
      BY <1>3, <2>1, <2>2 DEF KeptUp
  <1>7. CASE StopPaused(r)
    BY <1>3, <1>7 DEF StopPaused
  <1> QED
    BY <1>4, <1>5, <1>6, <1>7

LEMMA RunEvents ==
    ASSUME Base, NEW r,
           \/ WorkStarts(r) \/ LeftRunning(r) \/ Breaks(r) \/ StopRunning(r)
           \/ \E s \in {"achieved", "completed", "failed", "rejected"} : Finish(r, s)
           \/ \E k \in {"counterpart", "help"} : Park(r, k) \/ Said(r, k)
    PROVE  EventStep
  <1>1. GentleStep
    BY WorkStartsBase, LeftRunningBase, BreaksBase, StopRunningBase, FinishBase, ParkBase, SaidBase
  <1>2. UNCHANGED <<queue, sweep, excused, late, taken, ready>>
    BY DEF WorkStarts, LeftRunning, Breaks, StopRunning, Finish, Park, Said, history, memory
  <1> QED
    BY <1>1, <1>2, EventsLeftAlone

LEMMA SweepEvents ==
    ASSUME Base, Base', Sweep
    PROVE  EventStep
  <1>0. SweepGood(sweep, runs) /\ Len(runs) \in Nat
    BY DomainOfRuns DEF Base
  <1>1. CASE SweepStarts
    <2>1. \A r \in 1..Len(runs) : Again(sweep, r) => Again(sweep', r)
      BY <1>1 DEF SweepStarts, NoSweep, Again
    <2>2. GentleStep
      BY <1>1, SweepStartsBase
    <2>3. \A p : RunHas(runs, sweep, p) => RunHas(runs', sweep', p)
      BY <2>1, <2>2, RunsKeepEvents
    <2> QED
      BY <1>1, <2>3 DEF SweepStarts, history, EventStep, KeptNext
  <1>2. CASE SweepEnds
    <2>1. /\ ready' = ready \o Relaunches /\ UNCHANGED <<runs, queue, taken, excused, late>>
          /\ sweep.at = NoRun
      BY <1>2 DEF SweepEnds, Relaunches, history
    <2>2. ready \in Seq(TaskRec) /\ Relaunches \in Seq(TaskRec)
      BY RelaunchesGood DEF Base, TasksGood
    <2>3. ToSet(ready') = ToSet(ready) \cup ToSet(Relaunches)
      BY <2>1, <2>2, SetOfJoin
    <2>4. \A p : TaskHas(ToSet(ready), p) => TaskHas(ToSet(ready'), p)
      BY <2>3 DEF TaskHas
    <2>5. ASSUME NEW r \in 1..Len(runs), Again(sweep, r)
          PROVE  TaskHas(ToSet(ready'), <<runs[r].auto, runs[r].ev>>)
      <3>1. r \in ToSet(sweep.relaunch)
        BY <1>0, <2>1, <2>5 DEF Again, SweepGood
      <3>2. PICK i \in 1..Len(sweep.relaunch) : sweep.relaunch[i] = r
        BY <1>0, <3>1 DEF SweepGood, ToSet
      <3>3. /\ Relaunches[i].kind \in Carrying /\ Key(Relaunches[i]) = <<runs[r].auto, runs[r].ev>>
            /\ i \in DOMAIN Relaunches
        BY <2>2, <3>2, RelaunchesGood DEF Carrying
      <3>4. Relaunches[i] \in ToSet(ready')
        BY <2>3, <3>3 DEF ToSet
      <3> QED
        BY <3>3, <3>4 DEF TaskHas
    <2>6. ASSUME NEW p, RunHas(runs, sweep, p)
          PROVE  RunHas(runs', sweep', p) \/ TaskHas(ToSet(ready'), p)
      BY <2>1, <2>5, <2>6 DEF RunHas
    <2> QED
      BY <2>1, <2>4, <2>6 DEF EventStep, KeptNext
  <1>3. ASSUME NEW orphan \in sweep.todo, SweepOne(orphan)
        PROVE  EventStep
    <2> DEFINE r == orphan[1]
               again == ~runs[r].work /\ ~orphan[2] /\ enabled[runs[r].auto]
               x == [runs[r] EXCEPT !.status = "interrupted", !.pc = "deliver",
                                    !.spec = enabled[runs[r].auto]]
    <2>1. r \in 1..Len(runs) /\ runs[r] \in RunRec
      BY RunIsGood DEF Base, SweepGood
    <2>2. /\ runs' = [runs EXCEPT ![r] = x] /\ x.auto = runs[r].auto /\ x.ev = runs[r].ev
          /\ UNCHANGED <<queue, ready, taken, late>> /\ sweep.at = NoRun
      BY <1>3, <2>1 DEF SweepOne, RunRec
    <2>3. sweep'.at = r /\ sweep'.again = again /\ sweep'.relaunch = sweep.relaunch
      BY <1>0, <1>3 DEF SweepOne, SweepGood
    <2>4. excused' = IF again THEN excused ELSE excused \cup {<<runs[r].auto, runs[r].ev>>}
      BY <1>3 DEF SweepOne
    <2> HIDE DEF x, again
    <2>5. Wrote(runs, runs', r, x)
      BY <2>1, <2>2, Rewritten
    <2>6. ASSUME NEW p, RunHas(runs, sweep, p)
          PROVE  RunHas(runs', sweep', p) \/ p \in excused'
      <3>1. PICK s \in 1..Len(runs) :
               /\ <<runs[s].auto, runs[s].ev>> = p
               /\ runs[s].work \/ runs[s].stop \/ runs[s].status # "interrupted" \/ Again(sweep, s)
        BY <2>6 DEF RunHas
      <3>2. CASE s # r
        <4>1. runs'[s] = runs[s] /\ s \in 1..Len(runs')
          BY <2>5, <3>2 DEF Wrote
        <4>2. Again(sweep, s) => Again(sweep', s)
          BY <1>0, <2>2, <2>3 DEF Again, SweepGood
        <4> QED
          BY <3>1, <4>1, <4>2 DEF RunHas
      <3>3. CASE s = r
        <4>1. CASE again
          <5>1. Again(sweep', r) /\ runs'[r] = x /\ r \in 1..Len(runs')
            BY <2>1, <2>3, <2>5, <4>1 DEF Again, Wrote
          <5> QED
            BY <2>2, <3>1, <3>3, <5>1 DEF RunHas
        <4>2. CASE ~again
          BY <2>4, <3>1, <3>3, <4>2
        <4> QED
          BY <4>1, <4>2
      <3> QED
        BY <3>2, <3>3
    <2> QED
      BY <2>2, <2>4, <2>6 DEF EventStep, KeptNext
  <1> QED
    BY <1>1, <1>2, <1>3 DEF Sweep

\* A death loses what was about to be fired or launched again: excused.
LEMMA RestartEvents ==
    ASSUME Base, Restart
    PROVE  EventStep
  <1> DEFINE fires == {task \in ToSet(ready) : task.kind \in Firing}
             answers == {task \in ToSet(ready) : task.kind = "answer"}
             again == ToSet(sweep.relaunch) \cup (IF sweep.again THEN {sweep.at} ELSE {})
  <1>1. /\ excused' = excused \cup {Key(task) : task \in fires \cup answers}
                             \cup {<<runs[r].auto, runs[r].ev>> : r \in again}
        /\ UNCHANGED <<queue, taken, late>>
    BY DEF Restart
  <1>2. \A p : TaskHas(ToSet(ready), p) => p \in excused'
    BY <1>1 DEF TaskHas, Carrying
  <1>3. ASSUME NEW p, RunHas(runs, sweep, p)
        PROVE  RunHas(runs', sweep', p) \/ p \in excused'
    <2>1. PICK r \in 1..Len(runs) :
             /\ <<runs[r].auto, runs[r].ev>> = p
             /\ runs[r].work \/ runs[r].stop \/ runs[r].status # "interrupted" \/ Again(sweep, r)
      BY <1>3 DEF RunHas
    <2>2. CASE Again(sweep, r)
      <3>1. r \in again
        BY <2>2 DEF Again
      <3> QED
        BY <1>1, <2>1, <3>1
    <2>3. CASE ~Again(sweep, r)
      <3>1. /\ r \in 1..Len(runs') /\ runs'[r].auto = runs[r].auto /\ runs'[r].ev = runs[r].ev
            /\ runs'[r].work = runs[r].work /\ runs'[r].stop = runs[r].stop
            /\ runs'[r].status = runs[r].status
        BY RestartedRuns, RunIsGood, IdleGood DEF Restart
      <3> QED
        BY <2>1, <2>3, <3>1 DEF RunHas
    <2> QED
      BY <2>2, <2>3
  <1>4. excused \subseteq excused'
    BY <1>1
  <1> QED
    BY <1>1, <1>2, <1>3, <1>4 DEF EventStep, KeptNext

LEMMA EventStepTaken ==
    ASSUME Base, Base', [Next]_vars
    PROVE  EventStep
  <1>1. ASSUME NEW e \in Events, Inbound(e) \/ CronTick(e) \/ RunNow(e) PROVE EventStep
    BY <1>1, InboundEvents, CallerEvents
  <1>2. ASSUME NEW r \in DOMAIN runs, Step(r) PROVE EventStep
    BY <1>2, RunEvents, EndEvents DEF Step
  <1>3. ASSUME NEW r \in DOMAIN runs, Person(r) PROVE EventStep
    BY <1>3, RunEvents, EndEvents, AnswerNowEvents DEF Person
  <1>4. ASSUME NEW a \in Autos, Toggle(a) PROVE EventStep
    BY <1>4, ToggleBase, EventsLeftAlone DEF Toggle, memory, history
  <1>5. CASE Shutdown
    BY <1>5, ShutdownBase, EventsLeftAlone DEF Shutdown, history
  <1>6. CASE UNCHANGED vars
    BY <1>6, NothingMoves, EventsLeftAlone DEF vars, memory, history
  <1> QED
    BY <1>1, <1>2, <1>3, <1>4, <1>5, <1>6, NextTaskEvents, SweepEvents, RestartEvents, Zenon
       DEF Next, Arrival

\* An event that was taken on is queued, about to be fired or to reach the run it answers,
\* has a run that did something or still may, or was given up and somebody told: no drain,
\* chain, sweep or stop drops one on the way.  Only a crash that catches it in memory and a
\* run that no longer waits when its answer's turn comes lose one in silence (matcher.py: _dispatch_match, _fire; runtime.py: _drain_queue_if_single,
\* sweep_orphans).
THEOREM EventIsKept == Spec => []EventKept
  <1>1. Init => EventKept
    BY DEF Init, EventKept
  <1>2. ASSUME Base, Base', EventKept, EventStep
        PROVE  EventKept'
    <2> SUFFICES ASSUME NEW p \in taken' \ (excused' \cup late') PROVE KeptNext(p)
      BY <1>2, EventKeptIs
    <2>1. p \in Autos \X Events /\ p \notin excused \cup late
      BY <1>2 DEF Base, RestTyped, EventStep
    <2>2. CASE p \in taken
      <3>1. Kept(p)
        BY <1>2, <2>1, <2>2, EventKeptIs
      <3> QED
        BY <1>2, <2>1, <3>1 DEF EventStep, Kept
    <2>3. CASE p \notin taken
      BY <1>2, <2>1, <2>3 DEF EventStep
    <2> QED
      BY <2>2, <2>3
  <1>3. Base /\ Base' /\ [Next]_vars => EventStep
    BY EventStepTaken
  <1> QED
    BY <1>1, <1>2, <1>3, AlwaysBase, BaseKept, PTL DEF Spec

---------------------------------------------------------------------------
(* An event is in one place                                                *)

\* Where the event p of an automation is: the runs that did its work or still may,
\* the tasks that will fire it and its places in the automation's queue.
RunsOf(R, w, p) ==
    {r \in 1..Len(R) : /\ <<R[r].auto, R[r].ev>> = p
                       /\ R[r].work \/ R[r].status # "interrupted" \/ Again(w, r)}
FiresOf(T, p)  == {i \in 1..Len(T) : T[i].kind \in Firing /\ Key(T[i]) = p}
PlacesIn(q, e) == {i \in 1..Len(q) : q[i] = e}

\* One element, in one of the three.
Lone(A, B, C) ==
    /\ \A x, y \in A : x = y
    /\ \A x, y \in B : x = y
    /\ \A x, y \in C : x = y
    /\ A = {} \/ B = {}
    /\ A = {} \/ C = {}
    /\ B = {} \/ C = {}
Gone(A, B, C) == A = {} /\ B = {} /\ C = {}

\* Places that are lost, or move up.
LEMMA StillLone ==
    ASSUME NEW A, NEW B, NEW C, Lone(A, B, C),
           NEW A2, NEW B2, NEW C2, A2 \subseteq A, B2 \subseteq Nat, C2 \subseteq Nat,
           NEW s \in Nat, \A i \in B2 : i + s \in B,
           NEW k \in Nat, \A i \in C2 : i + k \in C
    PROVE  Lone(A2, B2, C2) /\ (Gone(A, B, C) => Gone(A2, B2, C2))
  <1>1. \A i, j \in B2 : i = j
    <2>1. \A i, j \in B2 : i + s = j + s /\ i \in Nat /\ j \in Nat
      BY DEF Lone
    <2> QED
      BY <2>1
  <1>2. \A i, j \in C2 : i = j
    <2>1. \A i, j \in C2 : i + k = j + k /\ i \in Nat /\ j \in Nat
      BY DEF Lone
    <2> QED
      BY <2>1
  <1>3. (B = {} => B2 = {}) /\ (C = {} => C2 = {}) /\ (A = {} => A2 = {})
    OBVIOUS
  <1> QED
    BY <1>1, <1>2, <1>3 DEF Lone, Gone

\* One that moves from a place to another.
LEMMA MovedLone ==
    ASSUME NEW A, NEW B, NEW C, \E n : A \cup B \cup C \subseteq {n},
           A = {} \/ B = {}, A = {} \/ C = {}, B = {} \/ C = {}
    PROVE  Lone(A, B, C)
  BY DEF Lone

\* What becomes of the places when a sequence is extended or cut.
LEMMA FiresOfJoin ==
    ASSUME NEW s \in Seq(TaskRec), NEW t \in Seq(TaskRec), NEW p
    PROVE  \A i \in FiresOf(s \o t, p) : i \in FiresOf(s, p) \/ i - Len(s) \in FiresOf(t, p)
  <1>1. /\ Len(s) \in Nat /\ Len(t) \in Nat /\ Len(s \o t) = Len(s) + Len(t)
        /\ \A i \in 1..(Len(s) + Len(t)) : (s \o t)[i] = IF i <= Len(s) THEN s[i] ELSE t[i - Len(s)]
    BY ConcatProperties
  <1>2. \A i \in 1..(Len(s) + Len(t)) : i <= Len(s) => i \in 1..Len(s)
    BY <1>1
  <1>3. \A i \in 1..(Len(s) + Len(t)) : ~(i <= Len(s)) => i - Len(s) \in 1..Len(t)
    BY <1>1
  <1> QED
    BY <1>1, <1>2, <1>3 DEF FiresOf

LEMMA FiresOfAppend ==
    ASSUME NEW s \in Seq(TaskRec), NEW t \in TaskRec, NEW p
    PROVE  \A i \in FiresOf(Append(s, t), p) :
              i \in FiresOf(s, p) \/ (i = Len(s) + 1 /\ t.kind \in Firing /\ Key(t) = p)
  <1>1. /\ Len(s) \in Nat /\ Len(Append(s, t)) = Len(s) + 1 /\ Append(s, t)[Len(s) + 1] = t
        /\ \A i \in 1..Len(s) : Append(s, t)[i] = s[i]
    BY AppendProperties
  <1>2. \A i \in 1..(Len(s) + 1) : i \in 1..Len(s) \/ i = Len(s) + 1
    BY <1>1
  <1> QED
    BY <1>1, <1>2 DEF FiresOf

LEMMA FiresOfTail ==
    ASSUME NEW s \in Seq(TaskRec), s # <<>>, NEW p
    PROVE  /\ \A i \in FiresOf(Tail(s), p) : i + 1 \in FiresOf(s, p)
           /\ Head(s).kind \in Firing /\ Key(Head(s)) = p => 1 \in FiresOf(s, p)
  <1>1. /\ Len(s) \in Nat /\ Len(s) >= 1 /\ Len(Tail(s)) = Len(s) - 1 /\ Head(s) = s[1]
        /\ \A i \in 1..Len(Tail(s)) : Tail(s)[i] = s[i + 1] /\ i + 1 \in 1..Len(s)
    OBVIOUS
  <1>2. 1 \in 1..Len(s)
    BY <1>1
  <1> QED
    BY <1>1, <1>2 DEF FiresOf

LEMMA PlacesInAppend ==
    ASSUME NEW q \in Seq(Events), NEW e \in Events, NEW x
    PROVE  \A i \in PlacesIn(Append(q, e), x) : i \in PlacesIn(q, x) \/ (i = Len(q) + 1 /\ e = x)
  <1>1. /\ Len(q) \in Nat /\ Len(Append(q, e)) = Len(q) + 1 /\ Append(q, e)[Len(q) + 1] = e
        /\ \A i \in 1..Len(q) : Append(q, e)[i] = q[i]
    BY AppendProperties
  <1>2. \A i \in 1..(Len(q) + 1) : i \in 1..Len(q) \/ i = Len(q) + 1
    BY <1>1
  <1> QED
    BY <1>1, <1>2 DEF PlacesIn

LEMMA PlacesInRest ==
    ASSUME NEW q \in Seq(Events), NEW k \in 0..Len(q), NEW x
    PROVE  /\ SubSeq(q, k + 2, Len(q)) \in Seq(Events)
           /\ \A i \in PlacesIn(SubSeq(q, k + 2, Len(q)), x) : i + (k + 1) \in PlacesIn(q, x)
  <1> DEFINE r == SubSeq(q, k + 2, Len(q))
  <1>1. Len(q) \in Nat /\ k \in Nat /\ \A i \in (k + 2)..Len(q) : q[i] \in Events
    OBVIOUS
  <1>2. /\ r \in Seq(Events) /\ Len(r) = IF k + 2 <= Len(q) THEN Len(q) - (k + 2) + 1 ELSE 0
        /\ \A i \in 1..(Len(q) - (k + 2) + 1) : r[i] = q[(k + 2) + i - 1]
    BY <1>1, SubSeqProperties
  <1> HIDE DEF r
  <1>3. \A i \in 1..Len(r) : i + (k + 1) \in 1..Len(q) /\ (k + 2) + i - 1 = i + (k + 1)
                             /\ i \in 1..(Len(q) - (k + 2) + 1)
    BY <1>1, <1>2
  <1>4. \A i \in 1..Len(r) : r[i] = q[i + (k + 1)]
    BY <1>2, <1>3
  <1>5. \A i \in PlacesIn(r, x) : i + (k + 1) \in PlacesIn(q, x)
    BY <1>3, <1>4 DEF PlacesIn
  <1> QED
    BY <1>2, <1>5 DEF r

LEMMA NumbersOf ==
    ASSUME NEW p
    PROVE  /\ \A R, w : RunsOf(R, w, p) \subseteq Int
           /\ \A T : T \in Seq(TaskRec) => FiresOf(T, p) \subseteq Nat
           /\ \A q, e : q \in Seq(Events) => PlacesIn(q, e) \subseteq Nat \ {0}
  BY DEF RunsOf, FiresOf, PlacesIn

OnceAt(p)      == Lone(RunsOf(runs, sweep, p), FiresOf(ready, p), PlacesIn(queue[p[1]], p[2]))
OnceNext(p)    == Lone(RunsOf(runs', sweep', p), FiresOf(ready', p), PlacesIn(queue'[p[1]], p[2]))
Nowhere(p)     == Gone(RunsOf(runs, sweep, p), FiresOf(ready, p), PlacesIn(queue[p[1]], p[2]))
NowhereNext(p) == Gone(RunsOf(runs', sweep', p), FiresOf(ready', p), PlacesIn(queue'[p[1]], p[2]))

\* What a step does to an event in one place: it moves, and appears when it is taken on.
OnceStep ==
    \A p \in Autos \X Events :
        OnceAt(p) => OnceNext(p) /\ (Nowhere(p) => NowhereNext(p) \/ p \in taken' \ taken)

\* What is somewhere was taken on; what was taken on as an answer only is nowhere.
Known == \A p \in Autos \X Events : p \in taken \/ Nowhere(p)
Answered(e)     == \A a \in Autos : Nowhere(<<a, e>>)
AnsweredNext(e) == \A a \in Autos : NowhereNext(<<a, e>>)

\* A sweep launches again only what was interrupted before it did anything, once.
Relaunched(R, w) ==
    /\ \A i \in 1..Len(w.relaunch) :
          R[w.relaunch[i]].status = "interrupted" /\ ~R[w.relaunch[i]].work
    /\ \A i, j \in 1..Len(w.relaunch) : w.relaunch[i] = w.relaunch[j] => i = j
    /\ w.again => /\ R[w.at].status = "interrupted" /\ ~R[w.at].work
                  /\ \A i \in 1..Len(w.relaunch) : w.relaunch[i] # w.at

LEMMA PlacesTyped ==
    ASSUME Base, NEW p \in Autos \X Events
    PROVE  /\ RunsOf(runs, sweep, p) \subseteq Int /\ FiresOf(ready, p) \subseteq Nat
           /\ PlacesIn(queue[p[1]], p[2]) \subseteq Nat \ {0}
           /\ queue[p[1]] \in Seq(Events) /\ ready \in Seq(TaskRec)
  <1>1. queue[p[1]] \in Seq(Events) /\ ready \in Seq(TaskRec)
    BY DEF Base, RestTyped, TasksGood
  <1> QED
    BY <1>1, NumbersOf

LEMMA PlacesTypedNext ==
    ASSUME Base', NEW p \in Autos \X Events
    PROVE  /\ FiresOf(ready', p) \subseteq Nat
           /\ PlacesIn(queue'[p[1]], p[2]) \subseteq Nat \ {0}
           /\ queue'[p[1]] \in Seq(Events) /\ ready' \in Seq(TaskRec)
  <1>1. queue'[p[1]] \in Seq(Events) /\ ready' \in Seq(TaskRec)
    BY DEF Base, RestTyped, TasksGood
  <1> QED
    BY <1>1, NumbersOf

\* The runs that a step leaves an event, of those there were.
LEMMA RunsOfOld ==
    ASSUME Base, RunsStep, NEW p, NEW r \in 1..Len(runs), r \in RunsOf(runs', sweep', p),
           Again(sweep', r) => Again(sweep, r) \/ runs[r].status # "interrupted"
    PROVE  r \in RunsOf(runs, sweep, p)
  <1>1. Lawful(runs[r], runs'[r])
    BY DEF RunsStep
  <1>2. /\ <<runs[r].auto, runs[r].ev>> = p
        /\ runs'[r].work \/ runs'[r].status # "interrupted" \/ Again(sweep', r)
    BY <1>1 DEF RunsOf, Lawful
  <1>3. runs'[r].work => runs[r].work \/ runs[r].status # "interrupted"
    BY <1>1 DEF Lawful
  <1>4. runs'[r].status # "interrupted" => runs[r].status # "interrupted" \/ runs[r].work
    BY <1>1 DEF Lawful, Settled, Refinalized
  <1>5. runs[r].auto = runs'[r].auto /\ runs[r].ev = runs'[r].ev
    BY <1>1 DEF Lawful
  <1> QED
    BY <1>2, <1>3, <1>4, <1>5 DEF RunsOf

LEMMA RunsOfFewer ==
    ASSUME Base, RunsStep, Len(runs') = Len(runs),
           \A r \in 1..Len(runs) : Again(sweep', r) => Again(sweep, r) \/ runs[r].status # "interrupted"
    PROVE  \A p : RunsOf(runs', sweep', p) \subseteq RunsOf(runs, sweep, p)
  <1> SUFFICES ASSUME NEW p, NEW r \in RunsOf(runs', sweep', p) PROVE r \in RunsOf(runs, sweep, p)
    OBVIOUS
  <1>1. r \in 1..Len(runs)
    BY DEF RunsOf
  <1> QED
    BY <1>1, RunsOfOld

\* Steps that start no run and fire nothing.
LEMMA QuietOnce ==
    ASSUME Base, Base', RunsStep, Len(runs') = Len(runs), UNCHANGED queue,
           \A r \in 1..Len(runs) : Again(sweep', r) => Again(sweep, r) \/ runs[r].status # "interrupted",
           NEW s \in Nat, \A p : \A i \in FiresOf(ready', p) : i + s \in FiresOf(ready, p)
    PROVE  OnceStep
  <1> SUFFICES ASSUME NEW p \in Autos \X Events, OnceAt(p)
               PROVE  OnceNext(p) /\ (Nowhere(p) => NowhereNext(p))
    BY DEF OnceStep
  <1> DEFINE A == RunsOf(runs, sweep, p)
             B == FiresOf(ready, p)
             C == PlacesIn(queue[p[1]], p[2])
             A2 == RunsOf(runs', sweep', p)
             B2 == FiresOf(ready', p)
             C2 == PlacesIn(queue'[p[1]], p[2])
  <1>1. A2 \subseteq A
    BY RunsOfFewer
  <1>2. B2 \subseteq Nat /\ C2 \subseteq Nat
    BY PlacesTypedNext
  <1>3. C2 = C
    OBVIOUS
  <1>4. \A i \in B2 : i + s \in B
    OBVIOUS
  <1>5. Lone(A, B, C)
    BY DEF OnceAt
  <1> HIDE DEF A, B, C, A2, B2, C2
  <1>6. \A i \in C2 : i + 0 \in C
    BY <1>2, <1>3
  <1>7. Lone(A2, B2, C2) /\ (Gone(A, B, C) => Gone(A2, B2, C2))
    BY <1>1, <1>2, <1>4, <1>5, <1>6, StillLone
  <1> QED
    BY <1>7 DEF A, B, C, A2, B2, C2, OnceNext, Nowhere, NowhereNext

\* In place of tasks the step may leave, a task that fires nothing.
LEMMA NothingFired ==
    ASSUME NEW s \in Seq(TaskRec), NEW t \in TaskRec, t.kind \notin Firing, NEW p
    PROVE  \A i \in FiresOf(Append(s, t), p) : i \in FiresOf(s, p)
  BY FiresOfAppend

\* A run that is answered: its task comes last, and fires nothing.
LEMMA PrologueOnce ==
    ASSUME Base, Base', GentleStep, NEW r \in 1..Len(runs), NEW rest \in Seq(TaskRec), Prologue(r, rest),
           UNCHANGED <<queue, sweep>>,
           NEW s \in Nat, \A p : \A i \in FiresOf(rest, p) : i + s \in FiresOf(ready, p)
    PROVE  OnceStep
  <1> DEFINE t == Task("resume", runs[r].auto, runs[r].ev, r)
  <1>1. t \in TaskRec /\ t.kind \notin Firing
    BY RunIsGood, DomainOfRuns DEF Task, TaskRec, RunRec, Firing
  <1>2. ready' = Append(rest, t)
    BY DEF Prologue
  <1> HIDE DEF t
  <1>3. \A p : \A i \in FiresOf(ready', p) : i + s \in FiresOf(ready, p)
    BY <1>1, <1>2, NothingFired
  <1>4. Len(runs') = Len(runs)
    BY DEF Prologue, Base, RunsGood
  <1> QED
    BY <1>3, <1>4, QuietOnce DEF GentleStep

LEMMA AsItWas ==
    ASSUME Base
    PROVE  \A p : \A i \in FiresOf(ready, p) : i + 0 \in FiresOf(ready, p)
  <1>1. ready \in Seq(TaskRec)
    BY DEF Base, TasksGood
  <1>2. \A p : FiresOf(ready, p) \subseteq Nat
    BY <1>1, NumbersOf
  <1> QED
    BY <1>2

\* What a run does without ending, and what a person does to one.
LEMMA RunOnce ==
    ASSUME Base, Base', NEW r,
           \/ WorkStarts(r) \/ LeftRunning(r) \/ StopRunning(r) \/ AnswerNow(r) \/ Breaks(r)
           \/ \E s \in {"achieved", "completed", "failed", "rejected"} : Finish(r, s)
           \/ \E k \in {"counterpart", "help"} : Park(r, k) \/ Said(r, k)
    PROVE  OnceStep
  <1>1. CASE AnswerNow(r)
    <2>1. r \in 1..Len(runs) /\ ready \in Seq(TaskRec) /\ GentleStep
      BY <1>1, DomainOfRuns, AnswerNowBase DEF AnswerNow, Base, TasksGood
    <2>2. Prologue(r, ready) /\ UNCHANGED <<queue, sweep>>
      BY <1>1 DEF AnswerNow
    <2> QED
      BY <2>1, <2>2, AsItWas, PrologueOnce
  <1>2. CASE ~AnswerNow(r)
    <2>1. GentleStep
      BY <1>2, WorkStartsBase, LeftRunningBase, StopRunningBase, FinishBase, ParkBase, SaidBase,
         BreaksBase
    <2>2. UNCHANGED <<queue, sweep, ready>>
      BY <1>2 DEF WorkStarts, LeftRunning, StopRunning, Finish, Park, Said, Breaks, history, memory
    <2>3. Len(runs') = Len(runs)
      <3>0. runs \in Seq(RunRec)
        BY DEF Base, RunsGood
      <3>1. CASE WorkStarts(r) \/ LeftRunning(r)
        BY <3>0, <3>1 DEF WorkStarts, LeftRunning
      <3>2. CASE StopRunning(r)
        BY <3>0, <3>2 DEF StopRunning
      <3>3. ASSUME NEW k, Finish(r, k) PROVE Len(runs') = Len(runs)
        BY <3>0, <3>3 DEF Finish
      <3>4. ASSUME NEW k, Said(r, k) PROVE Len(runs') = Len(runs)
        BY <3>0, <3>4 DEF Said
      <3>5. ASSUME NEW k, Park(r, k) PROVE Len(runs') = Len(runs)
        <4> DEFINE x == [runs[r] EXCEPT !.status = "paused", !.pc = "none", !.cancel = FALSE,
                           !.says = @ \cup {k}, !.parks = @ + 1, !.guarded = FALSE,
                           !.by = IF @ = "matcher" THEN "notice" ELSE @,
                           !.waits = IF k = "counterpart" THEN OwnThread(r) ELSE NoThread]
        <4>1. r \in 1..Len(runs) /\ runs[r] \in RunRec
          BY <3>5, DomainOfRuns, RunIsGood DEF Park, Running, At
        <4>2. runs' = [runs EXCEPT ![r] = x]
          BY <3>5, <4>1 DEF Park
        <4> HIDE DEF x
        <4> QED
          BY <3>0, <4>2
      <3>6. CASE Breaks(r)
        <4> DEFINE x == [Over(runs[r]) EXCEPT !.status = IF runs[r].guarded THEN "failed" ELSE runs[r].status]
        <4>1. runs' = [runs EXCEPT ![r] = x]
          BY <3>6 DEF Breaks
        <4> HIDE DEF x
        <4> QED
          BY <3>0, <4>1
      <3> QED
        BY <1>2, <3>1, <3>2, <3>3, <3>4, <3>5, <3>6
    <2> QED
      BY <2>1, <2>2, <2>3, AsItWas, QuietOnce DEF GentleStep
  <1> QED
    BY <1>1, <1>2

\* The event p appears in one of the three, and is in none of the others any more.
LEMMA PutOnce ==
    ASSUME Base, Base', NEW s \in Nat, NEW p \in Autos \X Events,
           \A q \in (Autos \X Events) \ {p} :
              /\ RunsOf(runs', sweep', q) \subseteq RunsOf(runs, sweep, q)
              /\ \A i \in FiresOf(ready', q) : i + s \in FiresOf(ready, q)
              /\ \A i \in PlacesIn(queue'[q[1]], q[2]) : i \in PlacesIn(queue[q[1]], q[2]),
           OnceAt(p) => OnceNext(p),
           Nowhere(p) => p \in taken' \ taken
    PROVE  OnceStep
  <1> SUFFICES ASSUME NEW q \in (Autos \X Events) \ {p}, OnceAt(q)
               PROVE  OnceNext(q) /\ (Nowhere(q) => NowhereNext(q))
    BY DEF OnceStep
  <1> DEFINE A == RunsOf(runs, sweep, q)
             B == FiresOf(ready, q)
             C == PlacesIn(queue[q[1]], q[2])
             A2 == RunsOf(runs', sweep', q)
             B2 == FiresOf(ready', q)
             C2 == PlacesIn(queue'[q[1]], q[2])
  <1>1. A2 \subseteq A /\ \A i \in B2 : i + s \in B
    OBVIOUS
  <1>2. B2 \subseteq Nat /\ C2 \subseteq Nat
    BY PlacesTypedNext
  <1>3. \A i \in C2 : i \in C
    OBVIOUS
  <1>4. Lone(A, B, C)
    BY DEF OnceAt
  <1> HIDE DEF A, B, C, A2, B2, C2
  <1>5. \A i \in C2 : i + 0 \in C
    BY <1>2, <1>3
  <1>6. Lone(A2, B2, C2) /\ (Gone(A, B, C) => Gone(A2, B2, C2))
    BY <1>1, <1>2, <1>4, <1>5, StillLone
  <1> QED
    BY <1>6 DEF A, B, C, A2, B2, C2, OnceNext, Nowhere, NowhereNext

\* It is put at the end of its queue.
LEMMA QueuedOnce ==
    ASSUME Base, Base', RunsStep, Len(runs') = Len(runs), UNCHANGED sweep,
           NEW a \in Autos, NEW e \in Events, queue' = [queue EXCEPT ![a] = Append(@, e)],
           NEW s \in Nat, \A q : \A i \in FiresOf(ready', q) : i + s \in FiresOf(ready, q),
           OnceAt(<<a, e>>) => /\ RunsOf(runs, sweep, <<a, e>>) = {}
                               /\ FiresOf(ready', <<a, e>>) = {}
                               /\ PlacesIn(queue[a], e) = {},
           Nowhere(<<a, e>>) => <<a, e>> \in taken' \ taken
    PROVE  OnceStep
  <1> DEFINE p == <<a, e>>
  <1>1. \A q : RunsOf(runs', sweep', q) \subseteq RunsOf(runs, sweep, q)
    BY RunsOfFewer
  <1>2. /\ queue[a] \in Seq(Events) /\ queue'[a] = Append(queue[a], e)
        /\ \A b \in Autos : b # a => queue'[b] = queue[b]
    BY DEF Base, RestTyped
  <1>3. ASSUME NEW q \in (Autos \X Events) \ {p}, NEW i \in PlacesIn(queue'[q[1]], q[2])
        PROVE  i \in PlacesIn(queue[q[1]], q[2])
    <2>1. CASE q[1] # a
      BY <1>2, <1>3, <2>1
    <2>2. CASE q[1] = a
      <3>1. q[2] # e /\ q[2] \in Events
        BY <2>2
      <3> QED
        BY <1>2, <1>3, <2>2, <3>1, PlacesInAppend
    <2> QED
      BY <2>1, <2>2
  <1>4. ASSUME OnceAt(p) PROVE OnceNext(p)
    <2>1. RunsOf(runs', sweep', p) = {} /\ FiresOf(ready', p) = {}
      BY <1>1, <1>4
    <2>2. \A i \in PlacesIn(queue'[a], e) : i = Len(queue[a]) + 1
      BY <1>2, <1>4, PlacesInAppend
    <2> DEFINE C == PlacesIn(queue'[a], e)
    <2>3. PlacesIn(queue'[p[1]], p[2]) = C
      OBVIOUS
    <2> HIDE DEF C, p
    <2>4. Lone({}, {}, C)
      BY <2>2 DEF Lone, C
    <2> QED
      BY <2>1, <2>3, <2>4 DEF OnceNext
  <1>5. p \in Autos \X Events /\ (Nowhere(p) => p \in taken' \ taken)
    OBVIOUS
  <1> HIDE DEF p
  <1> QED
    BY <1>1, <1>3, <1>4, <1>5, PutOnce

\* A run starts for it.
LEMMA StartedOnce ==
    ASSUME Base, Base', RunsStep, UNCHANGED <<sweep, queue>>,
           NEW a \in Autos, NEW e \in Events, NEW by \in {"matcher", "task", "caller"},
           runs' = Append(runs, NewRun(a, e, by)),
           NEW s \in Nat, \A q : \A i \in FiresOf(ready', q) : i + s \in FiresOf(ready, q),
           OnceAt(<<a, e>>) => /\ RunsOf(runs, sweep, <<a, e>>) = {}
                               /\ FiresOf(ready', <<a, e>>) = {}
                               /\ PlacesIn(queue[a], e) = {},
           Nowhere(<<a, e>>) => <<a, e>> \in taken' \ taken
    PROVE  OnceStep
  <1> DEFINE p == <<a, e>>
             x == NewRun(a, e, by)
             n == Len(runs) + 1
  <1>1. Added(runs, runs', x)
    BY RunStarted
  <1>2. x.auto = a /\ x.ev = e
    BY DEF NewRun
  <1> HIDE DEF x
  <1>3. /\ runs'[n].auto = a /\ runs'[n].ev = e /\ Len(runs) \in Nat
        /\ \A r \in 1..Len(runs') : r \in 1..Len(runs) \/ r = n
    BY <1>1, <1>2 DEF Added
  <1>4. ASSUME NEW q, NEW r \in RunsOf(runs', sweep', q)
        PROVE  r \in RunsOf(runs, sweep, q) \/ (r = n /\ q = p)
    <2>1. r \in 1..Len(runs') /\ <<runs'[r].auto, runs'[r].ev>> = q
      BY <1>4 DEF RunsOf
    <2>2. CASE r \in 1..Len(runs)
      BY <1>4, <2>2, RunsOfOld
    <2>3. CASE r = n
      BY <1>3, <2>1, <2>3
    <2> QED
      BY <1>3, <2>1, <2>2, <2>3
  <1>5. ASSUME OnceAt(p) PROVE OnceNext(p)
    <2>1. FiresOf(ready', p) = {} /\ PlacesIn(queue'[a], e) = {}
      BY <1>5
    <2>2. \A r \in RunsOf(runs', sweep', p) : r = n
      BY <1>4, <1>5
    <2> DEFINE A == RunsOf(runs', sweep', p)
    <2>3. PlacesIn(queue'[p[1]], p[2]) = {}
      BY <2>1
    <2> HIDE DEF A, p
    <2>4. Lone(A, {}, {})
      BY <2>2 DEF Lone, A
    <2> QED
      BY <2>1, <2>3, <2>4 DEF OnceNext, A
  <1>6. p \in Autos \X Events /\ (Nowhere(p) => p \in taken' \ taken)
    OBVIOUS
  <1> HIDE DEF p
  <1>7. ASSUME NEW q \in (Autos \X Events) \ {p}
        PROVE  RunsOf(runs', sweep', q) \subseteq RunsOf(runs, sweep, q)
    BY <1>4
  <1>8. \A q \in Autos \X Events : PlacesIn(queue'[q[1]], q[2]) = PlacesIn(queue[q[1]], q[2])
    OBVIOUS
  <1> QED
    BY <1>5, <1>6, <1>7, <1>8, PutOnce

LEMMA NotSeen ==
    ASSUME Base, Known, NEW e \in Events, ~Seen(e)
    PROVE  /\ AutoOf[e] \in Autos /\ Nowhere(<<AutoOf[e], e>>)
           /\ <<AutoOf[e], e>> \notin taken /\ Answered(e)
           /\ RunsOf(runs, sweep, <<AutoOf[e], e>>) = {}
           /\ FiresOf(ready, <<AutoOf[e], e>>) = {}
           /\ PlacesIn(queue[AutoOf[e]], e) = {}
  <1>1. AutoOf[e] \in Autos
    BY EventAssumption
  <1>2. Nowhere(<<AutoOf[e], e>>) /\ <<AutoOf[e], e>> \notin taken /\ Answered(e)
    BY <1>1 DEF Known, Seen, Answered
  <1> QED
    BY <1>1, <1>2 DEF Nowhere, Gone

LEMMA CallerOnce ==
    ASSUME Base, Base', Known, NEW e \in Events, CronTick(e) \/ RunNow(e)
    PROVE  OnceStep
  <1> DEFINE a == AutoOf[e]
  <1>1. /\ runs' = Append(runs, NewRun(a, e, "caller")) /\ ~Seen(e)
        /\ taken' = taken \cup {<<a, e>>} /\ UNCHANGED <<queue, ready, sweep>>
    BY DEF CronTick, RunNow, memory
  <1>2. RunsStep
    BY CallerBase DEF GentleStep
  <1>3. /\ a \in Autos /\ RunsOf(runs, sweep, <<a, e>>) = {} /\ FiresOf(ready, <<a, e>>) = {}
        /\ PlacesIn(queue[a], e) = {} /\ <<a, e>> \notin taken
    BY <1>1, NotSeen
  <1>4. \A q : \A i \in FiresOf(ready', q) : i + 0 \in FiresOf(ready, q)
    BY <1>1, AsItWas
  <1> HIDE DEF a
  <1> QED
    BY <1>1, <1>2, <1>3, <1>4, StartedOnce

LEMMA InboundOnce ==
    ASSUME Base, Base', Known, NEW e \in Events, Inbound(e)
    PROVE  OnceStep
  <1> DEFINE a == AutoOf[e]
             fire == Task("fire", a, e, NoRun)
             answer == Task("answer", runs[claims[ThreadOf[e]]].auto, e, claims[ThreadOf[e]])
  <1>1. /\ ready \in Seq(TaskRec) /\ UNCHANGED <<runs, sweep>> /\ ~Seen(e)
        /\ RunsStep /\ Len(runs') = Len(runs)
    BY NoRunChanges DEF Base, TasksGood, Inbound, GentleStep
  <1>2. /\ a \in Autos /\ RunsOf(runs, sweep, <<a, e>>) = {} /\ FiresOf(ready, <<a, e>>) = {}
        /\ PlacesIn(queue[a], e) = {} /\ <<a, e>> \notin taken
    BY <1>1, NotSeen
  <1>3. CASE ready' = Append(ready, answer) /\ claims[ThreadOf[e]] # NoRun /\ UNCHANGED queue
    <2>1. answer \in TaskRec /\ answer.kind \notin Firing
      <3>1. claims[ThreadOf[e]] \in 1..Len(runs) /\ claims[ThreadOf[e]] \in Nat
        <4>1. ThreadOf[e] \in Threads
          BY EventAssumption DEF Inbound
        <4> QED
          BY <1>3, <4>1, DomainOfRuns DEF Base, RestTyped, NoRun
      <3>2. runs[claims[ThreadOf[e]]].auto \in Autos
        BY <3>1, RunIsGood DEF RunRec
      <3> QED
        BY <3>1, <3>2 DEF Task, TaskRec, Firing
    <2> HIDE DEF answer
    <2>2. \A q : \A i \in FiresOf(ready', q) : i + 0 \in FiresOf(ready, q)
      BY <1>1, <1>3, <2>1, NothingFired, AsItWas
    <2> QED
      BY <1>1, <1>3, <2>2, QuietOnce
  <1>4. CASE /\ taken' = taken \cup {<<a, e>>} /\ queue' = [queue EXCEPT ![a] = Append(@, e)]
             /\ UNCHANGED ready
    <2>1. \A q : \A i \in FiresOf(ready', q) : i + 0 \in FiresOf(ready, q)
      BY <1>4, AsItWas
    <2> HIDE DEF a
    <2> QED
      BY <1>1, <1>2, <1>4, <2>1, QueuedOnce
  <1>5. CASE /\ taken' = taken \cup {<<a, e>>} /\ ready' = Append(ready, fire) /\ UNCHANGED queue
    <2> DEFINE p == <<a, e>>
    <2>1. fire \in TaskRec /\ Key(fire) = p /\ p \in Autos \X Events
      BY <1>2 DEF Task, TaskRec, Firing, Key, NoRun
    <2> HIDE DEF fire
    <2>2. \A q : \A i \in FiresOf(ready', q) : i \in FiresOf(ready, q) \/ (i = Len(ready) + 1 /\ q = p)
      BY <1>1, <1>5, <2>1, FiresOfAppend
    <2>3. \A q : RunsOf(runs', sweep', q) = RunsOf(runs, sweep, q)
      BY <1>1
    <2>4. OnceNext(p)
      <3>1. RunsOf(runs', sweep', p) = {} /\ PlacesIn(queue'[a], e) = {}
        BY <1>2, <1>5, <2>3
      <3>2. \A i \in FiresOf(ready', p) : i = Len(ready) + 1
        BY <1>2, <2>2
      <3>3. PlacesIn(queue'[p[1]], p[2]) = {}
        BY <3>1
      <3> DEFINE B == FiresOf(ready', p)
      <3> HIDE DEF B, p
      <3>4. Lone({}, B, {})
        BY <3>2 DEF Lone, B
      <3> QED
        BY <3>1, <3>3, <3>4 DEF OnceNext, B
    <2>5. \A q : \A i \in FiresOf(ready, q) : i + 0 \in FiresOf(ready, q)
      BY AsItWas
    <2>6. p \in taken' \ taken
      BY <1>2, <1>5
    <2> HIDE DEF a, p
    <2>7. ASSUME NEW q \in (Autos \X Events) \ {p}, NEW i \in FiresOf(ready', q)
          PROVE  i + 0 \in FiresOf(ready, q)
      <3>1. i \in FiresOf(ready, q)
        BY <2>2, <2>7
      <3> QED
        BY <2>5, <3>1
    <2>8. \A q : PlacesIn(queue'[q[1]], q[2]) = PlacesIn(queue[q[1]], q[2])
      BY <1>5
    <2> QED
      BY <2>1, <2>3, <2>4, <2>6, <2>7, <2>8, PutOnce
  <1>6. CASE UNCHANGED <<queue, ready>>
    <2>1. \A q : \A i \in FiresOf(ready', q) : i + 0 \in FiresOf(ready, q)
      BY <1>6, AsItWas
    <2> QED
      BY <1>1, <1>6, <2>1, QuietOnce
  <1> QED
    BY <1>3, <1>4, <1>5, <1>6 DEF Inbound, DispatchMatch

\* The event of the first task, which fires: when it is in one place, that is the place.
LEMMA HeadAlone ==
    ASSUME Base, ready # <<>>, Head(ready).kind \in Firing, NEW a, NEW e, Key(Head(ready)) = <<a, e>>
    PROVE  /\ ~Nowhere(<<a, e>>)
           /\ OnceAt(<<a, e>>) => /\ RunsOf(runs, sweep, <<a, e>>) = {}
                                  /\ FiresOf(Tail(ready), <<a, e>>) = {}
                                  /\ PlacesIn(queue[a], e) = {}
  <1> DEFINE p == <<a, e>>
             A == RunsOf(runs, sweep, p)
             B == FiresOf(ready, p)
             B2 == FiresOf(Tail(ready), p)
             C == PlacesIn(queue[a], e)
  <1>1. ready \in Seq(TaskRec)
    BY DEF Base, TasksGood
  <1>2. 1 \in B /\ \A i \in B2 : i + 1 \in B
    BY <1>1, FiresOfTail
  <1>3. B2 \subseteq 1..Len(Tail(ready)) /\ Len(Tail(ready)) \in Nat
    BY <1>1 DEF FiresOf
  <1>4. OnceAt(p) => Lone(A, B, C)
    BY DEF OnceAt
  <1>5. Nowhere(p) => B = {}
    BY DEF Nowhere, Gone
  <1> HIDE DEF A, B, B2, C, p
  <1>6. ASSUME Lone(A, B, C) PROVE A = {} /\ B2 = {} /\ C = {}
    <2>1. A = {} /\ C = {}
      BY <1>2, <1>6 DEF Lone
    <2>2. ASSUME NEW i \in B2 PROVE FALSE
      <3>1. i + 1 = 1 /\ i \in Nat /\ i >= 1
        BY <1>2, <1>3, <1>6, <2>2 DEF Lone
      <3> QED
        BY <3>1
    <2> QED
      BY <2>1, <2>2
  <1>7. ~Nowhere(p) /\ (OnceAt(p) => A = {} /\ B2 = {} /\ C = {})
    BY <1>2, <1>4, <1>5, <1>6
  <1> QED
    BY <1>7 DEF A, B2, C, p

LEMMA FireTaskOnce ==
    ASSUME Base, Base', ready # <<>>, FireTask(Head(ready))
    PROVE  OnceStep
  <1> DEFINE task == Head(ready)
             a == task.auto
             e == task.ev
             by == IF task.kind = "fire" THEN "matcher" ELSE "task"
  <1>1. ready \in Seq(TaskRec) /\ task \in TaskRec
    BY TasksShortened DEF Base, TasksGood
  <1>2. a \in Autos /\ e \in Events /\ Key(task) = <<a, e>> /\ task.kind \in Firing
        /\ by \in {"matcher", "task", "caller"}
    BY <1>1 DEF TaskRec, Key, FireTask
  <1>3. /\ ~Nowhere(<<a, e>>)
        /\ OnceAt(<<a, e>>) => /\ RunsOf(runs, sweep, <<a, e>>) = {}
                               /\ FiresOf(Tail(ready), <<a, e>>) = {}
                               /\ PlacesIn(queue[a], e) = {}
    BY <1>2, HeadAlone
  <1>4. ready' = Tail(ready) /\ UNCHANGED sweep
    BY DEF FireTask
  <1>5. \A q : \A i \in FiresOf(ready', q) : i + 1 \in FiresOf(ready, q)
    BY <1>1, <1>4, FiresOfTail
  <1>6. RunsStep
    BY FireTaskBase DEF GentleStep
  <1>7. \/ runs' = Append(runs, NewRun(a, e, by)) /\ UNCHANGED queue
        \/ queue' = [queue EXCEPT ![a] = Append(@, e)] /\ UNCHANGED runs
        \/ UNCHANGED <<queue, runs>>
    BY DEF FireTask
  <1> HIDE DEF task, a, e, by
  <1>8. CASE runs' = Append(runs, NewRun(a, e, by)) /\ UNCHANGED queue
    BY <1>2, <1>3, <1>4, <1>5, <1>6, <1>8, StartedOnce
  <1>9. CASE queue' = [queue EXCEPT ![a] = Append(@, e)] /\ UNCHANGED runs
    BY <1>2, <1>3, <1>4, <1>5, <1>6, <1>9, QueuedOnce
  <1>10. CASE UNCHANGED <<queue, runs>>
    BY <1>4, <1>5, <1>6, <1>10, QuietOnce
  <1> QED
    BY <1>7, <1>8, <1>9, <1>10

LEMMA NextTaskOnce ==
    ASSUME Base, Base', NextTask
    PROVE  OnceStep
  <1> DEFINE task == Head(ready)
             rest == Tail(ready)
  <1>1. ready # <<>> /\ (FireTask(task) \/ AnswerTask(task) \/ ResumeTask(task))
    BY DEF NextTask
  <1>2. /\ ready \in Seq(TaskRec) /\ rest \in Seq(TaskRec) /\ TaskGood(task, runs)
        /\ \A q : \A i \in FiresOf(rest, q) : i + 1 \in FiresOf(ready, q)
    BY <1>1, TasksShortened, FiresOfTail DEF Base, TasksGood
  <1>3. CASE AnswerTask(task)
    <2>1. GentleStep /\ task.run \in 1..Len(runs) /\ UNCHANGED <<queue, sweep>>
      BY <1>1, <1>2, <1>3, AnswerTaskBase DEF AnswerTask, TaskGood
    <2>2. CASE Prologue(task.run, rest)
      <3> HIDE DEF rest, task
      <3> QED
        BY <1>2, <2>1, <2>2, PrologueOnce
    <2>3. CASE ready' = rest /\ UNCHANGED runs
      <3>1. \A q : \A i \in FiresOf(ready', q) : i + 1 \in FiresOf(ready, q)
        BY <1>2, <2>3
      <3> QED
        BY <2>1, <2>3, <3>1, QuietOnce DEF GentleStep
    <2> QED
      BY <1>3, <2>2, <2>3 DEF AnswerTask
  <1>4. CASE ResumeTask(task)
    <2>1. GentleStep /\ UNCHANGED <<queue, sweep>> /\ ready' = rest
      BY <1>1, <1>4, ResumeTaskBase DEF ResumeTask, history
    <2>2. Len(runs') = Len(runs)
      BY <1>4 DEF ResumeTask, Base, RunsGood
    <2>3. \A q : \A i \in FiresOf(ready', q) : i + 1 \in FiresOf(ready, q)
      BY <1>2, <2>1
    <2> QED
      BY <2>1, <2>2, <2>3, QuietOnce DEF GentleStep
  <1> QED
    BY <1>1, <1>3, <1>4, FireTaskOnce

\* What a drain does to an event: it loses the places of those that expired, and moves
\* the oldest that is left from the queue to a task.
LEMMA DrainOnce ==
    ASSUME Base, Base', NEW a \in Autos, NEW wanted, NEW chained \in Seq(TaskRec), Drain(a, wanted, chained)
    PROVE  \E base \in Seq(TaskRec) :
              /\ ready' = base \o chained
              /\ \A p \in Autos \X Events : \A A :
                    Lone(A, FiresOf(ready, p), PlacesIn(queue[p[1]], p[2]))
                      => /\ Lone(A, FiresOf(base, p), PlacesIn(queue'[p[1]], p[2]))
                         /\ Gone(A, FiresOf(ready, p), PlacesIn(queue[p[1]], p[2]))
                              => Gone(A, FiresOf(base, p), PlacesIn(queue'[p[1]], p[2]))
  <1>1. ready \in Seq(TaskRec)
    BY DEF Base, TasksGood
  <1>2. CASE ~(wanted /\ a \in Single)
    BY <1>1, <1>2 DEF Drain
  <1>3. CASE wanted /\ a \in Single
    <2> DEFINE q == queue[a]
    <2>1. PICK k \in 0..Len(q) :
             /\ queue' = [queue EXCEPT ![a] = SubSeq(@, k + 2, Len(@))]
             /\ ready' = (IF k < Len(q) THEN Append(ready, Task("drain", a, q[k + 1], NoRun)) ELSE ready)
                           \o chained
      BY <1>3 DEF Drain
    <2>2. /\ q \in Seq(Events) /\ Len(q) \in Nat /\ k \in Nat
          /\ queue'[a] = SubSeq(q, k + 2, Len(q))
          /\ \A b \in Autos : b # a => queue'[b] = queue[b]
      BY <2>1 DEF Base, RestTyped
    <2> DEFINE task == Task("drain", a, q[k + 1], NoRun)
               base == IF k < Len(q) THEN Append(ready, task) ELSE ready
    <2>3. k < Len(q) => /\ k + 1 \in 1..Len(q) /\ q[k + 1] \in Events
                        /\ task \in TaskRec /\ Key(task) = <<a, q[k + 1]>>
      <3> SUFFICES ASSUME k < Len(q)
                   PROVE  /\ k + 1 \in 1..Len(q) /\ q[k + 1] \in Events
                          /\ task \in TaskRec /\ Key(task) = <<a, q[k + 1]>>
        OBVIOUS
      <3>1. k + 1 \in 1..Len(q)
        BY <2>2
      <3>2. q[k + 1] \in Events /\ "drain" \in Firing /\ NoRun \in Nat
        BY <2>2, <3>1 DEF Firing, NoRun
      <3> QED
        BY <3>1, <3>2 DEF Task, TaskRec, Key
    <2>4. ready' = base \o chained
      BY <2>1
    <2> HIDE DEF task
    <2>5. base \in Seq(TaskRec)
      BY <1>1, <2>3
    <2>6. ASSUME NEW p \in Autos \X Events, NEW i \in FiresOf(base, p)
          PROVE  \/ i \in FiresOf(ready, p)
                 \/ i = Len(ready) + 1 /\ k < Len(q) /\ p = <<a, q[k + 1]>>
      <3>1. CASE k < Len(q)
        BY <1>1, <2>3, <2>6, <3>1, FiresOfAppend
      <3>2. CASE ~(k < Len(q))
        BY <2>6, <3>2
      <3> QED
        BY <3>1, <3>2
    <2> HIDE DEF base
    <2>7. ASSUME NEW p \in Autos \X Events, NEW A,
                 Lone(A, FiresOf(ready, p), PlacesIn(queue[p[1]], p[2]))
          PROVE  /\ Lone(A, FiresOf(base, p), PlacesIn(queue'[p[1]], p[2]))
                 /\ Gone(A, FiresOf(ready, p), PlacesIn(queue[p[1]], p[2]))
                      => Gone(A, FiresOf(base, p), PlacesIn(queue'[p[1]], p[2]))
      <3> DEFINE B  == FiresOf(ready, p)
                 C  == PlacesIn(queue[p[1]], p[2])
                 B2 == FiresOf(base, p)
                 C2 == PlacesIn(queue'[p[1]], p[2])
                 n  == IF p[1] = a THEN k + 1 ELSE 0
      <3>1. B2 \subseteq Nat /\ C2 \subseteq Nat \ {0} /\ n \in Nat
        <4>1. B2 \subseteq Nat
          BY <2>5, NumbersOf
        <4>2. C2 \subseteq Nat \ {0}
          <5>1. queue'[p[1]] \in Seq(Events)
            BY PlacesTypedNext
          <5> QED
            BY <5>1, NumbersOf
        <4>3. n \in Nat
          BY <2>2
        <4> QED
          BY <4>1, <4>2, <4>3
      <3>2. \A i \in C2 : i + n \in C
        <4>1. CASE p[1] = a
          BY <2>2, <4>1, PlacesInRest
        <4>2. CASE p[1] # a
          <5>1. C2 = C /\ n = 0
            BY <2>2, <4>2
          <5> QED
            BY <3>1, <5>1
        <4> QED
          BY <4>1, <4>2
      <3>3. \A i \in B2 : i \in B \/ (i = Len(ready) + 1 /\ k < Len(q) /\ p = <<a, q[k + 1]>>)
        BY <2>6
      <3>4. k < Len(q) /\ p = <<a, q[k + 1]>> => k + 1 \in C /\ n = k + 1
        BY <2>2, <2>3 DEF PlacesIn
      <3>5. Lone(A, B, C)
        BY <2>7
      <3> HIDE DEF B, C, B2, C2, n
      <3>6. CASE ~(k < Len(q) /\ p = <<a, q[k + 1]>>)
        <4>0. \A i \in B2 : i \in B /\ i \in Nat
          BY <3>1, <3>3, <3>6, Zenon
        <4>1. \A i \in B2 : i + 0 \in B
          BY <4>0
        <4>2. Lone(A, B2, C2) /\ (Gone(A, B, C) => Gone(A, B2, C2))
          BY <3>1, <3>2, <3>5, <4>1, StillLone
        <4> QED
          BY <4>2 DEF B, C, B2, C2
      <3>7. CASE k < Len(q) /\ p = <<a, q[k + 1]>>
        <4>1. A = {} /\ B = {} /\ k + 1 \in C /\ n = k + 1 /\ \A i, j \in C : i = j
          BY <3>4, <3>5, <3>7 DEF Lone
        <4>2. C2 = {}
          <5> SUFFICES ASSUME NEW i \in C2 PROVE FALSE
            OBVIOUS
          <5>1. i + n = k + 1 /\ i \in Nat \ {0}
            BY <3>1, <3>2, <4>1
          <5> QED
            BY <2>2, <4>1, <5>1
        <4>3. \A i \in B2 : i = Len(ready) + 1
          BY <3>3, <4>1
        <4>4. Lone(A, B2, C2) /\ ~Gone(A, B, C)
          BY <4>1, <4>2, <4>3 DEF Lone, Gone
        <4> QED
          BY <4>4 DEF B, C, B2, C2
      <3> QED
        BY <3>6, <3>7
    <2> QED
      BY <2>4, <2>5, <2>7
  <1> QED
    BY <1>2, <1>3

LEMMA DrainedOnce ==
    ASSUME Base, Base', RunsStep, Len(runs') = Len(runs), UNCHANGED sweep,
           NEW a \in Autos, NEW wanted, Drain(a, wanted, <<>>)
    PROVE  OnceStep
  <1>1. <<>> \in Seq(TaskRec)
    OBVIOUS
  <1>2. PICK base \in Seq(TaskRec) :
              /\ ready' = base \o <<>>
              /\ \A p \in Autos \X Events : \A A :
                    Lone(A, FiresOf(ready, p), PlacesIn(queue[p[1]], p[2]))
                      => /\ Lone(A, FiresOf(base, p), PlacesIn(queue'[p[1]], p[2]))
                         /\ Gone(A, FiresOf(ready, p), PlacesIn(queue[p[1]], p[2]))
                              => Gone(A, FiresOf(base, p), PlacesIn(queue'[p[1]], p[2]))
    BY <1>1, DrainOnce
  <1>3. ready' = base
    BY <1>2
  <1>4. \A p : RunsOf(runs', sweep', p) \subseteq RunsOf(runs, sweep, p)
    BY RunsOfFewer
  <1> SUFFICES ASSUME NEW p \in Autos \X Events, OnceAt(p)
               PROVE  OnceNext(p) /\ (Nowhere(p) => NowhereNext(p))
    BY DEF OnceStep
  <1> DEFINE A == RunsOf(runs, sweep, p)
             B == FiresOf(ready, p)
             C == PlacesIn(queue[p[1]], p[2])
             A2 == RunsOf(runs', sweep', p)
             B2 == FiresOf(ready', p)
             C2 == PlacesIn(queue'[p[1]], p[2])
  <1>5. Lone(A, B2, C2) /\ (Gone(A, B, C) => Gone(A, B2, C2))
    BY <1>2, <1>3 DEF OnceAt
  <1>6. A2 \subseteq A
    BY <1>4
  <1> HIDE DEF A, B, C, A2, B2, C2
  <1>7. Lone(A2, B2, C2) /\ (Gone(A, B, C) => Gone(A2, B2, C2))
    BY <1>5, <1>6 DEF Lone, Gone
  <1> QED
    BY <1>7 DEF A, B, C, A2, B2, C2, OnceNext, Nowhere, NowhereNext

\* The automations that the end of a run fires, and the events it takes on for them.
Fired(r) == {c \in Chain[runs[r].auto] : Chained(r) # <<>> /\ enabled[c]}

\* A run that ends, when what it fires was nowhere before.
LEMMA WrapOnce ==
    ASSUME Base, Base', RunsStep, Len(runs') = Len(runs), NEW r \in 1..Len(runs), NEW off, Wrap(r, off),
           \A b \in Fired(r) : Nowhere(<<b, runs[r].ev>>) /\ <<b, runs[r].ev>> \notin taken
    PROVE  OnceStep
  <1> DEFINE a == runs[r].auto
             e == runs[r].ev
  <1>1. a \in Autos /\ e \in Events
    BY RunIsGood DEF RunRec
  <1>2. taken' = taken \cup {<<b, e>> : b \in Fired(r)}
    BY DEF Wrap, Fired
  <1>20. PICK w : Drain(a, w, Chained(r))
    <2> DEFINE wanted == ~off /\ runs[r].spec
    <2>1. Housekeeping(a, wanted, Chained(r))
      BY DEF Wrap
    <2> HIDE DEF wanted
    <2>2. KeptUp(a, wanted, Chained(r))
      BY <2>1, HousekeepingDrains
    <2> QED
      BY <2>2 DEF KeptUp
  <1>3. Chained(r) \in Seq(TaskRec)
    BY ChainedGood
  <1>4. PICK base \in Seq(TaskRec) :
              /\ ready' = base \o Chained(r)
              /\ \A p \in Autos \X Events : \A A :
                    Lone(A, FiresOf(ready, p), PlacesIn(queue[p[1]], p[2]))
                      => /\ Lone(A, FiresOf(base, p), PlacesIn(queue'[p[1]], p[2]))
                         /\ Gone(A, FiresOf(ready, p), PlacesIn(queue[p[1]], p[2]))
                              => Gone(A, FiresOf(base, p), PlacesIn(queue'[p[1]], p[2]))
    BY <1>1, <1>20, <1>3, DrainOnce
  <1>5. \A p : \A i \in FiresOf(ready', p) : i \in FiresOf(base, p) \/ i - Len(base) \in FiresOf(Chained(r), p)
    BY <1>3, <1>4, FiresOfJoin
  <1>6. /\ Len(Chained(r)) \in Nat /\ Len(base) \in Nat
        /\ \A i \in 1..Len(Chained(r)) : Chained(r)[i] \in ToSet(Chained(r))
    BY <1>3 DEF ToSet
  <1>7. \A i \in 1..Len(Chained(r)) :
           \E b \in Fired(r) : Chained(r)[i] = Task("chain", b, e, NoRun)
    <2>1. CASE runs[r].status \in ChainWhen
      <3> SUFFICES ASSUME NEW i \in 1..Len(Chained(r))
                   PROVE  \E b \in Fired(r) : Chained(r)[i] = Task("chain", b, e, NoRun)
        OBVIOUS
      <3>1. Chained(r) # <<>>
        BY <1>6
      <3>2. Chained(r)[i] \in {Task("chain", b, e, NoRun) : b \in {c \in Chain[a] : enabled[c]}}
        BY <1>6, <2>1, ChainedGood
      <3> QED
        BY <3>1, <3>2 DEF Fired
    <2>2. CASE runs[r].status \notin ChainWhen
      BY <2>2 DEF Chained
    <2> QED
      BY <2>1, <2>2
  <1>8. \A i \in 1..Len(Chained(r)) :
           /\ Chained(r)[i] = Task("chain", Key(Chained(r)[i])[1], e, NoRun)
           /\ \E b \in Fired(r) : Key(Chained(r)[i]) = <<b, e>>
    <2> SUFFICES ASSUME NEW i \in 1..Len(Chained(r))
                 PROVE  /\ Chained(r)[i] = Task("chain", Key(Chained(r)[i])[1], e, NoRun)
                        /\ \E b \in Fired(r) : Key(Chained(r)[i]) = <<b, e>>
      OBVIOUS
    <2> DEFINE t == Chained(r)[i]
    <2>1. PICK b \in Fired(r) : t = Task("chain", b, e, NoRun)
      BY <1>7
    <2> HIDE DEF t, e
    <2>2. Key(t) = <<b, e>>
      BY <2>1 DEF Task, Key
    <2>3. Key(t)[1] = b
      BY <2>2
    <2> QED
      BY <2>1, <2>2, <2>3 DEF t
  <1>9. \A i, j \in 1..Len(Chained(r)) : Chained(r)[i] = Chained(r)[j] => i = j
    BY ChainedGood
  <1>10. ASSUME NEW p
         PROVE  /\ \A i, j \in FiresOf(Chained(r), p) : i = j
                /\ FiresOf(Chained(r), p) # {} => \E b \in Fired(r) : p = <<b, e>>
                /\ FiresOf(Chained(r), p) \subseteq Nat
    BY <1>6, <1>8, <1>9 DEF FiresOf
  <1>11. ASSUME NEW s \in 1..Len(runs), Again(sweep', s)
         PROVE  Again(sweep, s)
    <2>1. CASE sweep.at # r
      BY <1>11, <2>1 DEF Wrap
    <2>2. CASE sweep.at = r
      <3>1. SweepGood(sweep, runs)
        BY DEF Base
      <3> DEFINE again == IF sweep.again THEN Append(sweep.relaunch, r) ELSE sweep.relaunch
      <3>2. sweep'.relaunch = again /\ sweep'.again = FALSE
        BY <2>2, <3>1 DEF Wrap, SweepGood
      <3>3. sweep.relaunch \in Seq(Nat) /\ r \in Nat
        BY <3>1, DomainOfRuns DEF SweepGood
      <3>4. ToSet(Append(sweep.relaunch, r)) = ToSet(sweep.relaunch) \cup {r}
        BY <3>3, SetOfAppend
      <3>5. ToSet(again) = ToSet(sweep.relaunch) \cup (IF sweep.again THEN {r} ELSE {})
        BY <3>4
      <3> HIDE DEF again
      <3> QED
        BY <1>11, <2>2, <3>2, <3>5 DEF Again
    <2> QED
      BY <2>1, <2>2
  <1>12. \A p : RunsOf(runs', sweep', p) \subseteq RunsOf(runs, sweep, p)
    BY <1>11, RunsOfFewer
  <1> SUFFICES ASSUME NEW p \in Autos \X Events, OnceAt(p)
               PROVE  OnceNext(p) /\ (Nowhere(p) => NowhereNext(p) \/ p \in taken' \ taken)
    BY DEF OnceStep
  <1> DEFINE A == RunsOf(runs, sweep, p)
             B == FiresOf(ready, p)
             C == PlacesIn(queue[p[1]], p[2])
             A2 == RunsOf(runs', sweep', p)
             B1 == FiresOf(base, p)
             B2 == FiresOf(ready', p)
             C2 == PlacesIn(queue'[p[1]], p[2])
             D  == FiresOf(Chained(r), p)
  <1>13. Lone(A, B1, C2) /\ (Gone(A, B, C) => Gone(A, B1, C2))
    BY <1>4 DEF OnceAt
  <1>14. A2 \subseteq A /\ D \subseteq Nat /\ \A i \in B2 : i \in B1 \/ i - Len(base) \in D
    BY <1>5, <1>10, <1>12
  <1>15. B2 \subseteq Nat
    BY PlacesTypedNext
  <1>16. \A i, j \in D : i = j
    BY <1>10
  <1>17. D # {} => Gone(A, B, C) /\ p \in taken' \ taken
    <2> SUFFICES ASSUME D # {} PROVE Gone(A, B, C) /\ p \in taken' \ taken
      OBVIOUS
    <2>1. PICK b \in Fired(r) : p = <<b, e>>
      BY <1>10
    <2>2. Nowhere(p) /\ p \notin taken
      BY <2>1
    <2> QED
      BY <1>2, <2>1, <2>2 DEF Nowhere
  <1> HIDE DEF A, B, C, A2, B1, B2, C2, D
  <1>18. CASE D = {}
    <2>1. Lone(A2, B2, C2) /\ (Gone(A, B, C) => Gone(A2, B2, C2))
      BY <1>13, <1>14, <1>18 DEF Lone, Gone
    <2> QED
      BY <2>1 DEF A, B, C, A2, B2, C2, OnceNext, Nowhere, NowhereNext
  <1>19. CASE D # {}
    <2>1. A = {} /\ B1 = {} /\ C2 = {} /\ p \in taken' \ taken
      BY <1>13, <1>17, <1>19 DEF Gone
    <2>2. \A i \in B2 : i - Len(base) \in D /\ i \in Nat
      BY <1>14, <1>15, <2>1
    <2>3. \A i, j \in B2 : i = j
      <3> SUFFICES ASSUME NEW i \in B2, NEW j \in B2 PROVE i = j
        OBVIOUS
      <3>1. i - Len(base) = j - Len(base) /\ i \in Nat /\ j \in Nat
        BY <1>16, <2>2
      <3> QED
        BY <1>6, <3>1
    <2>4. Lone(A2, B2, C2)
      BY <1>14, <2>1, <2>3 DEF Lone
    <2> QED
      BY <2>1, <2>4 DEF A2, B2, C2, OnceNext
  <1> QED
    BY <1>18, <1>19

\* An event is an automation's own, or came to it by the chain from a run that is over,
\* or answered one of its runs and fires nothing.
Origins ==
    \A p \in taken :
        \/ AutoOf[p[2]] = p[1] \/ Answered(p[2])
        \/ \E r \in 1..Len(runs) :
             /\ p[1] \in Chain[runs[r].auto] /\ runs[r].ev = p[2]
             /\ runs[r].status \in ChainWhen /\ runs[r].pc = "none"

\* The chains climb the rank.
Climbs(rank) == \A a \in Autos : \A b \in Chain[a] : rank[b] > rank[a]
Ranked(rank) == \A p \in taken : Answered(p[2]) \/ rank[AutoOf[p[2]]] <= rank[p[1]]

Once == Known /\ Relaunched(runs, sweep) /\ Origins /\ \A p \in Autos \X Events : OnceAt(p)

\* What a chain takes on was nowhere: its automation is further up than the event's own,
\* and has one automation it is chained to, whose run of the event is this one.
LEMMA ChainedAreNew ==
    ASSUME Base, Once, NEW rank \in [Autos -> Nat], Climbs(rank), Ranked(rank),
           NEW r \in 1..Len(runs), runs[r].pc \in {"deliver", "help"}, NEW b \in Fired(r)
    PROVE  Nowhere(<<b, runs[r].ev>>) /\ <<b, runs[r].ev>> \notin taken
  <1> DEFINE a == runs[r].auto
             e == runs[r].ev
  <1>1. a \in Autos /\ e \in Events /\ b \in Chain[a] /\ b \in Autos
    BY RunIsGood, ChainAssumption DEF RunRec, Fired
  <1>2. runs[r].status \in ChainWhen
    BY DEF Fired, Chained
  <1>3. \A s \in 1..Len(runs) :
           runs[s].auto = a /\ runs[s].ev = e /\ runs[s].status \in ChainWhen
             => s \in RunsOf(runs, sweep, <<a, e>>)
    BY ChainAssumption DEF RunsOf
  <1>4. <<a, e>> \in taken /\ ~Answered(e)
    <2>1. r \in RunsOf(runs, sweep, <<a, e>>)
      BY <1>2, <1>3
    <2> QED
      BY <1>1, <2>1 DEF Once, Known, Answered, Nowhere, Gone
  <1> SUFFICES ASSUME <<b, e>> \in taken PROVE FALSE
    BY <1>1 DEF Once, Known
  <1>6. CASE AutoOf[e] = b
    <2>1. rank[b] <= rank[a]
      BY <1>4, <1>6 DEF Ranked
    <2>2. rank[b] > rank[a] /\ rank[a] \in Nat /\ rank[b] \in Nat
      BY <1>1 DEF Climbs
    <2> QED
      BY <2>1, <2>2
  <1>7. ASSUME NEW s \in 1..Len(runs), b \in Chain[runs[s].auto], runs[s].ev = e,
               runs[s].status \in ChainWhen, runs[s].pc = "none"
        PROVE  FALSE
    <2>1. runs[s].auto = a
      <3>1. runs[s].auto \in Autos
        BY RunIsGood DEF RunRec
      <3> QED
        BY <1>1, <1>7, <3>1, ChainAssumption
    <2>2. s \in RunsOf(runs, sweep, <<a, e>>) /\ r \in RunsOf(runs, sweep, <<a, e>>)
      BY <1>2, <1>3, <1>7, <2>1
    <2>3. OnceAt(<<a, e>>)
      BY <1>1 DEF Once
    <2>4. s = r
      BY <2>2, <2>3 DEF OnceAt, Lone
    <2> QED
      BY <1>7, <2>4
  <1> QED
    BY <1>4, <1>6, <1>7 DEF Once, Origins

---------------------------------------------------------------------------
(* The end of a run, and the sweep                                         *)

LEMMA EndOnce ==
    ASSUME Base, Base', Once, NEW rank \in [Autos -> Nat], Climbs(rank), Ranked(rank),
           NEW r, Delivered(r) \/ Escalated(r) \/ Cancelled(r) \/ StopPaused(r)
    PROVE  OnceStep
  <1>1. r \in 1..Len(runs) /\ runs[r].auto \in Autos /\ runs \in Seq(RunRec)
    BY DomainOfRuns, RunIsGood DEF Delivered, Escalated, Cancelled, StopPaused, Running, At, RunRec, Base, RunsGood
  <1>2. RunsStep
    BY DeliveredBase, EscalatedBase, CancelledBase, StopPausedBase DEF GentleStep
  <1>3. ASSUME NEW off, Wrap(r, off), runs[r].pc \in {"deliver", "help"} PROVE OnceStep
    <2>1. Len(runs') = Len(runs)
      <3> DEFINE x == Over(runs[r])
      <3>1. runs' = [runs EXCEPT ![r] = x]
        BY <1>3 DEF Wrap
      <3> HIDE DEF x
      <3> QED
        BY <1>1, <3>1
    <2>2. \A b \in Fired(r) : Nowhere(<<b, runs[r].ev>>) /\ <<b, runs[r].ev>> \notin taken
      BY <1>1, <1>3, ChainedAreNew
    <2> QED
      BY <1>1, <1>2, <1>3, <2>1, <2>2, WrapOnce
  <1>4. CASE Delivered(r)
    <2>1. CASE Stuck(r)
      <3>1. UNCHANGED <<queue, ready, sweep>> /\ runs' = [runs EXCEPT ![r].pc = "help"]
        BY <1>4, <2>1 DEF Delivered, memory
      <3>2. Len(runs') = Len(runs)
        BY <1>1, <3>1
      <3> QED
        BY <1>2, <3>1, <3>2, AsItWas, QuietOnce
    <2>2. CASE ~Stuck(r)
      BY <1>3, <1>4, <2>2 DEF Delivered, At
    <2> QED
      BY <2>1, <2>2
  <1>5. CASE Escalated(r)
    BY <1>3, <1>5 DEF Escalated, At
  <1>6. CASE Cancelled(r)
    <2> DEFINE x == [Over(runs[r]) EXCEPT !.status = "interrupted"]
    <2>1. runs' = [runs EXCEPT ![r] = x] /\ UNCHANGED sweep
      BY <1>6 DEF Cancelled
    <2>10. Housekeeping(runs[r].auto, runs[r].spec, <<>>)
      BY <1>6 DEF Cancelled
    <2>11. KeptUp(runs[r].auto, runs[r].spec, <<>>)
      BY <2>10, HousekeepingDrains
    <2>12. PICK w : Drain(runs[r].auto, w, <<>>)
      BY <2>11 DEF KeptUp
    <2> HIDE DEF x
    <2>2. Len(runs') = Len(runs)
      BY <1>1, <2>1
    <2> QED
      BY <1>1, <1>2, <2>1, <2>12, <2>2, DrainedOnce
  <1>7. CASE StopPaused(r)
    <2> DEFINE x == [runs[r] EXCEPT !.status = "interrupted", !.stop = TRUE, !.waits = NoThread]
    <2>1. /\ UNCHANGED sweep /\ Drain(runs[r].auto, enabled[runs[r].auto], <<>>)
          /\ runs' = [runs EXCEPT ![r].status = "interrupted", ![r].stop = TRUE, ![r].waits = NoThread]
      BY <1>7 DEF StopPaused
    <2>2. runs' = [runs EXCEPT ![r] = x]
      BY <1>1, <2>1
    <2> HIDE DEF x
    <2>3. Len(runs') = Len(runs)
      BY <1>1, <2>2
    <2> QED
      BY <1>1, <1>2, <2>1, <2>3, DrainedOnce
  <1> QED
    BY <1>4, <1>5, <1>6, <1>7

LEMMA SweepOnce ==
    ASSUME Base, Base', Once, Sweep
    PROVE  OnceStep
  <1>0. SweepGood(sweep, runs) /\ Len(runs) \in Nat /\ ready \in Seq(TaskRec)
    BY DomainOfRuns DEF Base, TasksGood
  <1>1. CASE SweepStarts
    <2>1. UNCHANGED <<runs, queue, ready>> /\ RunsStep
      BY <1>1, SweepStartsBase DEF SweepStarts, GentleStep
    <2>2. \A r \in 1..Len(runs) : Again(sweep', r) => Again(sweep, r)
      BY <1>1 DEF SweepStarts, NoSweep, Again
    <2> QED
      BY <2>1, <2>2, AsItWas, QuietOnce
  <1>2. ASSUME NEW orphan \in sweep.todo, SweepOne(orphan)
        PROVE  OnceStep
    <2> DEFINE r == orphan[1]
    <2>1. r \in 1..Len(runs) /\ runs[r].status = "running" /\ runs \in Seq(RunRec)
      BY <1>0, <1>2 DEF SweepGood, Orphan, Base, RunsGood
    <2>2. UNCHANGED <<queue, ready>> /\ RunsStep
      BY <1>2, SweepOneBase DEF SweepOne
    <2>3. Len(runs') = Len(runs)
      <3> DEFINE x == [runs[r] EXCEPT !.status = "interrupted", !.pc = "deliver", !.spec = enabled[runs[r].auto]]
      <3>1. runs' = [runs EXCEPT ![r] = x]
        BY <1>2, <2>1 DEF SweepOne
      <3> HIDE DEF x
      <3> QED
        BY <2>1, <3>1
    <2>4. sweep'.at = r /\ sweep'.relaunch = sweep.relaunch
      BY <1>0, <1>2 DEF SweepOne, SweepGood
    <2>5. \A s \in 1..Len(runs) : Again(sweep', s) => Again(sweep, s) \/ runs[s].status # "interrupted"
      BY <2>1, <2>4 DEF Again
    <2> QED
      BY <2>2, <2>3, <2>5, AsItWas, QuietOnce
  <1>3. CASE SweepEnds
    <2> DEFINE rl == sweep.relaunch
    <2>1. /\ ready' = ready \o Relaunches /\ UNCHANGED <<runs, queue>>
          /\ sweep.at = NoRun /\ sweep' = NoSweep /\ RunsStep
      BY <1>3, SweepEndsBase DEF SweepEnds, Relaunches, GentleStep
    <2>2. /\ Relaunches \in Seq(TaskRec) /\ Len(Relaunches) = Len(rl) /\ Len(ready) \in Nat
          /\ \A i \in 1..Len(Relaunches) :
                /\ rl[i] \in 1..Len(runs) /\ i \in DOMAIN rl
                /\ Key(Relaunches[i]) = <<runs[rl[i]].auto, runs[rl[i]].ev>>
                /\ runs[rl[i]].status = "interrupted" /\ ~runs[rl[i]].work
          /\ \A i, j \in 1..Len(Relaunches) : rl[i] = rl[j] => i = j
      BY <1>0, RelaunchesGood DEF Once, Relaunched, SweepGood
    <2>3. \A r : ~Again(sweep', r)
      BY <2>1 DEF NoSweep, Again, ToSet
    <2>4. \A p : RunsOf(runs', sweep', p) \subseteq RunsOf(runs, sweep, p)
      BY <2>1, <2>3 DEF RunsOf
    <2>5. ASSUME NEW p, NEW i \in FiresOf(Relaunches, p)
          PROVE  /\ rl[i] \in RunsOf(runs, sweep, p) /\ rl[i] \notin RunsOf(runs', sweep', p)
                 /\ i \in 1..Len(Relaunches)
      <3>1. i \in 1..Len(Relaunches) /\ Key(Relaunches[i]) = p
        BY DEF FiresOf
      <3>2. Again(sweep, rl[i])
        BY <2>2, <3>1 DEF Again, ToSet
      <3> QED
        BY <2>1, <2>2, <2>3, <3>1, <3>2 DEF RunsOf
    <2>6. \A p : \A i \in FiresOf(ready', p) : i \in FiresOf(ready, p) \/ i - Len(ready) \in FiresOf(Relaunches, p)
      BY <1>0, <2>1, <2>2, FiresOfJoin
    <2> SUFFICES ASSUME NEW p \in Autos \X Events, OnceAt(p)
                 PROVE  OnceNext(p) /\ (Nowhere(p) => NowhereNext(p))
      BY DEF OnceStep
    <2> DEFINE A == RunsOf(runs, sweep, p)
               B == FiresOf(ready, p)
               C == PlacesIn(queue[p[1]], p[2])
               A2 == RunsOf(runs', sweep', p)
               B2 == FiresOf(ready', p)
               C2 == PlacesIn(queue'[p[1]], p[2])
               D  == FiresOf(Relaunches, p)
    <2>7. /\ Lone(A, B, C) /\ A2 \subseteq A /\ C2 = C
          /\ \A i \in B2 : i \in B \/ i - Len(ready) \in D
      BY <2>1, <2>4, <2>6 DEF OnceAt
    <2>8. B2 \subseteq Nat
      BY PlacesTypedNext
    <2>9. \A i \in D : rl[i] \in A /\ rl[i] \notin A2 /\ i \in 1..Len(Relaunches)
      BY <2>5
    <2> HIDE DEF A, B, C, A2, B2, C2, D, rl
    <2>10. CASE D = {}
      <3>1. Lone(A2, B2, C2) /\ (Gone(A, B, C) => Gone(A2, B2, C2))
        BY <2>7, <2>10 DEF Lone, Gone
      <3> QED
        BY <3>1 DEF A, B, C, A2, B2, C2, OnceNext, Nowhere, NowhereNext
    <2>11. CASE D # {}
      <3>1. PICK n \in D : TRUE
        BY <2>11
      <3>2. A # {} /\ B = {} /\ C = {} /\ \A x, y \in A : x = y
        BY <2>7, <2>9, <3>1 DEF Lone
      <3>3. A2 = {}
        BY <2>7, <2>9, <3>1, <3>2
      <3>4. \A i \in B2 : i - Len(ready) \in D /\ i \in Nat
        BY <2>7, <2>8, <3>2
      <3>5. \A i, j \in D : i = j
        BY <2>2, <2>9, <3>2
      <3>6. \A i, j \in B2 : i = j
        <4> SUFFICES ASSUME NEW i \in B2, NEW j \in B2 PROVE i = j
          OBVIOUS
        <4>1. i - Len(ready) = j - Len(ready) /\ i \in Nat /\ j \in Nat
          BY <3>4, <3>5
        <4> QED
          BY <2>2, <4>1
      <3>7. Lone(A2, B2, C2) /\ ~Gone(A, B, C)
        BY <2>7, <3>2, <3>3, <3>6 DEF Lone, Gone
      <3> QED
        BY <3>7 DEF A, B, C, A2, B2, C2, OnceNext, Nowhere
    <2> QED
      BY <2>10, <2>11
  <1> QED
    BY <1>1, <1>2, <1>3 DEF Sweep

LEMMA RestartOnce ==
    ASSUME Base, Base', Restart
    PROVE  OnceStep
  <1>1. /\ RunsStep /\ Len(runs') = Len(runs) /\ UNCHANGED queue
        /\ ready' = <<>> /\ sweep' = NoSweep
    BY RestartBase, RestartedRuns DEF Restart, GentleStep
  <1>2. \A r : ~Again(sweep', r)
    BY <1>1 DEF NoSweep, Again, ToSet
  <1>3. \A p : FiresOf(ready', p) = {}
    BY <1>1 DEF FiresOf
  <1>4. \A p : \A i \in FiresOf(ready', p) : i + 0 \in FiresOf(ready, p)
    BY <1>3
  <1> QED
    BY <1>1, <1>2, <1>4, QuietOnce

---------------------------------------------------------------------------
(* What a sweep will launch again, and what is taken on                    *)

\* A run that was interrupted before it did anything stays that way.
LEMMA RelaunchedKept ==
    ASSUME Base, RunsStep, Relaunched(runs, sweep), sweep'.relaunch = sweep.relaunch,
           sweep'.again => sweep.again /\ sweep'.at = sweep.at
    PROVE  Relaunched(runs', sweep')
  <1>1. \A r \in 1..Len(runs) : runs[r].status = "interrupted" /\ ~runs[r].work
                                  => runs'[r].status = "interrupted" /\ ~runs'[r].work
    BY DEF RunsStep, Lawful, Settled, Refinalized
  <1>2. /\ \A i \in 1..Len(sweep.relaunch) : sweep.relaunch[i] \in 1..Len(runs)
        /\ sweep.again => sweep.at \in 1..Len(runs)
    BY DEF Base, SweepGood
  <1> QED
    BY <1>1, <1>2 DEF Relaunched

LEMMA NoneRelaunched ==
    ASSUME NEW R
    PROVE  Relaunched(R, NoSweep)
  BY DEF Relaunched, NoSweep

LEMMA WrapRelaunched ==
    ASSUME Base, RunsStep, Relaunched(runs, sweep), NEW r \in 1..Len(runs), NEW off, Wrap(r, off)
    PROVE  Relaunched(runs', sweep')
  <1>1. SweepGood(sweep, runs)
    BY DEF Base
  <1>2. CASE sweep.at # r
    BY <1>2, RelaunchedKept DEF Wrap
  <1>3. CASE sweep.at = r /\ ~sweep.again
    <2>1. sweep'.relaunch = sweep.relaunch /\ ~sweep'.again
      BY <1>1, <1>3 DEF Wrap, SweepGood
    <2> QED
      BY <2>1, RelaunchedKept
  <1>4. CASE sweep.at = r /\ sweep.again
    <2> DEFINE q == sweep.relaunch
               s == Append(q, r)
    <2>1. sweep'.relaunch = s /\ ~sweep'.again
      BY <1>1, <1>4 DEF Wrap, SweepGood
    <2>2. q \in Seq(Nat) /\ r \in Nat /\ \A i \in 1..Len(q) : q[i] \in 1..Len(runs)
      BY <1>1, DomainOfRuns DEF SweepGood
    <2>3. /\ Len(s) = Len(q) + 1 /\ Len(q) \in Nat /\ s[Len(q) + 1] = r
          /\ \A i \in 1..Len(q) : s[i] = q[i]
      BY <2>2, AppendProperties
    <2> HIDE DEF s
    <2>4. \A i \in 1..Len(s) : i \in 1..Len(q) \/ i = Len(q) + 1
      BY <2>3
    <2>5. /\ \A i \in 1..Len(q) : runs[q[i]].status = "interrupted" /\ ~runs[q[i]].work /\ q[i] # r
          /\ \A i, j \in 1..Len(q) : q[i] = q[j] => i = j
          /\ runs[r].status = "interrupted" /\ ~runs[r].work
      BY <1>4 DEF Relaunched
    <2> HIDE DEF q
    <2>6. \A t \in 1..Len(runs) : runs[t].status = "interrupted" /\ ~runs[t].work
                                    => runs'[t].status = "interrupted" /\ ~runs'[t].work
      BY DEF RunsStep, Lawful, Settled, Refinalized
    <2>7. \A i \in 1..Len(s) : runs'[s[i]].status = "interrupted" /\ ~runs'[s[i]].work
      BY <2>2, <2>3, <2>4, <2>5, <2>6
    <2>8. \A i, j \in 1..Len(s) : s[i] = s[j] => i = j
      BY <2>3, <2>4, <2>5
    <2> QED
      BY <2>1, <2>7, <2>8 DEF Relaunched
  <1> QED
    BY <1>2, <1>3, <1>4

LEMMA SweepRelaunched ==
    ASSUME Base, RunsStep, Relaunched(runs, sweep), Sweep
    PROVE  Relaunched(runs', sweep')
  <1>0. SweepGood(sweep, runs)
    BY DEF Base
  <1>1. CASE SweepStarts
    <2>1. sweep'.relaunch = sweep.relaunch /\ sweep'.again = sweep.again /\ sweep'.at = sweep.at
      BY <1>1 DEF SweepStarts, NoSweep
    <2> QED
      BY <2>1, RelaunchedKept
  <1>2. CASE SweepEnds
    BY <1>2, NoneRelaunched DEF SweepEnds
  <1>3. ASSUME NEW orphan \in sweep.todo, SweepOne(orphan)
        PROVE  Relaunched(runs', sweep')
    <2> DEFINE r == orphan[1]
               again == ~runs[r].work /\ ~orphan[2] /\ enabled[runs[r].auto]
               x == [runs[r] EXCEPT !.status = "interrupted", !.pc = "deliver", !.spec = enabled[runs[r].auto]]
    <2>1. r \in 1..Len(runs) /\ runs[r].status = "running" /\ runs \in Seq(RunRec) /\ runs[r] \in RunRec
      BY <1>0, <1>3, RunIsGood DEF SweepGood, Orphan, Base, RunsGood
    <2>2. runs' = [runs EXCEPT ![r] = x] /\ x.status = "interrupted" /\ x.work = runs[r].work
      BY <1>3, <2>1 DEF SweepOne, RunRec
    <2>3. sweep'.at = r /\ sweep'.relaunch = sweep.relaunch /\ sweep'.again = again
      BY <1>0, <1>3 DEF SweepOne, SweepGood
    <2> HIDE DEF x
    <2>4. runs'[r].status = "interrupted" /\ runs'[r].work = runs[r].work
      BY <2>1, <2>2
    <2>5. \A t \in 1..Len(runs) : runs[t].status = "interrupted" /\ ~runs[t].work
                                    => runs'[t].status = "interrupted" /\ ~runs'[t].work
      BY DEF RunsStep, Lawful, Settled, Refinalized
    <2>6. \A i \in 1..Len(sweep.relaunch) :
             /\ sweep.relaunch[i] \in 1..Len(runs) /\ sweep.relaunch[i] # r
             /\ runs[sweep.relaunch[i]].status = "interrupted" /\ ~runs[sweep.relaunch[i]].work
      BY <1>0, <2>1 DEF SweepGood, Relaunched
    <2>7. \A i, j \in 1..Len(sweep.relaunch) : sweep.relaunch[i] = sweep.relaunch[j] => i = j
      BY DEF Relaunched
    <2> QED
      BY <2>3, <2>4, <2>5, <2>6, <2>7 DEF Relaunched
  <1> QED
    BY <1>1, <1>2, <1>3 DEF Sweep

\* What a step takes on is an automation's own event or an answer, seen for the first
\* time, or comes by the chain from a run that is over.
TakenStep ==
    /\ taken \subseteq taken'
    /\ \A p \in taken' \ taken :
         \/ ~Seen(p[2]) /\ (AutoOf[p[2]] = p[1] \/ AnsweredNext(p[2]))
         \/ \E r \in 1..Len(runs') :
              /\ p[1] \in Chain[runs'[r].auto] /\ runs'[r].ev = p[2]
              /\ runs'[r].status \in ChainWhen /\ runs'[r].pc = "none"
              /\ <<runs'[r].auto, p[2]>> \in taken /\ ~Answered(p[2])

LEMMA WrapTaken ==
    ASSUME Base, Known, NEW r \in 1..Len(runs), NEW off, Wrap(r, off)
    PROVE  TakenStep
  <1> DEFINE a == runs[r].auto
             e == runs[r].ev
             x == Over(runs[r])
  <1>1. a \in Autos /\ e \in Events /\ runs \in Seq(RunRec) /\ Len(runs) \in Nat
    BY RunIsGood DEF RunRec, Base, RunsGood
  <1>2. /\ x.auto = a /\ x.ev = e /\ x.status = runs[r].status /\ x.pc = "none"
    BY RunIsGood, OverGood
  <1>3. runs' = [runs EXCEPT ![r] = x] /\ taken' = taken \cup {<<b, e>> : b \in Fired(r)}
    BY DEF Wrap, Fired
  <1> HIDE DEF x
  <1>4. runs'[r] = x /\ Len(runs') = Len(runs)
    BY <1>1, <1>3
  <1>5. ASSUME NEW b \in Fired(r)
        PROVE  /\ b \in Chain[runs'[r].auto] /\ runs'[r].ev = e
               /\ runs'[r].status \in ChainWhen /\ runs'[r].pc = "none"
               /\ <<runs'[r].auto, e>> \in taken /\ ~Answered(e)
    <2>1. b \in Chain[a] /\ runs[r].status \in ChainWhen
      BY DEF Fired, Chained
    <2>2. r \in RunsOf(runs, sweep, <<a, e>>)
      BY <2>1, ChainAssumption DEF RunsOf
    <2>3. <<a, e>> \in taken /\ ~Answered(e)
      BY <1>1, <2>2 DEF Known, Answered, Nowhere, Gone
    <2> QED
      BY <1>2, <1>4, <2>1, <2>3
  <1>6. \A p \in taken' \ taken : \E b \in Fired(r) : p[1] = b /\ p[2] = e
    BY <1>3
  <1> QED
    BY <1>3, <1>4, <1>5, <1>6 DEF TakenStep

LEMMA OnceStepTaken ==
    ASSUME Base, Base', Once, NEW rank \in [Autos -> Nat], Climbs(rank), Ranked(rank), [Next]_vars
    PROVE  OnceStep
  <1>1. ASSUME NEW e \in Events, Inbound(e) \/ CronTick(e) \/ RunNow(e) PROVE OnceStep
    BY <1>1, InboundOnce, CallerOnce DEF Once
  <1>2. ASSUME NEW r \in DOMAIN runs, Step(r) PROVE OnceStep
    <2>1. CASE Delivered(r) \/ Escalated(r) \/ Cancelled(r)
      BY <2>1, EndOnce
    <2>2. CASE ~(Delivered(r) \/ Escalated(r) \/ Cancelled(r))
      BY <1>2, <2>2, RunOnce DEF Step
    <2> QED
      BY <2>1, <2>2
  <1>3. ASSUME NEW r \in DOMAIN runs, Person(r) PROVE OnceStep
    <2>1. CASE StopPaused(r)
      BY <2>1, EndOnce
    <2>2. CASE ~StopPaused(r)
      BY <1>3, <2>2, RunOnce DEF Person
    <2> QED
      BY <2>1, <2>2
  <1>4. CASE UNCHANGED <<runs, queue, ready, sweep>>
    <2>1. RunsStep /\ Len(runs') = Len(runs)
      BY <1>4, NoRunChanges DEF GentleStep
    <2> QED
      BY <1>4, <2>1, AsItWas, QuietOnce
  <1>5. ASSUME NEW a \in Autos, Toggle(a) PROVE OnceStep
    BY <1>4, <1>5 DEF Toggle, memory
  <1>6. CASE Shutdown
    BY <1>4, <1>6 DEF Shutdown
  <1>7. CASE UNCHANGED vars
    BY <1>4, <1>7 DEF vars, memory
  <1> QED
    BY <1>1, <1>2, <1>3, <1>5, <1>6, <1>7, NextTaskOnce, SweepOnce, RestartOnce, Zenon
       DEF Next, Arrival

\* A message that reaches a run that waits: it is taken on, and fires nothing.
AnswersRun(e) ==
    LET r == claims[ThreadOf[e]] IN
    /\ ~Seen(e) /\ ThreadOf[e] \in Threads /\ r # NoRun
    /\ ready' = Append(ready, Task("answer", runs[r].auto, e, r))
    /\ taken' = taken \cup {<<runs[r].auto, e>>}
    /\ UNCHANGED <<runs, queue, sweep>>

LEMMA AnswerTaken ==
    ASSUME Base, Known, NEW e \in Events, AnswersRun(e)
    PROVE  TakenStep
  <1> DEFINE r == claims[ThreadOf[e]]
             answer == Task("answer", runs[r].auto, e, r)
  <1>1. ~Seen(e) /\ ready' = Append(ready, answer) /\ ready \in Seq(TaskRec)
    BY DEF AnswersRun, Base, TasksGood
  <1>2. taken \subseteq taken' /\ \A p \in taken' \ taken : p[2] = e
    BY DEF AnswersRun
  <1>3. answer \in TaskRec /\ answer.kind \notin Firing
    <2>1. r \in 1..Len(runs) /\ r \in Nat
      BY DomainOfRuns DEF AnswersRun, Base, RestTyped, NoRun
    <2>2. runs[r].auto \in Autos
      BY <2>1, RunIsGood DEF RunRec
    <2> QED
      BY <2>1, <2>2 DEF Task, TaskRec, Firing
  <1> HIDE DEF answer, r
  <1>4. ASSUME NEW a \in Autos PROVE NowhereNext(<<a, e>>)
    <2>1. Nowhere(<<a, e>>)
      BY <1>1, NotSeen DEF Answered
    <2>2. FiresOf(ready', <<a, e>>) = {}
      BY <1>1, <1>3, <2>1, NothingFired DEF Nowhere, Gone
    <2> QED
      BY <2>1, <2>2 DEF AnswersRun, Nowhere, NowhereNext, Gone
  <1> QED
    BY <1>1, <1>2, <1>4 DEF TakenStep, AnsweredNext

\* The steps that neither sweep nor end a run take on nothing but what arrives.
LEMMA OthersTaken ==
    ASSUME Base, Base', Known, Relaunched(runs, sweep), RunsStep,
           \/ \E e \in Events : Inbound(e) \/ CronTick(e) \/ RunNow(e)
           \/ NextTask
           \/ \E r : WorkStarts(r) \/ LeftRunning(r) \/ StopRunning(r) \/ AnswerNow(r)
                       \/ Cancelled(r) \/ StopPaused(r) \/ Breaks(r)
           \/ \E r : \E s \in {"achieved", "completed", "failed", "rejected"} : Finish(r, s)
           \/ \E r : \E k \in {"counterpart", "help"} : Park(r, k) \/ Said(r, k)
           \/ \E a \in Autos : Toggle(a)
           \/ Shutdown \/ UNCHANGED vars
    PROVE  TakenStep /\ Relaunched(runs', sweep')
  <1>1. UNCHANGED sweep => Relaunched(runs', sweep')
    BY RelaunchedKept
  <1>2. taken' = taken => TakenStep
    BY DEF TakenStep
  <1>3. \A e \in Events : ~Seen(e) /\ taken' = taken \cup {<<AutoOf[e], e>>} => TakenStep
    <2> SUFFICES ASSUME NEW e \in Events, ~Seen(e), taken' = taken \cup {<<AutoOf[e], e>>} PROVE TakenStep
      OBVIOUS
    <2>1. \A p \in taken' \ taken : AutoOf[p[2]] = p[1] /\ ~Seen(p[2])
      OBVIOUS
    <2> QED
      BY <2>1 DEF TakenStep
  <1>4. CASE \E e \in Events : Inbound(e) \/ CronTick(e) \/ RunNow(e)
    <2>1. PICK e \in Events : Inbound(e) \/ CronTick(e) \/ RunNow(e)
      BY <1>4
    <2>2. UNCHANGED sweep
      BY <2>1 DEF Inbound, CronTick, RunNow, memory
    <2>3. \/ taken' = taken \/ (taken' = taken \cup {<<AutoOf[e], e>>} /\ ~Seen(e))
          \/ AnswersRun(e)
      <3>1. CASE CronTick(e) \/ RunNow(e)
        BY <3>1 DEF CronTick, RunNow
      <3>2. CASE Inbound(e)
        <4>1. ThreadOf[e] \in Threads
          BY <3>2, EventAssumption DEF Inbound
        <4> QED
          BY <3>2, <4>1 DEF Inbound, DispatchMatch, AnswersRun
      <3> QED
        BY <2>1, <3>1, <3>2
    <2> QED
      BY <1>1, <1>2, <1>3, <2>2, <2>3, AnswerTaken
  <1>5. CASE NextTask
    <2>1. UNCHANGED <<sweep, taken>>
      BY <1>5 DEF NextTask, FireTask, AnswerTask, ResumeTask, history
    <2> QED
      BY <1>1, <1>2, <2>1
  <1>6. ASSUME NEW r, \/ WorkStarts(r) \/ LeftRunning(r) \/ StopRunning(r) \/ AnswerNow(r)
                      \/ Cancelled(r) \/ StopPaused(r) \/ Breaks(r)
                      \/ \E s \in {"achieved", "completed", "failed", "rejected"} : Finish(r, s)
                      \/ \E k \in {"counterpart", "help"} : Park(r, k) \/ Said(r, k)
        PROVE  UNCHANGED <<sweep, taken>>
    BY <1>6 DEF WorkStarts, LeftRunning, StopRunning, AnswerNow, Cancelled, StopPaused, Breaks, Finish, Park,
       Said, memory, history
  <1>7. CASE (\E a \in Autos : Toggle(a)) \/ Shutdown \/ UNCHANGED vars
    BY <1>1, <1>2, <1>7 DEF Toggle, Shutdown, vars, memory, history
  <1> QED
    BY <1>1, <1>2, <1>4, <1>5, <1>6, <1>7

LEMMA TakenStepTaken ==
    ASSUME Base, Base', Known, Relaunched(runs, sweep), RunsStep, [Next]_vars
    PROVE  TakenStep /\ Relaunched(runs', sweep')
  <1>1. ASSUME NEW r \in DOMAIN runs, Delivered(r) \/ Escalated(r)
        PROVE  TakenStep /\ Relaunched(runs', sweep')
    <2>1. r \in 1..Len(runs)
      BY DomainOfRuns
    <2>2. ASSUME NEW off, Wrap(r, off) PROVE TakenStep /\ Relaunched(runs', sweep')
      BY <2>1, <2>2, WrapTaken, WrapRelaunched
    <2>3. CASE Delivered(r) /\ Stuck(r)
      <3>1. UNCHANGED <<sweep, taken>>
        BY <2>3 DEF Delivered, memory, history
      <3> QED
        BY <3>1, RelaunchedKept DEF TakenStep
    <2> QED
      BY <1>1, <2>2, <2>3 DEF Delivered, Escalated
  <1>2. CASE Sweep
    <2>1. UNCHANGED taken
      BY <1>2 DEF Sweep, SweepStarts, SweepOne, SweepEnds, history
    <2> QED
      BY <1>2, <2>1, SweepRelaunched DEF TakenStep
  <1>3. CASE Restart
    BY <1>3, NoneRelaunched DEF Restart, TakenStep
  <1>4. ASSUME NEW r \in DOMAIN runs, Step(r) PROVE TakenStep /\ Relaunched(runs', sweep')
    BY <1>1, <1>4, OthersTaken DEF Step
  <1>5. ASSUME NEW r \in DOMAIN runs, Person(r) PROVE TakenStep /\ Relaunched(runs', sweep')
    BY <1>5, OthersTaken DEF Person
  <1>6. ASSUME NEW e \in Events, Inbound(e) \/ CronTick(e) \/ RunNow(e)
        PROVE  TakenStep /\ Relaunched(runs', sweep')
    BY <1>6, OthersTaken
  <1>7. ASSUME NEW a \in Autos, Toggle(a) PROVE TakenStep /\ Relaunched(runs', sweep')
    BY <1>7, OthersTaken
  <1>8. CASE NextTask \/ Shutdown \/ UNCHANGED vars
    BY <1>8, OthersTaken
  <1> QED
    BY <1>2, <1>3, <1>4, <1>5, <1>6, <1>7, <1>8 DEF Next, Arrival

LEMMA OnceKept ==
    ASSUME Base, Base', RunsStep, Once, NEW rank \in [Autos -> Nat], Climbs(rank), Ranked(rank), [Next]_vars
    PROVE  Once' /\ Ranked(rank)'
  <1>1. OnceStep
    BY OnceStepTaken
  <1>2. TakenStep /\ Relaunched(runs', sweep')
    BY TakenStepTaken DEF Once
  <1>3. \A p \in Autos \X Events : OnceNext(p) /\ (p \in taken' \/ NowhereNext(p))
    BY <1>1, <1>2 DEF Once, Known, OnceStep, TakenStep
  <1>4. \A p \in Autos \X Events : OnceAt(p)' /\ (p \in taken' \/ Nowhere(p)')
    BY <1>3 DEF OnceAt, OnceNext, Nowhere, NowhereNext, RunsOf, FiresOf, Key
  <1>50. ASSUME NEW e, AnsweredNext(e) PROVE Answered(e)'
    <2>1. ASSUME NEW a \in Autos PROVE Nowhere(<<a, e>>)'
      <3>1. NowhereNext(<<a, e>>)
        BY <1>50 DEF AnsweredNext
      <3> QED
        BY <3>1 DEF Nowhere, NowhereNext, RunsOf, FiresOf, Key
    <2> QED
      BY <2>1 DEF Answered
  <1>51. ASSUME NEW p \in taken, Answered(p[2])
         PROVE  AnsweredNext(p[2])
    <2>0. p \in Autos \X Events
      BY DEF Base, RestTyped
    <2>1. p[1] \in Autos /\ p[2] \in Events /\ <<p[1], p[2]>> \in taken
      BY <2>0
    <2>10. Seen(p[2])
      BY <2>1 DEF Seen
    <2> SUFFICES ASSUME NEW a \in Autos PROVE NowhereNext(<<a, p[2]>>)
      BY DEF AnsweredNext
    <2> DEFINE q == <<a, p[2]>>
    <2>2. q \in Autos \X Events /\ q[2] = p[2] /\ Nowhere(q)
      BY <1>51, <2>1 DEF Answered
    <2> HIDE DEF q
    <2>3. q \notin taken' \ taken
      BY <1>2, <1>51, <2>10, <2>2 DEF TakenStep
    <2> QED
      BY <1>1, <2>2, <2>3 DEF Once, OnceStep, q
  <1>5. Origins'
    <2> SUFFICES ASSUME NEW p \in taken'
                 PROVE  \/ AutoOf[p[2]] = p[1] \/ AnsweredNext(p[2])
                        \/ \E r \in 1..Len(runs') :
                             /\ p[1] \in Chain[runs'[r].auto] /\ runs'[r].ev = p[2]
                             /\ runs'[r].status \in ChainWhen /\ runs'[r].pc = "none"
      BY <1>50 DEF Origins
    <2>0. Answered(p[2]) /\ p \in taken => AnsweredNext(p[2])
      BY <1>51
    <2>1. CASE p \in taken
      <3>1. ASSUME NEW r \in 1..Len(runs), p[1] \in Chain[runs[r].auto], runs[r].ev = p[2],
                   runs[r].status \in ChainWhen, runs[r].pc = "none"
            PROVE  \E s \in 1..Len(runs') :
                       /\ p[1] \in Chain[runs'[s].auto] /\ runs'[s].ev = p[2]
                       /\ runs'[s].status \in ChainWhen /\ runs'[s].pc = "none"
        <4>1. runs[r].status \in Settled
          BY <3>1, ChainAssumption DEF Settled
        <4>2. Lawful(runs[r], runs'[r]) /\ r \in 1..Len(runs')
          BY DomainOfRuns DEF RunsStep
        <4>3. runs'[r].auto = runs[r].auto /\ runs'[r].ev = p[2]
              /\ runs'[r].status = runs[r].status /\ runs'[r].pc = "none"
          BY <3>1, <4>1, <4>2 DEF Lawful, Refinalized
        <4> QED
          BY <3>1, <4>2, <4>3
      <3> QED
        BY <2>0, <2>1, <3>1 DEF Once, Origins
    <2>2. CASE p \notin taken
      BY <1>2, <2>2 DEF TakenStep
    <2> QED
      BY <2>1, <2>2
  <1>6. Ranked(rank)'
    <2> SUFFICES ASSUME NEW p \in taken'
                 PROVE  AnsweredNext(p[2]) \/ rank[AutoOf[p[2]]] <= rank[p[1]]
      BY <1>50 DEF Ranked
    <2>1. p \in Autos \X Events /\ AutoOf[p[2]] \in Autos /\ rank[AutoOf[p[2]]] \in Nat
      BY EventAssumption DEF Base, RestTyped
    <2>2. CASE p \in taken
      BY <1>51, <2>2 DEF Ranked
    <2>3. CASE AutoOf[p[2]] = p[1]
      BY <2>1, <2>3
    <2>4. ASSUME NEW a \in Autos, p[1] \in Chain[a], <<a, p[2]>> \in taken, ~Answered(p[2])
          PROVE  rank[AutoOf[p[2]]] <= rank[p[1]]
      <3>1. rank[AutoOf[p[2]]] <= rank[a]
        BY <2>4 DEF Ranked
      <3>2. rank[p[1]] > rank[a] /\ rank[p[1]] \in Nat /\ rank[a] \in Nat
        BY <2>1, <2>4 DEF Climbs
      <3> QED
        BY <2>1, <3>1, <3>2
    <2>5. CASE \E r \in 1..Len(runs') :
              /\ p[1] \in Chain[runs'[r].auto] /\ runs'[r].ev = p[2]
              /\ runs'[r].status \in ChainWhen /\ runs'[r].pc = "none"
              /\ <<runs'[r].auto, p[2]>> \in taken /\ ~Answered(p[2])
      <3>1. PICK r \in 1..Len(runs') : /\ p[1] \in Chain[runs'[r].auto] /\ ~Answered(p[2])
                                       /\ <<runs'[r].auto, p[2]>> \in taken
        BY <2>5
      <3>2. runs'[r].auto \in Autos
        BY <3>1 DEF Base, RestTyped
      <3> QED
        BY <2>4, <3>1, <3>2
    <2> QED
      BY <1>2, <2>2, <2>3, <2>5 DEF TakenStep
  <1> QED
    BY <1>2, <1>4, <1>5, <1>6 DEF Once, Known, Relaunched

\* Following the chains never comes back to the same automation.
ChainsEnd == \E rank \in [Autos -> Nat] : Climbs(rank)

\* However often the process dies, the workflow of an event starts at most once for an
\* automation, when its chains do not come back to it: at every moment the event is in
\* the queue, in one task or in one run (runtime.py: _drain_queue_if_single,
\* _dispatch_chains, sweep_orphans; matcher.py: _dispatch_match).
THEOREM WorkStartsOnce == ChainsEnd => (Spec => []WorkOnce)
  <1> SUFFICES ASSUME ChainsEnd PROVE Spec => []WorkOnce
    OBVIOUS
  <1>1. PICK rank \in [Autos -> Nat] : Climbs(rank)
    BY DEF ChainsEnd
  <1>2. Init => Once /\ Ranked(rank)
    <2> SUFFICES ASSUME Init PROVE Once /\ Ranked(rank)
      OBVIOUS
    <2>1. runs = <<>> /\ ready = <<>> /\ sweep = NoSweep /\ taken = {} /\ queue = [a \in Autos |-> <<>>]
      BY DEF Init
    <2>2. ASSUME NEW p \in Autos \X Events
          PROVE  RunsOf(runs, sweep, p) = {} /\ FiresOf(ready, p) = {} /\ PlacesIn(queue[p[1]], p[2]) = {}
      BY <2>1 DEF RunsOf, FiresOf, PlacesIn
    <2>3. \A p \in Autos \X Events : OnceAt(p) /\ Nowhere(p)
      BY <2>2 DEF OnceAt, Nowhere, Lone, Gone
    <2>4. Relaunched(runs, sweep)
      BY <2>1, NoneRelaunched
    <2> QED
      BY <2>1, <2>3, <2>4 DEF Once, Known, Origins, Ranked
  <1>3. Base /\ Once => WorkOnce
    <2> SUFFICES ASSUME Base, Once, NEW r \in DOMAIN runs, NEW s \in DOMAIN runs,
                        runs[r].work, runs[s].work, runs[r].auto = runs[s].auto, runs[r].ev = runs[s].ev
                 PROVE  r = s
      BY DEF WorkOnce
    <2> DEFINE p == <<runs[r].auto, runs[r].ev>>
    <2>1. r \in 1..Len(runs) /\ s \in 1..Len(runs)
      BY DomainOfRuns
    <2>2. p \in Autos \X Events
      BY <2>1, RunIsGood DEF RunRec
    <2>3. r \in RunsOf(runs, sweep, p) /\ s \in RunsOf(runs, sweep, p)
      BY <2>1 DEF RunsOf
    <2>4. OnceAt(p)
      BY <2>2 DEF Once
    <2> QED
      BY <2>3, <2>4 DEF OnceAt, Lone
  <1>4. Base /\ Base' /\ RunsStep /\ Once /\ Ranked(rank) /\ [Next]_vars => Once' /\ Ranked(rank)'
    BY <1>1, OnceKept
  <1> QED
    BY <1>2, <1>3, <1>4, AlwaysBase, BaseKept, PTL DEF Spec
=============================================================================
