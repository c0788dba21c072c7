--------------------------- MODULE OcrJobsProofs ---------------------------
(***************************************************************************)
(* Proofs about OcrJobs, for any number of jobs, workers and pages and any *)
(* cap: the typing invariant, that the running rows never exceed the cap,  *)
(* that a job reported done is published whole, and that no page that was  *)
(* recorded is transcribed again.                                          *)
(***************************************************************************)
EXTENDS OcrJobs, FiniteSetTheorems, TLAPS

---------------------------------------------------------------------------
(* The rows                                                                *)

LEMMA SetToType ==
    ASSUME NEW r, RowsOK(r), NEW j \in Jobs, NEW s \in Statuses, NEW p \in Pids \cup {NoPid}
    PROVE  RowsOK(SetTo(r, j, s, p))
BY DEF RowsOK, SetTo, Row

LEMMA RowWrites ==
    ASSUME NEW r, RowsOK(r), NEW j \in Jobs
    PROVE  /\ \A p \in Pids : RowsOK(Claimed(r, j, p))
           /\ \A o \in Terminal : RowsOK(Finished(r, j, o))
           /\ RowsOK(Cancelled(r, j)) /\ RowsOK(Requeued(r, j)) /\ RowsOK(Reclaimed(r, j))
BY SetToType DEF Claimed, Finished, Cancelled, Requeued, Reclaimed, Statuses, Terminal

LEMMA RunningFinite ==
    ASSUME NEW r
    PROVE  IsFiniteSet(Running(r)) /\ Running(r) \subseteq Jobs
<1>1. IsFiniteSet(Jobs)
    BY NJobsAssumption, FS_Interval DEF Jobs
<1>2. QED
    BY <1>1, FS_Subset DEF Running

\* A write that puts no row to "running" leaves no more rows running.
LEMMA FewerRun ==
    ASSUME NEW r, NEW s, Running(s) \subseteq Running(r), Cardinality(Running(r)) <= Cap
    PROVE  Cardinality(Running(s)) <= Cap
<1>1. Cardinality(Running(s)) <= Cardinality(Running(r))
    BY RunningFinite, FS_Subset
<1>2. Cardinality(Running(s)) \in Nat /\ Cardinality(Running(r)) \in Nat
    BY RunningFinite, FS_CardinalityType
<1>3. QED
    BY <1>1, <1>2, CapAssumption

LEMMA NotRunning ==
    ASSUME NEW r, RowsOK(r), NEW j \in Jobs, NEW s \in Statuses \ {"running"},
           NEW p, Cardinality(Running(r)) <= Cap
    PROVE  Cardinality(Running(SetTo(r, j, s, p))) <= Cap
<1>1. Running(SetTo(r, j, s, p)) \subseteq Running(r)
    BY DEF RowsOK, Running, SetTo
<1>2. QED
    BY <1>1, FewerRun

\* The claim's UPDATE counts and writes in one transaction.
LEMMA ClaimFits ==
    ASSUME NEW r, RowsOK(r), NEW j \in Jobs, NEW p, Claimable(r, j)
    PROVE  Cardinality(Running(Claimed(r, j, p))) <= Cap
<1>1. Running(Claimed(r, j, p)) = Running(r) \cup {j}
    BY DEF RowsOK, Running, Claimed, SetTo
<1>2. j \notin Running(r)
    BY DEF Claimable, Running
<1>3. Cardinality(Running(r) \cup {j}) = Cardinality(Running(r)) + 1
    BY <1>2, RunningFinite, FS_AddElement
<1>4. Cardinality(Running(r)) \in Nat /\ Cardinality(Running(r)) < Cap
    BY RunningFinite, FS_CardinalityType DEF Claimable
<1>5. QED
    BY <1>1, <1>3, <1>4, CapAssumption

---------------------------------------------------------------------------
(* Types                                                                   *)

\* What a step makes of the record of one worker.
LEMMA WorkerSet ==
    ASSUME NEW w, WorkersOK(w), NEW p \in Pids, NEW x \in Worker,
           x.pc # "none" => x.job \in Jobs, x.pc = "page" => x.todo # {}
    PROVE  WorkersOK([w EXCEPT ![p] = x])
BY DEF WorkersOK

LEMMA GotoStep ==
    ASSUME WorkersOK(worker), NEW p \in Pids, worker[p].pc # "none",
           NEW pc \in WorkerPcs \ {"none", "page"}, Goto(p, pc)
    PROVE  WorkersOK(worker')
BY DEF WorkersOK, Worker, Goto

LEMMA FailStep ==
    ASSUME WorkersOK(worker), NEW p \in Pids, worker[p].pc # "none", Fail(p)
    PROVE  WorkersOK(worker')
<1>1. [worker[p] EXCEPT !.outcome = "failed", !.texts = {}, !.pc = "finish"] \in Worker
    BY DEF WorkersOK, Worker, WorkerPcs
<1>2. worker' = [worker EXCEPT ![p] =
                     [worker[p] EXCEPT !.outcome = "failed", !.texts = {}, !.pc = "finish"]]
    BY DEF Fail, WorkersOK
<1>3. QED
    BY <1>1, <1>2 DEF WorkersOK, Worker

LEMMA ToIndexStep ==
    ASSUME WorkersOK(worker), NEW p \in Pids, worker[p].pc # "none", ToIndex(p)
    PROVE  WorkersOK(worker')
<1>1. [worker[p] EXCEPT !.texts = {}, !.pc = "index"] \in Worker
    BY DEF WorkersOK, Worker, WorkerPcs
<1>2. worker' = [worker EXCEPT ![p] = [worker[p] EXCEPT !.texts = {}, !.pc = "index"]]
    BY DEF ToIndex, WorkersOK
<1>3. QED
    BY <1>1, <1>2 DEF WorkersOK, Worker

LEMMA ExitStep ==
    ASSUME WorkersOK(worker), NEW p \in Pids, Exit(p)
    PROVE  WorkersOK(worker')
BY DEF WorkersOK, Worker, WorkerPcs, NoWorker, Exit

LEMMA LaunchesType ==
    ASSUME NEW w, WorkersOK(w), NEW j \in Jobs, NEW x \in Launches(w, j)
    PROVE  WorkersOK(x)
<1>1. Fresh(j) \in Worker /\ Fresh(j).pc = "boot" /\ Fresh(j).job = j
    BY DEF Fresh, NoWorker, Worker, WorkerPcs
<1>2. x = w \/ \E p \in Pids : x = [w EXCEPT ![p] = Fresh(j)]
    BY DEF Launches
<1>3. QED
    BY <1>1, <1>2, WorkerSet

LEMMA TypeInit == Init => TypeOK
BY DEF Init, TypeOK, RowsOK, Row, NoRow, Statuses, WorkersOK, Worker, WorkerPcs, NoWorker, Sweep

\* One step per action; the rows change only through SetTo.
LEMMA TypeStep ==
    ASSUME TypeOK, [Next]_vars
    PROVE  TypeOK'
<1> USE DEF TypeOK, Disturb, At, Job
<1>1. ASSUME NEW p \in Pids, Boot(p) PROVE TypeOK'
    BY <1>1 DEF Boot, WorkersOK, Worker, WorkerPcs
<1>2. ASSUME NEW p \in Pids, Check(p) PROVE TypeOK'
    BY <1>2, GotoStep, ExitStep DEF Check, WorkerPcs
<1>3. ASSUME NEW p \in Pids, Claim(p) PROVE TypeOK'
    BY <1>3, RowWrites, GotoStep DEF Claim, WorkersOK, WorkerPcs
<1>4. ASSUME NEW p \in Pids, Refused(p) PROVE TypeOK'
    BY <1>4, GotoStep, ExitStep DEF Refused, WorkerPcs
<1>5. ASSUME NEW p \in Pids, Probe(p) PROVE TypeOK'
    BY <1>5, ExitStep DEF Probe, Orphans, Running, WorkersOK, Worker, WorkerPcs
<1>6. ASSUME NEW p \in Pids, Reconcile(p) PROVE TypeOK'
  <2>1. PICK j \in worker[p].orphans :
          /\ rows' = Reclaimed(rows, j) /\ Takes(j)
          /\ worker' = [worker EXCEPT ![p].orphans = @ \ {j},
                          ![p].pc = IF worker[p].orphans = {j} THEN "again" ELSE @]
    BY <1>6 DEF Reconcile
  <2>2. j \in Jobs /\ worker[p].pc = "reconcile"
    BY <1>6 DEF Reconcile, WorkersOK, Worker
  <2>3. RowsOK(rows')
    BY <2>1, <2>2, RowWrites
  <2>4. WorkersOK(worker')
    <3>1. PICK pc \in {"again", "reconcile"} :
            worker' = [worker EXCEPT ![p].orphans = @ \ {j}, ![p].pc = pc]
      BY <2>1, <2>2
    <3>2. [worker[p] EXCEPT !.orphans = @ \ {j}, !.pc = pc] \in Worker
      BY DEF WorkersOK, Worker, WorkerPcs
    <3>3. worker' = [worker EXCEPT ![p] = [worker[p] EXCEPT !.orphans = @ \ {j}, !.pc = pc]]
      BY <3>1 DEF WorkersOK, Worker
    <3>4. QED
      BY <2>2, <3>2, <3>3 DEF WorkersOK, Worker
  <2>5. overtaken' \subseteq Jobs
    BY <2>1, <2>2 DEF Takes
  <2>6. QED
    BY <1>6, <2>3, <2>4, <2>5 DEF Reconcile
<1>7. ASSUME NEW p \in Pids, ClaimAgain(p) PROVE TypeOK'
    BY <1>7, RowWrites, GotoStep, ExitStep DEF ClaimAgain, WorkersOK, WorkerPcs
<1>8. ASSUME NEW p \in Pids, Prepare(p) PROVE TypeOK'
    BY <1>8, GotoStep, FailStep DEF Prepare, WorkerPcs
<1>9. ASSUME NEW p \in Pids, Boundary(p) PROVE TypeOK'
    BY <1>9, ExitStep DEF Boundary, Goto, WorkersOK, Worker, WorkerPcs
<1>10. ASSUME NEW p \in Pids, RecordUnit(p) PROVE TypeOK'
    BY <1>10 DEF RecordUnit, Oldest, WorkersOK, Worker, WorkerPcs
<1>11. ASSUME NEW p \in Pids, PageFails(p) PROVE TypeOK'
    BY <1>11, FailStep DEF PageFails
<1>12. ASSUME NEW p \in Pids, ReadUnits(p) \/ WriteSidecar(p) \/ IndexEntry(p) PROVE TypeOK'
  <2>1. Job(p) \in Jobs
    BY <1>12 DEF ReadUnits, WriteSidecar, IndexEntry, WorkersOK
  <2>2. CASE ReadUnits(p)
    <3>1. CASE Fail(p)
      BY <2>2, <3>1, FailStep DEF ReadUnits
    <3>2. CASE worker' = [worker EXCEPT ![p].texts = units[Job(p)], ![p].pc = "write"]
      <4>1. [worker[p] EXCEPT !.texts = units[Job(p)], !.pc = "write"] \in Worker
        BY <2>1 DEF WorkersOK, Worker, WorkerPcs
      <4>2. worker' = [worker EXCEPT ![p] =
                         [worker[p] EXCEPT !.texts = units[Job(p)], !.pc = "write"]]
        BY <3>2 DEF WorkersOK
      <4>3. WorkersOK(worker')
        BY <2>1, <4>1, <4>2 DEF WorkersOK, Worker
      <4>4. QED
        BY <2>2, <4>3 DEF ReadUnits
    <3>3. QED
      BY <2>2, <3>1, <3>2 DEF ReadUnits
  <2>3. CASE WriteSidecar(p)
    <3>1. WorkersOK(worker') /\ worker[p].texts \subseteq Pages
      BY <2>3, ToIndexStep, FailStep DEF WriteSidecar, WorkersOK, Worker
    <3>2. QED
      BY <2>1, <2>3, <3>1 DEF WriteSidecar
  <2>4. CASE IndexEntry(p)
    BY <2>4, GotoStep, FailStep DEF IndexEntry, WorkerPcs
  <2>5. QED
    BY <1>12, <2>2, <2>3, <2>4
<1>13. ASSUME NEW p \in Pids, Finish(p) PROVE TypeOK'
  <2>1. worker[p].pc = "finish" /\ Job(p) \in Jobs /\ worker[p].outcome \in Terminal
    BY <1>13 DEF Finish, WorkersOK, Worker, Terminal
  <2>2. RowsOK(rows')
    BY <1>13, <2>1, RowWrites DEF Finish
  <2>3. WorkersOK(worker')
    BY <1>13, <2>1, GotoStep DEF Finish, WorkerPcs
  <2>4. QED
    BY <1>13, <2>2, <2>3 DEF Finish
<1>14. ASSUME NEW p \in Pids, Cleanup(p) PROVE TypeOK'
    BY <1>14, GotoStep DEF Cleanup, WorkerPcs
<1>15. ASSUME NEW p \in Pids, Chain(p) PROVE TypeOK'
  <2>1. CASE QueuedJobs(rows) = {} /\ Exit(p)
    BY <1>15, <2>1, ExitStep DEF Chain
  <2>2. CASE \E j \in Oldest(QueuedJobs(rows)) : \E w \in Launches(worker, j) :
               worker' = [w EXCEPT ![p] = NoWorker]
    <3>1. PICK j \in Jobs :
             \E w \in Launches(worker, j) : worker' = [w EXCEPT ![p] = NoWorker]
      BY <2>2 DEF Oldest, QueuedJobs
    <3>2. PICK w \in Launches(worker, j) : worker' = [w EXCEPT ![p] = NoWorker]
      BY <3>1
    <3>3. WorkersOK(w)
      BY <3>2, LaunchesType
    <3>4. WorkersOK(worker')
      BY <3>2, <3>3 DEF WorkersOK, Worker, WorkerPcs, NoWorker
    <3>5. QED
      BY <1>15, <3>4 DEF Chain
  <2>3. QED
    BY <1>15, <2>1, <2>2 DEF Chain
<1>16. ASSUME NEW p \in Pids, Crash(p) PROVE TypeOK'
    BY <1>16, ExitStep DEF Crash
<1>17. ASSUME SweepRead PROVE TypeOK'
    BY <1>17 DEF SweepRead, Orphans, Running, Sweep
<1>18. ASSUME SweepRequeue PROVE TypeOK'
  <2>1. ASSUME NEW j \in sweep.jobs, rows' = Reclaimed(rows, j), Takes(j),
               sweep' = [sweep EXCEPT !.jobs = @ \ {j}, !.again = @ \cup {j}]
        PROVE  TypeOK'
    <3>1. j \in Jobs
      BY DEF Sweep
    <3>2. RowsOK(rows')
      BY <2>1, <3>1, RowWrites
    <3>3. sweep' \in Sweep /\ overtaken' \subseteq Jobs
      BY <2>1, <3>1 DEF Sweep, Takes
    <3>4. QED
      BY <1>18, <3>2, <3>3 DEF SweepRequeue
  <2>2. CASE sweep' = [sweep EXCEPT !.pc = "respawn"] /\ UNCHANGED <<rows, overtaken>>
    BY <1>18, <2>2 DEF SweepRequeue, Sweep
  <2>3. QED
    BY <1>18, <2>1, <2>2 DEF SweepRequeue
<1>19. ASSUME SweepRespawn PROVE TypeOK'
    BY <1>19, LaunchesType DEF SweepRespawn, Sweep
<1>20. ASSUME SweepPickup PROVE TypeOK'
    BY <1>20, LaunchesType DEF SweepPickup, Oldest, QueuedJobs, Sweep
<1>21. ASSUME SweepCrash PROVE TypeOK'
    BY <1>21 DEF SweepCrash, Sweep
<1>22. ASSUME NEW j \in Jobs, Ingest(j) PROVE TypeOK'
    BY <1>22, SetToType, LaunchesType DEF Ingest, Statuses, Terminal
<1>23. ASSUME NEW j \in Jobs, StopRead(j) PROVE TypeOK'
    BY <1>23 DEF StopRead
<1>24. ASSUME StopWrite PROVE TypeOK'
    BY <1>24, RowWrites DEF StopWrite, Takes
<1>25. ASSUME NEW j \in Jobs, Retry(j) PROVE TypeOK'
    BY <1>25, RowWrites, LaunchesType DEF Retry
<1>26. ASSUME NEW j \in Jobs, Age(j) PROVE TypeOK'
  <2>1. rows' = [rows EXCEPT ![j].aged = TRUE]
    BY <1>26 DEF Age
  <2>2. [rows[j] EXCEPT !.aged = TRUE] \in Row
    BY DEF RowsOK, Row
  <2>3. RowsOK(rows')
    BY <2>1, <2>2 DEF RowsOK
  <2>4. QED
    BY <1>26, <2>3 DEF Age
<1>27. CASE UNCHANGED vars
    BY <1>27 DEF vars
<1>28. QED
    BY <1>1, <1>2, <1>3, <1>4, <1>5, <1>6, <1>7, <1>8, <1>9, <1>10, <1>11, <1>12,
       <1>13, <1>14, <1>15, <1>16, <1>17, <1>18, <1>19, <1>20, <1>21, <1>22, <1>23,
       <1>24, <1>25, <1>26, <1>27
       DEF Next, WorkerStep, SweepStep

\* The types hold in every reachable state.
THEOREM JobsTypeOK == Spec => []TypeOK
BY TypeInit, TypeStep, PTL DEF Spec

---------------------------------------------------------------------------
(* The cap                                                                 *)

\* Every write but a claim's leaves no more rows running.
LEMMA CapWrites ==
    ASSUME NEW r, RowsOK(r), NEW j \in Jobs, Cardinality(Running(r)) <= Cap
    PROVE  /\ \A o \in Terminal : Cardinality(Running(Finished(r, j, o))) <= Cap
           /\ Cardinality(Running(Cancelled(r, j))) <= Cap
           /\ Cardinality(Running(Requeued(r, j))) <= Cap
           /\ Cardinality(Running(Reclaimed(r, j))) <= Cap
           /\ Cardinality(Running(SetTo(r, j, "queued", NoPid))) <= Cap
BY NotRunning DEF Finished, Cancelled, Requeued, Reclaimed, Statuses, Terminal

LEMMA CapInit == Init => WithinCap
<1> SUFFICES ASSUME Init PROVE WithinCap
    OBVIOUS
<1>1. Running(rows) = {}
    BY DEF Init, NoRow, Running
<1>2. QED
    BY <1>1, FS_EmptySet, CapAssumption DEF WithinCap

LEMMA CapStep ==
    ASSUME TypeOK, WithinCap, [Next]_vars
    PROVE  WithinCap'
<1> USE DEF TypeOK, WithinCap
<1>a. \A p \in Pids : worker[p].pc # "none" => Job(p) \in Jobs
    BY DEF WorkersOK, Job
<1>b. CASE rows' = rows
    BY <1>b
<1>1. ASSUME NEW p \in Pids, Claim(p) PROVE WithinCap'
    BY <1>1, <1>a, <1>b, ClaimFits DEF Claim, At
<1>2. ASSUME NEW p \in Pids, ClaimAgain(p) PROVE WithinCap'
    BY <1>2, <1>a, <1>b, ClaimFits DEF ClaimAgain, At
<1>3. ASSUME NEW p \in Pids, Reconcile(p) PROVE WithinCap'
    BY <1>3, CapWrites DEF Reconcile, WorkersOK, Worker
<1>4. ASSUME NEW p \in Pids, Finish(p) PROVE WithinCap'
  <2>1. Job(p) \in Jobs /\ worker[p].outcome \in Terminal
    BY <1>4, <1>a DEF Finish, At, WorkersOK, Worker, Terminal
  <2>2. QED
    BY <1>4, <1>b, <2>1, CapWrites DEF Finish
<1>5. ASSUME SweepRequeue PROVE WithinCap'
    BY <1>5, <1>b, CapWrites DEF SweepRequeue, Sweep
<1>6. ASSUME NEW j \in Jobs, Ingest(j) PROVE WithinCap'
    BY <1>6, CapWrites DEF Ingest
<1>7. ASSUME StopWrite PROVE WithinCap'
    BY <1>7, CapWrites DEF StopWrite
<1>8. ASSUME NEW j \in Jobs, Retry(j) PROVE WithinCap'
    BY <1>8, CapWrites DEF Retry
<1>9. ASSUME NEW j \in Jobs, Age(j) PROVE WithinCap'
  <2>1. Running(rows') \subseteq Running(rows)
    BY <1>9 DEF Age, RowsOK, Row, Running
  <2>2. QED
    BY <2>1, FewerRun
<1>10. ASSUME NEW p \in Pids,
              \/ Boot(p) \/ Check(p) \/ Refused(p) \/ Probe(p) \/ Prepare(p) \/ Boundary(p)
              \/ RecordUnit(p) \/ PageFails(p) \/ ReadUnits(p) \/ WriteSidecar(p) \/ IndexEntry(p)
              \/ Cleanup(p) \/ Chain(p) \/ Crash(p)
       PROVE  WithinCap'
    BY <1>10, <1>b DEF Boot, Check, Refused, Probe, Prepare, Boundary, RecordUnit, PageFails,
                       ReadUnits, WriteSidecar, IndexEntry, Cleanup, Chain, Crash
<1>11. ASSUME \/ SweepRead \/ SweepRespawn \/ SweepPickup \/ SweepCrash
              \/ \E j \in Jobs : StopRead(j)
       PROVE  WithinCap'
    BY <1>11, <1>b DEF SweepRead, SweepRespawn, SweepPickup, SweepCrash, StopRead
<1>12. CASE UNCHANGED vars
    BY <1>12, <1>b DEF vars
<1>13. QED
    BY <1>1, <1>2, <1>3, <1>4, <1>5, <1>6, <1>7, <1>8, <1>9, <1>10, <1>11, <1>12
       DEF Next, WorkerStep, SweepStep

\* However the claims of any number of workers interleave with takeovers, crashes, stops
\* and retries, no more rows are running than the cap (JobRegistry.claim).
THEOREM RunningWithinCap == Spec => []WithinCap
BY TypeInit, TypeStep, CapInit, CapStep, PTL DEF Spec

\* The types and the cap, as the run jobs_safe checks them.
THEOREM JobsAreConsistent == Spec => []JobsConsistent
<1>1. TypeOK /\ WithinCap => JobsConsistent
    BY DEF JobsConsistent
<1>2. QED
    BY <1>1, JobsTypeOK, RunningWithinCap, PTL

---------------------------------------------------------------------------
(* The published text                                                      *)

\* The stages of a worker that has claimed its job, and those in which it knows the pages
\* that were recorded before it.
Past  == {"claimed", "boundary", "page", "publish", "write", "index", "finish"}
Knows == {"check", "claim", "refused", "probe", "reconcile", "again",
          "claimed", "boundary", "page", "publish"}

\* A worker of a job whose row was not taken from it: the row is its own from the claim to
\* the finish, what it need not do is recorded, it writes every page and it finishes what it
\* has published.
Fit(p) ==
    LET j == Job(p) IN
    /\ At(p, "publish") => worker[p].todo = {}
    /\ worker[p].pc # "none" /\ j \notin overtaken =>
         /\ worker[p].pc \in Past => Owns(rows, j, p)
         /\ worker[p].pc \in Knows /\ rows[j].status # "done" => Pages \ worker[p].todo \subseteq units[j]
         /\ At(p, "write") => worker[p].texts = Pages
         /\ At(p, "index") => sidecar[j] = Pages
         /\ At(p, "finish") /\ worker[p].outcome = "done" => sidecar[j] = Pages
         /\ At(p, "cleanup") => rows[j].status = "done"

DoneInd == DoneIsComplete /\ \A p \in Pids : Fit(p)

\* What a step leaves of a job: done stays done and pages stay recorded until it is; its row
\* and its text stay.  Taking the row from a live worker is no step of either kind.
Kept(i) ==
    i \notin overtaken' =>
      /\ i \notin overtaken
      /\ rows[i].status = "done" => rows'[i].status = "done"
      /\ units[i] \subseteq units'[i] \/ rows[i].status = "done"
Spared(i) ==
    i \notin overtaken' =>
      /\ rows'[i].status = rows[i].status /\ rows'[i].pid = rows[i].pid
      /\ sidecar'[i] = sidecar[i]

\* A worker that does not step.
LEMMA OtherFits ==
    ASSUME NEW q \in Pids, Fit(q), worker'[q] = worker[q],
           worker[q].pc # "none" => Kept(Job(q)),
           worker[q].pc \in Past => Spared(Job(q))
    PROVE  Fit(q)'
<1>1. Job(q)' = Job(q) /\ \A x \in WorkerPcs : At(q, x)' <=> At(q, x)
    BY DEF Job, At
<1>2. At(q, "publish")' => worker'[q].todo = {}
    BY DEF Fit, At
<1>3. ASSUME worker[q].pc # "none", Job(q) \notin overtaken'
      PROVE  /\ worker[q].pc \in Past => Owns(rows', Job(q), q)
             /\ worker[q].pc \in Knows /\ rows'[Job(q)].status # "done"
                  => Pages \ worker[q].todo \subseteq units'[Job(q)]
             /\ At(q, "write") => worker[q].texts = Pages
             /\ At(q, "index") => sidecar'[Job(q)] = Pages
             /\ At(q, "finish") /\ worker[q].outcome = "done" => sidecar'[Job(q)] = Pages
             /\ At(q, "cleanup") => rows'[Job(q)].status = "done"
  <2>1. /\ Job(q) \notin overtaken
        /\ rows[Job(q)].status = "done" => rows'[Job(q)].status = "done"
        /\ units[Job(q)] \subseteq units'[Job(q)] \/ rows[Job(q)].status = "done"
    BY <1>3 DEF Kept
  <2>2. worker[q].pc \in Past =>
          /\ rows'[Job(q)].status = rows[Job(q)].status /\ rows'[Job(q)].pid = rows[Job(q)].pid
          /\ sidecar'[Job(q)] = sidecar[Job(q)]
    BY <1>3 DEF Spared
  <2>3. /\ worker[q].pc \in Past => Owns(rows, Job(q), q)
        /\ worker[q].pc \in Knows /\ rows[Job(q)].status # "done"
             => Pages \ worker[q].todo \subseteq units[Job(q)]
        /\ At(q, "write") => worker[q].texts = Pages
        /\ At(q, "index") => sidecar[Job(q)] = Pages
        /\ At(q, "finish") /\ worker[q].outcome = "done" => sidecar[Job(q)] = Pages
        /\ At(q, "cleanup") => rows[Job(q)].status = "done"
    BY <1>3, <2>1 DEF Fit
  <2>4. worker[q].pc \in Past => Owns(rows', Job(q), q)
    BY <2>2, <2>3 DEF Owns
  <2>5. /\ At(q, "index") => sidecar'[Job(q)] = Pages
        /\ At(q, "finish") /\ worker[q].outcome = "done" => sidecar'[Job(q)] = Pages
    BY <2>2, <2>3 DEF At, Past
  <2>6. QED
    BY <2>1, <2>3, <2>4, <2>5
<1>4. QED
    BY <1>1, <1>2, <1>3 DEF Fit, At, Job

\* A worker that has just been started, and one that is gone.
LEMMA NewFits ==
    ASSUME NEW q \in Pids, worker'[q].pc \in {"none", "boot"}
    PROVE  Fit(q)'
BY DEF Fit, At, Past, Knows

LEMMA Launched ==
    ASSUME NEW w, NEW j, NEW x \in Launches(w, j), w \in [Pids -> Worker]
    PROVE  \A q \in Pids : x[q] = w[q] \/ (x[q].pc = "boot" /\ w[q].pc = "none")
<1>1. Fresh(j).pc = "boot"
    BY DEF Fresh, NoWorker
<1>2. x = w \/ \E p \in Pids : w[p].pc = "none" /\ x = [w EXCEPT ![p] = Fresh(j)]
    BY DEF Launches
<1>3. QED
    BY <1>1, <1>2

\* The whole step, from what it does to the jobs, to the workers and to the one that acts.
LEMMA StepFits ==
    ASSUME DoneInd, DoneIsComplete', NEW P \in SUBSET Pids,
           \A q \in P : Fit(q)',
           \A q \in Pids \ P : \/ worker'[q].pc \in {"none", "boot"}
                             \/ /\ worker'[q] = worker[q]
                                /\ worker[q].pc # "none" => Kept(Job(q))
                                /\ worker[q].pc \in Past => Spared(Job(q))
    PROVE  DoneInd'
<1>1. ASSUME NEW q \in Pids \ P PROVE Fit(q)'
    BY <1>1, OtherFits, NewFits DEF DoneInd
<1>2. QED
    BY <1>1 DEF DoneInd

LEMMA OneActs ==
    ASSUME DoneInd, DoneIsComplete', NEW p \in Pids, Fit(p)',
           \A q \in Pids \ {p} : /\ worker'[q] = worker[q]
                                 /\ worker[q].pc # "none" => Kept(Job(q))
                                 /\ worker[q].pc \in Past => Spared(Job(q))
    PROVE  DoneInd'
<1>1. {p} \in SUBSET Pids /\ \A q \in {p} : Fit(q)'
    OBVIOUS
<1>2. QED
    BY <1>1, StepFits

LEMMA NobodyActs ==
    ASSUME DoneInd, DoneIsComplete',
           \A q \in Pids : \/ worker'[q].pc \in {"none", "boot"}
                           \/ /\ worker'[q] = worker[q]
                              /\ worker[q].pc # "none" => Kept(Job(q))
                              /\ worker[q].pc \in Past => Spared(Job(q))
    PROVE  DoneInd'
<1>1. {} \in SUBSET Pids /\ \A q \in {} : Fit(q)'
    OBVIOUS
<1>2. QED
    BY <1>1, StepFits

\* Steps that leave rows, pages and texts alone.
LEMMA QuietOne ==
    ASSUME DoneInd, UNCHANGED <<rows, units, sidecar, overtaken>>, NEW p \in Pids,
           Fit(p)', \A q \in Pids \ {p} : worker'[q] = worker[q]
    PROVE  DoneInd'
<1>1. DoneIsComplete'
    BY DEF DoneInd, DoneIsComplete
<1>2. \A i : Kept(i) /\ Spared(i)
    BY DEF Kept, Spared
<1>3. QED
    BY <1>1, <1>2, OneActs

LEMMA QuietNobody ==
    ASSUME DoneInd, UNCHANGED <<rows, units, sidecar, overtaken>>,
           \A q \in Pids : worker'[q] = worker[q] \/ worker'[q].pc \in {"none", "boot"}
    PROVE  DoneInd'
<1>1. DoneIsComplete'
    BY DEF DoneInd, DoneIsComplete
<1>2. \A i : Kept(i) /\ Spared(i)
    BY DEF Kept, Spared
<1>3. QED
    BY <1>1, <1>2, NobodyActs

\* The one that acts, from its job's row, pages and text after the step.
LEMMA ActorFits ==
    ASSUME NEW p \in Pids, NEW j, Job(p)' = j, NEW x, worker'[p].pc = x,
           x = "publish" => worker'[p].todo = {},
           j \notin overtaken' =>
             /\ x \in Past => Owns(rows', j, p)
             /\ x \in Knows /\ rows'[j].status # "done" => Pages \ worker'[p].todo \subseteq units'[j]
             /\ x = "write" => worker'[p].texts = Pages
             /\ x = "index" => sidecar'[j] = Pages
             /\ x = "finish" /\ worker'[p].outcome = "done" => sidecar'[j] = Pages
             /\ x = "cleanup" => rows'[j].status = "done"
    PROVE  Fit(p)'
BY DEF Fit, At, Job

LEMMA QuietFits ==
    ASSUME NEW p \in Pids, Fit(p), UNCHANGED <<rows, units, sidecar, overtaken>>,
           Job(p)' = Job(p), worker[p].pc # "none", NEW x, worker'[p].pc = x,
           x \in Past => worker[p].pc \in Past,
           x \in Knows => worker[p].pc \in Knows /\ worker'[p].todo = worker[p].todo,
           x = "publish" => worker'[p].todo = {},
           x = "finish" => worker'[p].outcome # "done",
           x \notin {"write", "index", "cleanup"}
    PROVE  Fit(p)'
<1> DEFINE j == Job(p)
<1>1. j \notin overtaken' =>
             /\ x \in Past => Owns(rows', j, p)
             /\ x \in Knows /\ rows'[j].status # "done" => Pages \ worker'[p].todo \subseteq units'[j]
    BY DEF Fit
<1>2. QED
    BY <1>1, ActorFits

\* The one that acts: where it goes, it keeps its job, its pages to do and its outcome.
LEMMA GotoIs ==
    ASSUME TypeOK, NEW p \in Pids, NEW x, Goto(p, x)
    PROVE  /\ worker'[p].pc = x /\ Job(p)' = Job(p)
           /\ worker'[p].todo = worker[p].todo /\ worker'[p].outcome = worker[p].outcome
           /\ \A q \in Pids \ {p} : worker'[q] = worker[q]
BY DEF TypeOK, WorkersOK, Worker, Goto, Job

LEMMA ExitIs ==
    ASSUME TypeOK, NEW p \in Pids, Exit(p)
    PROVE  worker'[p].pc = "none" /\ \A q \in Pids \ {p} : worker'[q] = worker[q]
BY DEF TypeOK, WorkersOK, Exit, NoWorker

LEMMA FailIs ==
    ASSUME TypeOK, NEW p \in Pids, Fail(p)
    PROVE  /\ worker'[p].pc = "finish" /\ Job(p)' = Job(p) /\ worker'[p].outcome = "failed"
           /\ \A q \in Pids \ {p} : worker'[q] = worker[q]
BY DEF TypeOK, WorkersOK, Worker, Fail, Job

\* The row of a job is taken: not from a live worker, unless that is remembered.
LEMMA TakenFits ==
    ASSUME TypeOK, DoneInd, NEW j \in Jobs, NEW s \in {"queued", "cancelled"}, Takes(j),
           rows' = SetTo(rows, j, s, NoPid), UNCHANGED <<units, sidecar>>
    PROVE  /\ DoneIsComplete'
           /\ \A i \in Jobs : Kept(i)
           /\ \A q \in Pids : worker[q].pc \in Past => Spared(Job(q))
<1>a. rows'[j].status = s /\ \A i \in Jobs : i # j => rows'[i] = rows[i]
    BY DEF TypeOK, RowsOK, SetTo
<1>b. \A i \in Jobs : i \notin overtaken' => i \notin overtaken
    BY DEF Takes
<1>1. /\ rows'[j].status = s /\ \A i \in Jobs : i # j => rows'[i] = rows[i]
      /\ \A i \in Jobs : i \notin overtaken' => i \notin overtaken
    BY <1>a, <1>b
<1>2. j \notin overtaken' =>
        rows[j].status = "queued" \/ (rows[j].status = "running" /\ rows[j].pid \notin Alive)
    BY DEF Takes
<1>3. DoneIsComplete'
    BY <1>1 DEF DoneInd, DoneIsComplete
<1>4. \A i \in Jobs : Kept(i)
    BY <1>1, <1>2 DEF Kept
<1>5. ASSUME NEW q \in Pids, worker[q].pc \in Past PROVE Spared(Job(q))
  <2>1. Job(q) \in Jobs /\ q \in Alive /\ worker[q].pc # "none"
    BY <1>5 DEF TypeOK, WorkersOK, Job, Past, Alive
  <2>2. CASE Job(q) # j
    BY <1>1, <2>1, <2>2 DEF Spared
  <2>3. CASE Job(q) = j
    <3>1. j \notin overtaken' => Owns(rows, j, q)
      BY <1>1, <1>5, <2>1, <2>3 DEF DoneInd, Fit
    <3>2. j \in overtaken'
      BY <1>2, <2>1, <3>1 DEF Owns
    <3>3. QED
      BY <2>3, <3>2 DEF Spared
  <2>4. QED
    BY <2>2, <2>3
<1>6. QED
    BY <1>3, <1>4, <1>5

\* A row that waits, or that nobody has claimed, is nobody's whose row was not taken.
LEMMA NobodyPast ==
    ASSUME TypeOK, DoneInd, NEW j \in Jobs, rows[j].status # "running", j \notin overtaken,
           NEW q \in Pids, worker[q].pc \in Past
    PROVE  Job(q) # j
BY DEF DoneInd, Fit, Owns, Past

\* A row is written that is not done and that no live worker has, without a word of the rest.
LEMMA WaitingFits ==
    ASSUME TypeOK, DoneInd, NEW j \in Jobs, NEW r \in Row,
           rows[j].status \notin {"running", "done"}, r.status # "done",
           rows' = [rows EXCEPT ![j] = r], UNCHANGED <<units, sidecar, overtaken>>
    PROVE  /\ DoneIsComplete'
           /\ \A i \in Jobs : Kept(i)
           /\ \A q \in Pids : worker[q].pc \in Past => Spared(Job(q))
<1>1. rows'[j] = r /\ \A i \in Jobs : i # j => rows'[i] = rows[i]
    BY DEF TypeOK, RowsOK
<1>2. DoneIsComplete'
    BY <1>1 DEF DoneInd, DoneIsComplete
<1>3. \A i \in Jobs : Kept(i)
    BY <1>1 DEF Kept
<1>4. ASSUME NEW q \in Pids, worker[q].pc \in Past PROVE Spared(Job(q))
  <2>1. Job(q) \in Jobs
    BY <1>4 DEF TypeOK, WorkersOK, Job, Past
  <2>2. CASE Job(q) = j
    BY <1>4, <2>2, NobodyPast DEF Spared
  <2>3. CASE Job(q) # j
    BY <1>1, <2>1, <2>3 DEF Spared
  <2>4. QED
    BY <2>2, <2>3
<1>5. QED
    BY <1>2, <1>3, <1>4

\* A claim, at first or after a takeover: what the worker knew at its start is still recorded,
\* since the job was not done in between.
LEMMA ClaimFitsText ==
    ASSUME TypeOK, DoneInd, NEW p \in Pids, At(p, "claim") \/ At(p, "again"),
           Claimable(rows, Job(p)), rows' = Claimed(rows, Job(p), p), Goto(p, "claimed"),
           UNCHANGED <<units, sidecar, overtaken>>
    PROVE  DoneInd'
<1> DEFINE j == Job(p)
           r == [status |-> "running", pid |-> p, aged |-> FALSE]
<1>1. j \in Jobs /\ worker[p].pc # "none" /\ worker[p].pc \in Knows /\ Fit(p)
    BY DEF TypeOK, WorkersOK, Job, At, Knows, DoneInd
<1>2. r \in Row /\ r.status = "running" /\ r.pid = p /\ rows' = [rows EXCEPT ![j] = r]
    BY DEF Row, Statuses, Claimed, SetTo
<1> HIDE DEF r
<1>3. rows[j].status = "queued" /\ Owns(rows', j, p)
    BY <1>1, <1>2 DEF Claimable, Owns, TypeOK, RowsOK
<1>4. /\ DoneIsComplete'
      /\ \A i \in Jobs : Kept(i)
      /\ \A q \in Pids : worker[q].pc \in Past => Spared(Job(q))
    BY <1>1, <1>2, <1>3, WaitingFits
<1>5. /\ worker'[p].pc = "claimed" /\ Job(p)' = j /\ worker'[p].todo = worker[p].todo
      /\ \A q \in Pids \ {p} : worker'[q] = worker[q]
    BY GotoIs
<1>6. j \notin overtaken => Pages \ worker[p].todo \subseteq units[j]
    BY <1>1, <1>3 DEF Fit
<1>7. Fit(p)'
  <2>1. worker'[p].pc \notin {"publish", "write", "index", "finish", "cleanup"} /\ UNCHANGED units
    BY <1>5
  <2>2. j \notin overtaken' => Pages \ worker'[p].todo \subseteq units'[j]
    BY <1>5, <1>6
  <2>3. QED
    BY <1>3, <1>5, <2>1, <2>2, ActorFits
<1>8. \A q \in Pids : worker[q].pc # "none" => Job(q) \in Jobs
    BY DEF TypeOK, WorkersOK, Job
<1>9. QED
    BY <1>4, <1>5, <1>7, <1>8, OneActs

\* Beside a worker that has its row nobody is past the claim of that job.
LEMMA OnlyOnePast ==
    ASSUME TypeOK, DoneInd, NEW p \in Pids, Owns(rows, Job(p), p),
           NEW q \in Pids, q # p, worker[q].pc \in Past, Job(q) = Job(p)
    PROVE  Job(p) \in overtaken
<1>1. Job(q) \notin overtaken => Owns(rows, Job(q), q)
    BY DEF DoneInd, Fit, Past
<1>2. QED
    BY <1>1 DEF Owns

LEMMA DoneInit == Init => DoneInd
<1> SUFFICES ASSUME Init PROVE DoneInd
    OBVIOUS
<1>1. \A p \in Pids : worker[p].pc = "none"
    BY DEF Init, NoWorker
<1>2. \A j \in Jobs : rows[j].status = "absent"
    BY DEF Init, NoRow
<1>3. QED
    BY <1>1, <1>2 DEF DoneInd, DoneIsComplete, Fit, At

\* One step per action: who moves on, who writes the row, the pages or the text.
LEMMA DoneStep ==
    ASSUME TypeOK, DoneInd, [Next]_vars
    PROVE  DoneInd'
<1>t. /\ worker \in [Pids -> Worker] /\ rows \in [Jobs -> Row]
      /\ \A q \in Pids : worker[q].pc # "none" => Job(q) \in Jobs
      /\ \A q \in Pids : worker[q].pc \in Past => Job(q) \in Jobs
      /\ \A q \in Pids : Fit(q)
    BY DEF TypeOK, RowsOK, WorkersOK, Job, Past, DoneInd
<1>1. ASSUME NEW p \in Pids, Boot(p) PROVE DoneInd'
  <2>1. /\ worker'[p].pc = "check" /\ Job(p)' = Job(p)
        /\ worker'[p].todo = Pages \ units[Job(p)]
        /\ \A q \in Pids \ {p} : worker'[q] = worker[q]
        /\ UNCHANGED <<rows, units, sidecar, overtaken>>
    BY <1>1, <1>t DEF Boot, Job, Worker
  <2>2. Pages \ worker'[p].todo \subseteq units'[Job(p)] /\ "check" \notin Past
    BY <2>1 DEF Past
  <2>3. Fit(p)'
    BY <2>1, <2>2, ActorFits
  <2>4. QED
    BY <2>1, <2>3, QuietOne
<1>2. ASSUME NEW p \in Pids, NEW x \in {"claim", "refused", "probe", "reconcile"}, UNCHANGED <<rows, units, sidecar, overtaken>>,
             worker[p].pc \in Knows, Goto(p, x)
      PROVE  DoneInd'
  <2>1. /\ worker'[p].pc = x /\ Job(p)' = Job(p) /\ worker'[p].todo = worker[p].todo
        /\ \A q \in Pids \ {p} : worker'[q] = worker[q]
    BY <1>2, GotoIs
  <2>2. Fit(p)'
    BY <1>2, <1>t, <2>1, QuietFits DEF Past, Knows
  <2>3. QED
    BY <1>2, <2>1, <2>2, QuietOne
<1>3. ASSUME NEW p \in Pids, UNCHANGED <<rows, units, sidecar, overtaken>>, Exit(p) PROVE DoneInd'
    BY <1>3, ExitIs, QuietNobody
<1>4. ASSUME NEW p \in Pids, UNCHANGED <<rows, units, sidecar, overtaken>>, Fail(p),
             worker[p].pc \in Past
      PROVE  DoneInd'
  <2>1. /\ worker'[p].pc = "finish" /\ Job(p)' = Job(p) /\ worker'[p].outcome = "failed"
        /\ \A q \in Pids \ {p} : worker'[q] = worker[q]
    BY <1>4, FailIs
  <2>2. Fit(p)'
    BY <1>4, <1>t, <2>1, QuietFits DEF Past, Knows
  <2>3. QED
    BY <1>4, <2>1, <2>2, QuietOne
<1>5. ASSUME NEW p \in Pids, UNCHANGED <<rows, units, sidecar, overtaken>>, Goto(p, "chain") PROVE DoneInd'
  <2>1. /\ worker'[p].pc = "chain" /\ Job(p)' = Job(p)
        /\ \A q \in Pids \ {p} : worker'[q] = worker[q]
    BY <1>5, GotoIs
  <2>2. Fit(p)'
    BY <2>1, ActorFits DEF Past, Knows
  <2>3. QED
    BY <1>5, <2>1, <2>2, QuietOne
<1>6. ASSUME NEW p \in Pids, Check(p) PROVE DoneInd'
    BY <1>2, <1>3, <1>6 DEF Check, At, Knows
<1>7. ASSUME NEW p \in Pids, Claim(p) PROVE DoneInd'
    BY <1>2, <1>7, ClaimFitsText DEF Claim, At, Knows
<1>8. ASSUME NEW p \in Pids, Refused(p) PROVE DoneInd'
    BY <1>2, <1>3, <1>8 DEF Refused, At, Knows
<1>9. ASSUME NEW p \in Pids, Probe(p) PROVE DoneInd'
  <2>1. CASE Exit(p)
    BY <1>3, <1>9, <2>1 DEF Probe
  <2>2. CASE worker' = [worker EXCEPT ![p].orphans = Orphans(rows, Alive), ![p].pc = "reconcile"]
    <3>1. /\ worker'[p].pc = "reconcile" /\ Job(p)' = Job(p) /\ worker'[p].todo = worker[p].todo
          /\ \A q \in Pids \ {p} : worker'[q] = worker[q]
      BY <1>t, <2>2 DEF Job, Worker
    <3>2. At(p, "probe") /\ UNCHANGED <<rows, units, sidecar, overtaken>>
      BY <1>9 DEF Probe
    <3>3. Fit(p)'
      BY <1>t, <3>1, <3>2, QuietFits DEF At, Past, Knows
    <3>4. QED
      BY <3>1, <3>2, <3>3, QuietOne
  <2>3. QED
    BY <1>9, <2>1, <2>2 DEF Probe
<1>10. ASSUME NEW p \in Pids, Reconcile(p) PROVE DoneInd'
  <2>1. PICK j \in worker[p].orphans :
          /\ rows' = Reclaimed(rows, j) /\ Takes(j)
          /\ worker' = [worker EXCEPT ![p].orphans = @ \ {j},
                          ![p].pc = IF worker[p].orphans = {j} THEN "again" ELSE @]
    BY <1>10 DEF Reconcile
  <2>2. j \in Jobs /\ At(p, "reconcile") /\ UNCHANGED <<units, sidecar>>
    BY <1>10, <1>t DEF Reconcile, Worker
  <2>3. /\ worker'[p].pc \in {"reconcile", "again"} /\ Job(p)' = Job(p)
        /\ worker'[p].todo = worker[p].todo
        /\ \A q \in Pids \ {p} : worker'[q] = worker[q]
    BY <1>t, <2>1, <2>2 DEF Job, Worker, At
  <2>4. /\ DoneIsComplete'
        /\ \A i \in Jobs : Kept(i)
        /\ \A q \in Pids : worker[q].pc \in Past => Spared(Job(q))
    BY <2>1, <2>2, TakenFits DEF Reclaimed
  <2>5. Fit(p)'
    <3>1. Kept(Job(p)) /\ worker[p].pc # "none" /\ worker[p].pc \in Knows
      BY <1>t, <2>2, <2>4 DEF At, Knows
    <3>2. Job(p) \notin overtaken' /\ rows'[Job(p)].status # "done"
            => Pages \ worker'[p].todo \subseteq units'[Job(p)]
      BY <1>t, <2>3, <3>1 DEF Fit, Kept
    <3>3. worker'[p].pc \notin Past \cup {"publish", "write", "index", "finish", "cleanup"}
      BY <2>3 DEF Past
    <3>4. QED
      BY <2>3, <3>2, <3>3, ActorFits
  <2>6. QED
    BY <1>t, <2>3, <2>4, <2>5, OneActs
<1>11. ASSUME NEW p \in Pids, ClaimAgain(p) PROVE DoneInd'
    BY <1>3, <1>11, ClaimFitsText DEF ClaimAgain
<1>12. ASSUME NEW p \in Pids, NEW x \in {"boundary", "page", "publish"},
              UNCHANGED <<rows, units, sidecar, overtaken>>, worker[p].pc \in {"claimed", "boundary"},
              x = "publish" => worker[p].todo = {}, Goto(p, x)
       PROVE  DoneInd'
  <2>1. /\ worker'[p].pc = x /\ Job(p)' = Job(p) /\ worker'[p].todo = worker[p].todo
        /\ \A q \in Pids \ {p} : worker'[q] = worker[q]
    BY <1>12, GotoIs
  <2>2. Fit(p)'
    BY <1>12, <1>t, <2>1, QuietFits DEF Past, Knows
  <2>3. QED
    BY <1>12, <2>1, <2>2, QuietOne
<1>13. ASSUME NEW p \in Pids, Prepare(p) PROVE DoneInd'
    BY <1>4, <1>12, <1>13 DEF Prepare, At, Past
<1>14. ASSUME NEW p \in Pids, Boundary(p) PROVE DoneInd'
    BY <1>3, <1>5, <1>12, <1>14 DEF Boundary, At
<1>15. ASSUME NEW p \in Pids, RecordUnit(p) PROVE DoneInd'
  <2> DEFINE j == Job(p)
  <2>1. PICK page \in Oldest(worker[p].todo) :
          /\ units' = [units EXCEPT ![j] = @ \cup {page}]
          /\ worker' = [worker EXCEPT ![p].todo = @ \ {page}, ![p].pc = "boundary"]
    BY <1>15 DEF RecordUnit
  <2>2. j \in Jobs /\ At(p, "page") /\ UNCHANGED <<rows, sidecar, overtaken>>
    BY <1>15, <1>t DEF RecordUnit, At
  <2>3. /\ worker'[p].pc = "boundary" /\ Job(p)' = j /\ worker'[p].todo = worker[p].todo \ {page}
        /\ \A q \in Pids \ {p} : worker'[q] = worker[q]
    BY <1>t, <2>1 DEF Job, Worker
  <2>4. units'[j] = units[j] \cup {page} /\ \A i \in Jobs : units[i] \subseteq units'[i]
    BY <2>1, <2>2 DEF TypeOK
  <2>5. \A i \in Jobs : Kept(i) /\ Spared(i)
    BY <2>2, <2>4 DEF Kept, Spared
  <2>6. Fit(p)'
    <3>1. worker[p].pc \in Past /\ worker[p].pc \in Knows /\ worker[p].pc # "none"
      BY <2>2 DEF At, Past, Knows
    <3>2. j \notin overtaken => Owns(rows, j, p) /\ Pages \ worker[p].todo \subseteq units[j]
      BY <1>t, <3>1 DEF Fit, Owns
    <3>3. j \notin overtaken' => Owns(rows', j, p) /\ Pages \ worker'[p].todo \subseteq units'[j]
      BY <2>2, <2>3, <2>4, <3>2
    <3>4. QED
      BY <2>3, <3>3, ActorFits
  <2>7. DoneIsComplete'
    BY <2>2 DEF DoneInd, DoneIsComplete
  <2>8. QED
    BY <1>t, <2>3, <2>5, <2>6, <2>7, OneActs
<1>16. ASSUME NEW p \in Pids, PageFails(p) PROVE DoneInd'
    BY <1>4, <1>16 DEF PageFails, At, Past
<1>17. ASSUME NEW p \in Pids, ReadUnits(p) \/ WriteSidecar(p) \/ IndexEntry(p) PROVE DoneInd'
  <2> DEFINE j == Job(p)
  <2>1. /\ j \in Jobs /\ worker[p].pc \in {"publish", "write", "index"}
        /\ worker[p].pc \in Past /\ worker[p].pc # "none"
        /\ UNCHANGED <<rows, units, overtaken>> /\ Fit(p)
    BY <1>17, <1>t DEF ReadUnits, WriteSidecar, IndexEntry, At, Past
  <2>2. j \notin overtaken => Owns(rows, j, p) /\ rows[j].status = "running"
    BY <2>1 DEF Fit, Owns
  <2>3. CASE ReadUnits(p)
    <3>1. UNCHANGED <<rows, units, sidecar, overtaken>> /\ At(p, "publish")
      BY <2>3 DEF ReadUnits
    <3>2. j \notin overtaken => units[j] = Pages
      <4>1. j \notin overtaken => Pages \ worker[p].todo \subseteq units[j] /\ worker[p].todo = {}
        BY <2>1, <2>2, <3>1 DEF Fit, At, Knows
      <4>2. units[j] \subseteq Pages
        BY <2>1 DEF TypeOK
      <4>3. QED
        BY <4>1, <4>2
    <3>3. CASE Fail(p)
      BY <1>4, <2>1, <3>1, <3>3
    <3>4. CASE worker' = [worker EXCEPT ![p].texts = units[j], ![p].pc = "write"]
      <4>1. /\ worker'[p].pc = "write" /\ Job(p)' = j /\ worker'[p].texts = units[j]
            /\ \A q \in Pids \ {p} : worker'[q] = worker[q]
        BY <1>t, <3>4 DEF Job, Worker
      <4>2. Fit(p)'
        BY <2>2, <3>1, <3>2, <4>1, ActorFits DEF Knows, Owns
      <4>3. QED
        BY <3>1, <4>1, <4>2, QuietOne
    <3>5. QED
      BY <2>3, <3>3, <3>4 DEF ReadUnits
  <2>4. CASE WriteSidecar(p)
    <3>1. j \notin overtaken => worker[p].texts = Pages
      BY <2>1, <2>4 DEF WriteSidecar, Fit, At
    <3>2. /\ \A i \in Jobs : i # j => sidecar'[i] = sidecar[i]
          /\ \/ ToIndex(p) /\ sidecar'[j] = worker[p].texts
             \/ Fail(p)
      BY <2>1, <2>4 DEF WriteSidecar, TypeOK
    <3>3. ToIndex(p) => /\ worker'[p].pc = "index" /\ Job(p)' = j
                        /\ \A q \in Pids \ {p} : worker'[q] = worker[q]
      BY <1>t DEF ToIndex, Job, Worker
    <3>4. Fail(p) => /\ worker'[p].pc = "finish" /\ Job(p)' = j /\ worker'[p].outcome = "failed"
                     /\ \A q \in Pids \ {p} : worker'[q] = worker[q]
      BY FailIs
    <3>5. Fit(p)'
      <4>1. CASE ToIndex(p) /\ sidecar'[j] = worker[p].texts
        BY <2>1, <2>2, <3>1, <3>3, <4>1, ActorFits DEF Knows, Owns
      <4>2. CASE Fail(p)
        BY <2>1, <2>2, <3>4, <4>2, ActorFits DEF Knows, Owns
      <4>3. QED
        BY <3>2, <4>1, <4>2
    <3>6. DoneIsComplete'
      BY <2>1, <2>2, <3>2 DEF DoneInd, DoneIsComplete
    <3>7. \A i \in Jobs : Kept(i) /\ (i # j => Spared(i))
      BY <2>1, <3>2 DEF Kept, Spared
    <3>8. ASSUME NEW q \in Pids \ {p}, worker[q].pc \in Past PROVE Spared(Job(q))
      <4>1. CASE Job(q) = j
        BY <2>1, <2>2, <3>8, <4>1, OnlyOnePast DEF Spared
      <4>2. CASE Job(q) # j
        BY <1>t, <3>7, <3>8, <4>2
      <4>3. QED
        BY <4>1, <4>2
    <3>9. \A q \in Pids \ {p} : worker'[q] = worker[q]
      BY <3>2, <3>3, <3>4
    <3>10. QED
      BY <1>t, <3>5, <3>6, <3>7, <3>8, <3>9, OneActs
  <2>5. CASE IndexEntry(p)
    <3>1. UNCHANGED <<rows, units, sidecar, overtaken>> /\ At(p, "index")
      BY <2>5 DEF IndexEntry
    <3>2. CASE Fail(p)
      BY <1>4, <2>1, <3>1, <3>2
    <3>3. CASE Goto(p, "finish")
      <4>1. /\ worker'[p].pc = "finish" /\ Job(p)' = j
            /\ \A q \in Pids \ {p} : worker'[q] = worker[q]
        BY <3>3, GotoIs
      <4>2. j \notin overtaken => sidecar[j] = Pages
        BY <2>1, <3>1 DEF Fit
      <4>3. Fit(p)'
        BY <2>2, <3>1, <4>1, <4>2, ActorFits DEF Knows, Owns
      <4>4. QED
        BY <3>1, <4>1, <4>3, QuietOne
    <3>4. QED
      BY <2>5, <3>2, <3>3 DEF IndexEntry
  <2>6. QED
    BY <1>17, <2>3, <2>4, <2>5
<1>18. ASSUME NEW p \in Pids, Finish(p) PROVE DoneInd'
  <2> DEFINE j == Job(p)
  <2>1. j \in Jobs /\ At(p, "finish") /\ UNCHANGED <<units, sidecar, overtaken>> /\ Fit(p)
        /\ worker[p].outcome \in {"done", "failed"}
    BY <1>18, <1>t DEF Finish, At, Worker
  <2>2. CASE ~Owns(rows, j, p)
    BY <1>5, <1>18, <2>1, <2>2 DEF Finish
  <2>3. CASE Owns(rows, j, p)
    <3>1. /\ rows'[j].status = worker[p].outcome /\ \A i \in Jobs : i # j => rows'[i] = rows[i]
      BY <1>18, <1>t, <2>1, <2>3 DEF Finish, Finished, SetTo
    <3>2. Goto(p, IF worker[p].outcome = "done" THEN "cleanup" ELSE "chain")
      BY <1>18, <2>3 DEF Finish
    <3>3. /\ worker'[p].pc = (IF worker[p].outcome = "done" THEN "cleanup" ELSE "chain")
          /\ Job(p)' = j /\ \A q \in Pids \ {p} : worker'[q] = worker[q]
      BY <3>2, GotoIs
    <3>4. Fit(p)'
      BY <3>1, <3>3, ActorFits DEF Past, Knows
    <3>5. j \notin overtaken /\ worker[p].outcome = "done" => sidecar[j] = Pages
      BY <2>1 DEF Fit, At
    <3>6. DoneIsComplete'
      BY <2>1, <3>1, <3>5 DEF DoneInd, DoneIsComplete
    <3>7. \A i \in Jobs : Kept(i) /\ (i # j => Spared(i))
      BY <2>1, <2>3, <3>1 DEF Kept, Spared, Owns
    <3>8. ASSUME NEW q \in Pids \ {p}, worker[q].pc \in Past PROVE Spared(Job(q))
      <4>1. CASE Job(q) = j
        BY <2>1, <2>3, <3>8, <4>1, OnlyOnePast DEF Spared
      <4>2. CASE Job(q) # j
        BY <1>t, <3>7, <3>8, <4>2
      <4>3. QED
        BY <4>1, <4>2
    <3>9. QED
      BY <1>t, <3>3, <3>4, <3>6, <3>7, <3>8, OneActs
  <2>4. QED
    BY <2>2, <2>3
<1>19. ASSUME NEW p \in Pids, Cleanup(p) PROVE DoneInd'
  <2> DEFINE j == Job(p)
  <2>1. j \in Jobs /\ At(p, "cleanup") /\ UNCHANGED <<rows, sidecar, overtaken>> /\ Goto(p, "chain")
    BY <1>19, <1>t DEF Cleanup, At
  <2>2. j \notin overtaken => rows[j].status = "done"
    BY <1>t, <2>1 DEF Fit, At
  <2>3. \A i \in Jobs : i # j => units'[i] = units[i]
    BY <1>19 DEF Cleanup, TypeOK
  <2>4. \A i \in Jobs : Kept(i) /\ Spared(i)
    BY <2>1, <2>2, <2>3 DEF Kept, Spared
  <2>5. DoneIsComplete'
    BY <2>1 DEF DoneInd, DoneIsComplete
  <2>6. /\ worker'[p].pc = "chain" /\ Job(p)' = Job(p)
        /\ \A q \in Pids \ {p} : worker'[q] = worker[q]
    BY <2>1, GotoIs
  <2>7. Fit(p)'
    BY <2>6, ActorFits DEF Past, Knows
  <2>8. QED
    BY <1>t, <2>4, <2>5, <2>6, <2>7, OneActs
<1>20. ASSUME NEW p \in Pids, Chain(p) PROVE DoneInd'
  <2>1. CASE Exit(p)
    BY <1>3, <1>20, <2>1 DEF Chain
  <2>2. ASSUME NEW j \in Jobs, NEW w \in Launches(worker, j), worker' = [w EXCEPT ![p] = NoWorker]
        PROVE  DoneInd'
    <3>1. \A q \in Pids : w[q] = worker[q] \/ w[q].pc = "boot"
      BY <1>t, <2>2, Launched
    <3>2. w \in [Pids -> Worker]
      BY <2>2, LaunchesType DEF TypeOK, WorkersOK
    <3>3. \A q \in Pids : worker'[q] = worker[q] \/ worker'[q].pc \in {"none", "boot"}
      BY <2>2, <3>1, <3>2 DEF NoWorker
    <3>4. QED
      BY <1>20, <3>3, QuietNobody DEF Chain
  <2>3. QED
    BY <1>20, <2>1, <2>2 DEF Chain, Oldest, QueuedJobs
<1>21. ASSUME NEW p \in Pids, Crash(p) PROVE DoneInd'
    BY <1>3, <1>21 DEF Crash
<1>22. ASSUME NEW j \in Jobs, worker' \in Launches(worker, j)
       PROVE  \A q \in Pids : worker'[q] = worker[q] \/ worker'[q].pc \in {"none", "boot"}
    BY <1>22, <1>t, Launched
<1>23. CASE SweepRead \/ SweepRespawn \/ SweepPickup \/ SweepCrash
            \/ (\E j \in Jobs : StopRead(j)) \/ UNCHANGED vars
  <2>1. UNCHANGED <<rows, units, sidecar, overtaken>>
    BY <1>23 DEF SweepRead, SweepRespawn, SweepPickup, SweepCrash, StopRead, vars
  <2>2. UNCHANGED worker \/ \E j \in Jobs : worker' \in Launches(worker, j)
    BY <1>23 DEF SweepRead, SweepRespawn, SweepPickup, SweepCrash, StopRead, vars, TypeOK, Sweep,
       Oldest, QueuedJobs
  <2>3. QED
    BY <1>22, <2>1, <2>2, QuietNobody
<1>24. ASSUME NEW j \in Jobs, NEW s \in {"queued", "cancelled"}, Takes(j), rows' = SetTo(rows, j, s, NoPid),
              UNCHANGED <<units, sidecar, worker>>
       PROVE  DoneInd'
    BY <1>24, <1>t, TakenFits, NobodyActs
<1>25. CASE SweepRequeue
  <2>1. CASE UNCHANGED <<rows, overtaken>>
    BY <1>25, <2>1, QuietNobody DEF SweepRequeue
  <2>2. QED
    BY <1>24, <1>25, <2>1 DEF SweepRequeue, Reclaimed, TypeOK, Sweep
<1>26. CASE StopWrite
    BY <1>24, <1>26 DEF StopWrite, Cancelled, TypeOK
<1>27. ASSUME NEW j \in Jobs, Ingest(j) \/ Retry(j) PROVE DoneInd'
  <2> DEFINE r == [status |-> "queued", pid |-> NoPid, aged |-> FALSE]
  <2>1. r \in Row /\ r.status = "queued" /\ rows' = [rows EXCEPT ![j] = r]
        /\ UNCHANGED <<units, sidecar, overtaken>> /\ worker' \in Launches(worker, j)
    BY <1>27 DEF Ingest, Retry, Requeued, SetTo, Row, Statuses
  <2>2. rows[j].status \notin {"running", "done"}
    BY <1>27 DEF Ingest, Retry, Requeueable
  <2> HIDE DEF r
  <2>3. /\ DoneIsComplete'
        /\ \A i \in Jobs : Kept(i)
        /\ \A q \in Pids : worker[q].pc \in Past => Spared(Job(q))
    BY <2>1, <2>2, WaitingFits
  <2>4. \A q \in Pids : worker'[q] = worker[q] \/ worker'[q].pc \in {"none", "boot"}
    BY <1>22, <2>1
  <2>5. QED
    BY <1>t, <2>3, <2>4, NobodyActs
<1>28. ASSUME NEW j \in Jobs, Age(j) PROVE DoneInd'
  <2>1. UNCHANGED <<units, sidecar, worker, overtaken>>
        /\ \A i \in Jobs : rows'[i].status = rows[i].status /\ rows'[i].pid = rows[i].pid
    BY <1>28, <1>t DEF Age, Row
  <2>2. \A i \in Jobs : Kept(i) /\ Spared(i)
    BY <2>1 DEF Kept, Spared
  <2>3. DoneIsComplete'
    BY <2>1 DEF DoneInd, DoneIsComplete
  <2>4. QED
    BY <1>t, <2>1, <2>2, <2>3, NobodyActs
<1>29. QED
    BY <1>1, <1>6, <1>7, <1>8, <1>9, <1>10, <1>11, <1>13, <1>14, <1>15, <1>16, <1>17, <1>18,
       <1>19, <1>20, <1>21, <1>23, <1>25, <1>26, <1>27, <1>28
       DEF Next, WorkerStep, SweepStep

\* A job reported done has every page of its document in the published text (ocr_worker.py:
\* run_job, _publish), for any number of jobs, workers and pages, over crashes, takeovers of
\* dead workers, stops and retries, unless its row was taken from a live worker.
THEOREM DoneMeansComplete == Spec => []DoneIsComplete
<1>1. DoneInd => DoneIsComplete
    BY DEF DoneInd
<1>2. QED
    BY <1>1, TypeInit, TypeStep, DoneInit, DoneStep, PTL DEF Spec

\* Pages once recorded stay recorded until the job is done (job_units; registry.py: record_unit,
\* delete_units): no crash, failure or retry makes a worker start over.
THEOREM ProgressIsKept == Spec => ProgressKept
<1>1. TypeOK /\ DoneInd /\ [Next]_vars
        => [\A j \in Jobs \ overtaken : units[j] \subseteq units'[j] \/ rows[j].status = "done"]_vars
  <2> SUFFICES ASSUME TypeOK, DoneInd, [Next]_vars, NEW j \in Jobs \ overtaken
               PROVE  units[j] \subseteq units'[j] \/ rows[j].status = "done"
      OBVIOUS
  <2>1. ASSUME NEW p \in Pids, RecordUnit(p) PROVE units[j] \subseteq units'[j]
      BY <2>1 DEF RecordUnit, TypeOK
  <2>2. ASSUME NEW p \in Pids, Cleanup(p) PROVE units[j] \subseteq units'[j] \/ rows[j].status = "done"
    <3>1. Job(p) \notin overtaken => rows[Job(p)].status = "done"
      BY <2>2 DEF Cleanup, DoneInd, Fit, At
    <3>2. Job(p) # j => units'[j] = units[j]
      BY <2>2 DEF Cleanup, TypeOK
    <3>3. QED
      BY <3>1, <3>2
  <2>3. ASSUME NEW p \in Pids, WorkerStep(p) \/ Crash(p), ~RecordUnit(p), ~Cleanup(p)
        PROVE  UNCHANGED units
      BY <2>3 DEF WorkerStep, Boot, Check, Claim, Refused, Probe, Reconcile, ClaimAgain, Prepare,
         Boundary, PageFails, ReadUnits, WriteSidecar, IndexEntry, Finish, Chain, Crash
  <2>4. CASE SweepStep \/ SweepCrash \/ StopWrite \/ UNCHANGED vars
      BY <2>4 DEF SweepStep, SweepRead, SweepRequeue, SweepRespawn, SweepPickup, SweepCrash,
         StopWrite, vars
  <2>5. ASSUME NEW i \in Jobs, Ingest(i) \/ StopRead(i) \/ Retry(i) \/ Age(i) PROVE UNCHANGED units
      BY <2>5 DEF Ingest, StopRead, Retry, Age
  <2>6. QED
      BY <2>1, <2>2, <2>3, <2>4, <2>5 DEF Next
<1>2. QED
    BY <1>1, TypeInit, TypeStep, DoneInit, DoneStep, PTL DEF Spec, ProgressKept
===========================================================================
