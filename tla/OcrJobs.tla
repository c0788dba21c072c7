------------------------------ MODULE OcrJobs ------------------------------
(***************************************************************************)
(* The background OCR jobs: worker processes (durin/jobs/ocr_worker.py)    *)
(* that claim a job, record its pages one by one and publish the document, *)
(* the gateway's sweep that gives orphaned and queued jobs a worker        *)
(* (loop.py, _resume_jobs), and the stop and retry a person asks for       *)
(* (agent/tools/tasks_tool.py).  They share nothing but jobs.db and the    *)
(* document's directory; any process may die at any step.                  *)
(***************************************************************************)
EXTENDS JobRegistry

CONSTANTS
    NPages,         \* pages of a document that need transcribing
    NoJob,
    LaunchMayFail,  \* Popen may fail
    Kinds,          \* what may disturb the jobs, of the kinds below
    MaxDisturbed    \* bound on how often something does

ASSUME NPagesAssumption == NPages \in Nat
ASSUME NoJobAssumption  == NoJob \notin Jobs
ASSUME LaunchAssumption == LaunchMayFail \in BOOLEAN
ASSUME KindsAssumption  == Kinds \subseteq {"crash", "age", "stop", "retry"}
ASSUME BoundAssumption  == MaxDisturbed \in Nat

VARIABLES
    rows,        \* the jobs table
    units,       \* job_units: the pages recorded for each job
    sidecar,     \* the pages in the document's source.md
    worker,      \* the process with each pid
    sweep,       \* the gateway's reconcile-and-pickup pass
    stopping,    \* the job a stop has read and not written yet
    overtaken,   \* history: the jobs whose row was taken from a live worker
    disturbed    \* crashes, age limits, stops and retries so far

vars == <<rows, units, sidecar, worker, sweep, stopping, overtaken, disturbed>>

Pages == 1..NPages

NoWorker == [pc |-> "none", job |-> NoJob, todo |-> {}, orphans |-> {}, texts |-> {},
             outcome |-> "done"]
Fresh(j) == [NoWorker EXCEPT !.pc = "boot", !.job = j]
Alive    == {p \in Pids : worker[p].pc # "none"}
At(p, pc) == worker[p].pc = pc
Job(p)   == worker[p].job

Init ==
    /\ rows = [j \in Jobs |-> NoRow]
    /\ units = [j \in Jobs |-> {}] /\ sidecar = [j \in Jobs |-> {}]
    /\ worker = [p \in Pids |-> NoWorker]
    /\ sweep = [pc |-> "idle", jobs |-> {}, again |-> {}]
    /\ stopping = NoJob /\ overtaken = {}
    /\ disturbed = 0

Disturb(kind) ==
    /\ kind \in Kinds /\ disturbed < MaxDisturbed
    /\ disturbed' = disturbed + 1

\* _launch_worker: a process with a pid that no process and no running row has
\* (a pid comes back long after; RECONCILE_AGE_S is for that); Popen may fail.
Launches(w, j) ==
    LET free == {p \in Pids : w[p].pc = "none" /\ \A i \in Running(rows) : rows[i].pid # p} IN
    {[w EXCEPT ![p] = Fresh(j)] : p \in free}
      \cup (IF LaunchMayFail \/ free = {} THEN {w} ELSE {})

\* A write to the row of a job that is neither waiting nor its dead worker's.
Takes(j) ==
    LET waiting  == rows[j].status = "queued"
        orphaned == rows[j].status = "running" /\ rows[j].pid \notin Alive
    IN overtaken' = IF waiting \/ orphaned THEN overtaken ELSE overtaken \cup {j}

---------------------------------------------------------------------------
(* A worker: run_job                                                       *)

Goto(p, pc) == worker' = [worker EXCEPT ![p].pc = pc]
Exit(p)     == worker' = [worker EXCEPT ![p] = NoWorker]

\* The pages already recorded are read before the claim.
Boot(p) ==
    /\ At(p, "boot")
    /\ worker' = [worker EXCEPT ![p].todo = Pages \ units[Job(p)], ![p].pc = "check"]
    /\ UNCHANGED <<rows, units, sidecar, sweep, stopping, overtaken, disturbed>>

Check(p) ==
    /\ At(p, "check")
    /\ IF rows[Job(p)].status = "queued" THEN Goto(p, "claim") ELSE Exit(p)
    /\ UNCHANGED <<rows, units, sidecar, sweep, stopping, overtaken, disturbed>>

Claim(p) ==
    /\ At(p, "claim")
    /\ IF Claimable(rows, Job(p))
       THEN rows' = Claimed(rows, Job(p), p) /\ Goto(p, "claimed")
       ELSE UNCHANGED rows /\ Goto(p, "refused")
    /\ UNCHANGED <<units, sidecar, sweep, stopping, overtaken, disturbed>>

\* A row still queued was refused by the cap: is its holder really alive?
Refused(p) ==
    /\ At(p, "refused")
    /\ IF rows[Job(p)].status = "queued" THEN Goto(p, "probe") ELSE Exit(p)
    /\ UNCHANGED <<rows, units, sidecar, sweep, stopping, overtaken, disturbed>>

Probe(p) ==
    /\ At(p, "probe")
    /\ LET found == Orphans(rows, Alive) IN
       IF found = {} THEN Exit(p)
       ELSE worker' = [worker EXCEPT ![p].orphans = found, ![p].pc = "reconcile"]
    /\ UNCHANGED <<rows, units, sidecar, sweep, stopping, overtaken, disturbed>>

Reconcile(p) ==
    /\ At(p, "reconcile")
    /\ \E j \in worker[p].orphans :
         /\ rows' = Reclaimed(rows, j)
         /\ worker' = [worker EXCEPT ![p].orphans = @ \ {j},
                                     ![p].pc = IF worker[p].orphans = {j} THEN "again" ELSE @]
         /\ Takes(j)
    /\ UNCHANGED <<units, sidecar, sweep, stopping, disturbed>>

ClaimAgain(p) ==
    /\ At(p, "again")
    /\ IF Claimable(rows, Job(p))
       THEN rows' = Claimed(rows, Job(p), p) /\ Goto(p, "claimed")
       ELSE UNCHANGED rows /\ Exit(p)
    /\ UNCHANGED <<units, sidecar, sweep, stopping, overtaken, disturbed>>

Fail(p) == worker' = [worker EXCEPT ![p].outcome = "failed", ![p].texts = {}, ![p].pc = "finish"]

\* The exhaustive pass over the document; without it the job fails.
Prepare(p) ==
    /\ At(p, "claimed")
    /\ Goto(p, "boundary") \/ Fail(p)
    /\ UNCHANGED <<rows, units, sidecar, sweep, stopping, overtaken, disturbed>>

\* Before each page: is the row still this run's?
Boundary(p) ==
    /\ At(p, "boundary")
    /\ IF worker[p].todo = {} THEN Goto(p, "publish")
       ELSE IF Owns(rows, Job(p), p) THEN Goto(p, "page")
       ELSE IF rows[Job(p)].status = "cancelled" THEN Goto(p, "chain")
       ELSE Exit(p)
    /\ UNCHANGED <<rows, units, sidecar, sweep, stopping, overtaken, disturbed>>

\* One page transcribed and recorded, whoever owns the row by then.
RecordUnit(p) ==
    /\ At(p, "page")
    /\ \E page \in Oldest(worker[p].todo) :
       /\ units' = [units EXCEPT ![Job(p)] = @ \cup {page}]
       /\ worker' = [worker EXCEPT ![p].todo = @ \ {page}, ![p].pc = "boundary"]
    /\ UNCHANGED <<rows, sidecar, sweep, stopping, overtaken, disturbed>>

PageFails(p) ==
    /\ At(p, "page")
    /\ Fail(p)
    /\ UNCHANGED <<rows, units, sidecar, sweep, stopping, overtaken, disturbed>>

\* The publication begins: every recorded page is read; what is written is what was read.
ReadUnits(p) ==
    /\ At(p, "publish")
    /\ \/ worker' = [worker EXCEPT ![p].texts = units[Job(p)], ![p].pc = "write"]
       \/ Fail(p)
    /\ UNCHANGED <<rows, units, sidecar, sweep, stopping, overtaken, disturbed>>

ToIndex(p) == worker' = [worker EXCEPT ![p].texts = {}, ![p].pc = "index"]

\* A bug: a write that failed is logged and the document indexed.
WriteOrGoOn(p) ==
    /\ At(p, "write")
    /\ ToIndex(p)
    /\ sidecar' \in {sidecar, [sidecar EXCEPT ![Job(p)] = worker[p].texts]}
    /\ UNCHANGED <<rows, units, sweep, stopping, overtaken, disturbed>>

\* source.md is replaced as a whole, whoever owns the row by now; a document with no text,
\* or a write that fails, fails the job.
WriteSidecar(p) ==
    /\ At(p, "write")
    /\ \/ ToIndex(p) /\ sidecar' = [sidecar EXCEPT ![Job(p)] = worker[p].texts]
       \/ Fail(p) /\ sidecar' \in {sidecar, [sidecar EXCEPT ![Job(p)] = worker[p].texts]}
    /\ UNCHANGED <<rows, units, sweep, stopping, overtaken, disturbed>>

\* index_ingested_entry: a document that nobody can find is not done.
IndexEntry(p) ==
    /\ At(p, "index")
    /\ Goto(p, "finish") \/ Fail(p)
    /\ UNCHANGED <<rows, units, sidecar, sweep, stopping, overtaken, disturbed>>

\* A bug: a failed job's pages are deleted too.
FinishAndClean(p) ==
    /\ At(p, "finish")
    /\ IF Owns(rows, Job(p), p)
       THEN rows' = Finished(rows, Job(p), worker[p].outcome) /\ Goto(p, "cleanup")
       ELSE UNCHANGED rows /\ Goto(p, "chain")
    /\ UNCHANGED <<units, sidecar, sweep, stopping, overtaken, disturbed>>

Finish(p) ==
    /\ At(p, "finish")
    /\ IF Owns(rows, Job(p), p)
       THEN /\ rows' = Finished(rows, Job(p), worker[p].outcome)
            /\ Goto(p, IF worker[p].outcome = "done" THEN "cleanup" ELSE "chain")
       ELSE UNCHANGED rows /\ Goto(p, "chain")
    /\ UNCHANGED <<units, sidecar, sweep, stopping, overtaken, disturbed>>

\* A failed delete is logged and leaves them to the prune.
Cleanup(p) ==
    /\ At(p, "cleanup")
    /\ units' \in {units, [units EXCEPT ![Job(p)] = {}]}
    /\ Goto(p, "chain")
    /\ UNCHANGED <<rows, sidecar, sweep, stopping, overtaken, disturbed>>

\* The oldest queued job gets a fresh process, and this one exits.
Chain(p) ==
    /\ At(p, "chain")
    /\ \/ QueuedJobs(rows) = {} /\ Exit(p)
       \/ \E j \in Oldest(QueuedJobs(rows)) : \E w \in Launches(worker, j) :
             worker' = [w EXCEPT ![p] = NoWorker]
    /\ UNCHANGED <<rows, units, sidecar, sweep, stopping, overtaken, disturbed>>

\* SIGKILL, the OOM killer, a power cut.
Crash(p) ==
    /\ p \in Alive /\ Disturb("crash")
    /\ Exit(p)
    /\ UNCHANGED <<rows, units, sidecar, sweep, stopping, overtaken>>

---------------------------------------------------------------------------
(* The gateway's pass: _resume_jobs, at startup and every minute           *)

SweepRead ==
    /\ sweep.pc = "idle"
    /\ sweep' = [pc |-> "requeue", jobs |-> Orphans(rows, Alive), again |-> {}]
    /\ UNCHANGED <<rows, units, sidecar, worker, stopping, overtaken, disturbed>>

SweepRequeue ==
    /\ sweep.pc = "requeue"
    /\ \/ \E j \in sweep.jobs :
            /\ rows' = Reclaimed(rows, j)
            /\ sweep' = [sweep EXCEPT !.jobs = @ \ {j}, !.again = @ \cup {j}]
            /\ Takes(j)
       \/ /\ sweep.jobs = {}
          /\ sweep' = [sweep EXCEPT !.pc = "respawn"]
          /\ UNCHANGED <<rows, overtaken>>
    /\ UNCHANGED <<units, sidecar, worker, stopping, disturbed>>

SweepRespawn ==
    /\ sweep.pc = "respawn"
    /\ \/ \E j \in sweep.again :
            /\ worker' \in Launches(worker, j)
            /\ sweep' = [sweep EXCEPT !.again = @ \ {j}]
       \/ /\ sweep.again = {}
          /\ sweep' = [sweep EXCEPT !.pc = "pickup"]
          /\ UNCHANGED worker
    /\ UNCHANGED <<rows, units, sidecar, stopping, overtaken, disturbed>>

\* queued_jobs("ocr", MAX_CONCURRENT_OCR_JOBS), for a cap of one.
SweepPickup ==
    /\ sweep.pc = "pickup"
    /\ sweep' = [sweep EXCEPT !.pc = "idle"]
    /\ \/ QueuedJobs(rows) = {} /\ UNCHANGED worker
       \/ \E j \in Oldest(QueuedJobs(rows)) : worker' \in Launches(worker, j)
    /\ UNCHANGED <<rows, units, sidecar, stopping, overtaken, disturbed>>

\* The gateway dies within a pass; the next start begins another one.
SweepCrash ==
    /\ sweep.pc # "idle" /\ Disturb("crash")
    /\ sweep' = [pc |-> "idle", jobs |-> {}, again |-> {}]
    /\ UNCHANGED <<rows, units, sidecar, worker, stopping, overtaken>>

---------------------------------------------------------------------------
(* The person: ingest, stop, retry; and the clock                          *)

\* spawn_ocr_job: enqueue and launch.
Ingest(j) ==
    /\ rows[j].status = "absent" /\ \A i \in Jobs : i < j => rows[i].status # "absent"
    /\ rows' = SetTo(rows, j, "queued", NoPid)
    /\ worker' \in Launches(worker, j)
    /\ UNCHANGED <<units, sidecar, sweep, stopping, overtaken, disturbed>>

\* tasks stop: the row's status is read, then cancel is written.
StopRead(j) ==
    /\ stopping = NoJob /\ Disturb("stop")
    /\ rows[j].status \in {"queued", "running"}
    /\ stopping' = j
    /\ UNCHANGED <<rows, units, sidecar, worker, sweep, overtaken>>

StopWrite ==
    /\ stopping # NoJob
    /\ rows' = Cancelled(rows, stopping)
    /\ stopping' = NoJob
    /\ Takes(stopping)
    /\ UNCHANGED <<units, sidecar, worker, sweep, disturbed>>

\* tasks retry: the guarded requeue, and a worker only if it wrote.
Retry(j) ==
    /\ Requeueable(rows, j) /\ Disturb("retry")
    /\ rows' = Requeued(rows, j)
    /\ worker' \in Launches(worker, j)
    /\ UNCHANGED <<units, sidecar, sweep, stopping, overtaken>>

\* A job has been running for RECONCILE_AGE_S, its worker alive or not.
Age(j) ==
    /\ rows[j].status = "running" /\ ~rows[j].aged /\ Disturb("age")
    /\ rows' = [rows EXCEPT ![j].aged = TRUE]
    /\ UNCHANGED <<units, sidecar, worker, sweep, stopping, overtaken>>

---------------------------------------------------------------------------
WorkerStep(p) ==
    \/ Boot(p) \/ Check(p) \/ Claim(p) \/ Refused(p) \/ Probe(p) \/ Reconcile(p)
    \/ ClaimAgain(p) \/ Prepare(p) \/ Boundary(p) \/ RecordUnit(p) \/ PageFails(p)
    \/ ReadUnits(p) \/ WriteSidecar(p) \/ IndexEntry(p) \/ Finish(p) \/ Cleanup(p) \/ Chain(p)

SweepStep == SweepRead \/ SweepRequeue \/ SweepRespawn \/ SweepPickup

Next ==
    \/ \E p \in Pids : WorkerStep(p) \/ Crash(p)
    \/ SweepStep \/ SweepCrash
    \/ \E j \in Jobs : Ingest(j) \/ StopRead(j) \/ Retry(j) \/ Age(j)
    \/ StopWrite

Spec == Init /\ [][Next]_vars

\* A process that is not killed goes on; the sweep runs for as long as a gateway
\* serves, and one is started again; a stop that was read is written.
FairSpec ==
    /\ Spec
    /\ \A p \in Pids : WF_vars(WorkerStep(p))
    /\ WF_vars(SweepStep) /\ WF_vars(StopWrite)

---------------------------------------------------------------------------
(* Properties                                                              *)

WorkerPcs == {"none", "boot", "check", "claim", "refused", "probe", "reconcile",
              "again", "claimed", "boundary", "page", "publish", "write", "index",
              "finish", "cleanup", "chain"}

Worker == [pc : WorkerPcs, job : Jobs \cup {NoJob}, todo : SUBSET Pages,
           orphans : SUBSET Jobs, texts : SUBSET Pages, outcome : {"done", "failed"}]

WorkersOK(w) ==
    /\ w \in [Pids -> Worker]
    /\ \A p \in Pids : w[p].pc # "none" => w[p].job \in Jobs
    /\ \A p \in Pids : w[p].pc = "page" => w[p].todo # {}

Sweep == [pc : {"idle", "requeue", "respawn", "pickup"}, jobs : SUBSET Jobs, again : SUBSET Jobs]

\* A worker past its start has a job, and one in a page has a page to do.
TypeOK ==
    /\ RowsOK(rows) /\ WorkersOK(worker) /\ sweep \in Sweep
    /\ units \in [Jobs -> SUBSET Pages] /\ sidecar \in [Jobs -> SUBSET Pages]
    /\ stopping \in Jobs \cup {NoJob} /\ overtaken \subseteq Jobs
    /\ disturbed \in Nat

\* No more rows are running than the cap, through any mix of claims, takeovers,
\* crashes, stops and retries: the claim counts and writes in one transaction.
WithinCap == Cardinality(Running(rows)) <= Cap

\* The rows, the workers and the cap agree.
JobsConsistent == TypeOK /\ WithinCap

\* A job is reported done only when every page of its document is in the published
\* text, over crashes, refusals, takeovers of dead workers and retries, unless its
\* row was taken from a live worker.
DoneIsComplete ==
    \A j \in Jobs \ overtaken : rows[j].status = "done" => sidecar[j] = Pages

\* Pages once recorded stay recorded until the job is done, with the same exception:
\* a crash, a failure and a retry never make a worker start over.
ProgressKept ==
    [][\A j \in Jobs \ overtaken : units[j] \subseteq units'[j] \/ rows[j].status = "done"]_vars

\* A job waiting or running comes to an outcome: no crash, refusal or lost launch
\* leaves it stranded.
JobsSettle ==
    \A j \in Jobs : rows[j].status \in {"queued", "running"} ~> rows[j].status \in Terminal

\* "finish()'s pid guard and record_unit's idempotence are what keep that window safe"
\* (ocr_worker.py:111-113): a done job's text is whole even when two workers shared it.
DoneIsPublished == \A j \in Jobs : rows[j].status = "done" => sidecar[j] = Pages
===========================================================================
