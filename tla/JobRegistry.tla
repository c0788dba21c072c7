---------------------------- MODULE JobRegistry ----------------------------
(***************************************************************************)
(* durin/jobs/registry.py: the rows of jobs.db as a function `rows`, and   *)
(* what each write does to them.  execute_write runs every one of them in  *)
(* a BEGIN IMMEDIATE transaction, so each is one step; a read and a write  *)
(* based on it are two, except where the UPDATE carries its own condition. *)
(***************************************************************************)
EXTENDS Naturals, FiniteSets

CONSTANTS
    NJobs,        \* jobs, numbered in the order of created_at
    Pids,         \* pids the workers get
    NoPid,        \* pid IS NULL
    Cap           \* MAX_CONCURRENT_OCR_JOBS (1 in the code)

ASSUME NJobsAssumption == NJobs \in Nat
ASSUME PidsAssumption  == IsFiniteSet(Pids) /\ NoPid \notin Pids
ASSUME CapAssumption   == Cap \in Nat

Jobs     == 1..NJobs
Terminal == {"done", "failed", "cancelled"}
Statuses == {"absent", "queued", "running"} \cup Terminal

\* `aged`: running for longer than RECONCILE_AGE_S.
Row    == [status : Statuses, pid : Pids \cup {NoPid}, aged : BOOLEAN]
RowsOK(rows) == rows \in [Jobs -> Row]
NoRow  == [status |-> "absent", pid |-> NoPid, aged |-> FALSE]

Running(rows)    == {j \in Jobs : rows[j].status = "running"}
QueuedJobs(rows) == {j \in Jobs : rows[j].status = "queued"}
Oldest(js)       == {j \in js : \A i \in js : j <= i}

SetTo(rows, j, status, pid) ==
    [rows EXCEPT ![j] = [status |-> status, pid |-> pid, aged |-> FALSE]]

\* claim: the UPDATE's own conditions are the row's status and the cap.
\* (A bug: ClaimableUncapped does not count the running rows.)
ClaimableUncapped(rows, j) == rows[j].status = "queued"
Claimable(rows, j) ==
    rows[j].status = "queued" /\ Cardinality(Running(rows)) < Cap
Claimed(rows, j, p) == SetTo(rows, j, "running", p)

\* finish and set_units_total write only the caller's own running row.
Owns(rows, j, p) == rows[j].status = "running" /\ rows[j].pid = p
Finished(rows, j, outcome) == SetTo(rows, j, outcome, NoPid)

\* cancel has no condition.
Cancelled(rows, j) == SetTo(rows, j, "cancelled", NoPid)

\* requeue: only a failed or cancelled job goes back to the queue.
Requeueable(rows, j) == rows[j].status \in {"failed", "cancelled"}
Requeued(rows, j)    == SetTo(rows, j, "queued", NoPid)

\* (A bug: OrphansByAge does not look at the pids.)
\* reconcile first reads the running rows whose pid is dead or that are too old ...
OrphansByAge(rows, alive) == {j \in Running(rows) : rows[j].aged}
Orphans(rows, alive) ==
    {j \in Running(rows) : rows[j].pid \notin alive \/ rows[j].aged}

\* ... and then writes each of them, whatever it holds by now.
Reclaimed(rows, j) == SetTo(rows, j, "queued", NoPid)
===========================================================================
