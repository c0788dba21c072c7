----------------------------- MODULE MCOcrJobs -----------------------------
(* TLC instances of OcrJobs. *)
EXTENDS OcrJobs, TLC

Symmetry == Permutations(Pids)

---------------------------------------------------------------------------
(* What the repository's docs say and the code does not do; the README tells  *)
(* the behaviour that TLC finds for each when it is made a property of a run. *)

Engines == {p \in Pids : worker[p].pc = "page"}

\* "At most one OCR worker runs at a time" (docs/internals/jobs.md:42): no more
\* processes than the cap have the OCR engine transcribing a page.
EnginesWithinCap == Cardinality(Engines) <= Cap

\* reconcile requeues "jobs marked running whose worker process is gone", or too old:
\* a live worker keeps its row (registry.py:382-384).
LiveWorkerKeepsRow ==
    [][\A j \in Jobs :
         /\ rows[j].status = "running" /\ ~rows[j].aged
         /\ rows[j].pid \in Alive /\ Job(rows[j].pid) = j
         => rows'[j].status # "queued"]_vars

\* A cancel wins: only a retry takes a job out of "cancelled" (registry.py:159-161).
CancelWins ==
    [][\A j \in Jobs : rows[j].status = "cancelled" /\ rows'[j].status # "cancelled"
                         => disturbed' # disturbed]_vars

\* A finished job has nothing to cancel (tasks_tool.py:447-449): done stays done.
DoneIsFinal ==
    [][\A j \in Jobs : rows[j].status = "done" => rows'[j].status = "done"]_vars
===========================================================================
