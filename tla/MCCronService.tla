--------------------------- MODULE MCCronService ---------------------------
(* TLC instances of CronService. *)
EXTENDS CronService, TLC

CONSTANTS j1, j2, j3, p1, p2

Symmetry == Permutations(Jobs) \cup Permutations(Services)

At(t)    == [kind |-> "at", t |-> t]
Every(t) == [kind |-> "every", t |-> t]
OneShotAndInterval == {At(2), Every(2)}

---------------------------------------------------------------------------
(* What the repository's docs say and the code does not do; the README tells  *)
(* the behaviour that TLC finds for each when it is made a property of a run. *)

\* A job's next run is one of the schedule it has: edits made during a run are
\* preserved (docs/internals/cron.md:18).
OneShotOnTime ==
    \A j \in DOMAIN Store :
        Store[j].sched.kind = "at" => Store[j].next \in {None, Store[j].sched.t}

\* Advancing a job before the lock is released is the at-most-once guard, across the
\* processes (service.py:566-576, 605-610): no occurrence is taken up twice.
FiredOnceAlways == \A j \in Jobs : \A t \in Times : fired[j][t] <= 1

\* A run's record stays in the history until newer ones push it out: each task
\* re-applies its run onto the job as it is on disk (service.py:692-702).
HistoryKept ==
    [][\A j \in DOMAIN Store \cap DOMAIN Store' : Store[j].hist \subseteq Store'[j].hist]_vars

\* The log is merged, then cleared: a removal that was accepted holds, also when the
\* process dies inside the merge (docs/internals/cron.md:62).
RemovalHolds == \A j \in DOMAIN Store : ~wish[j].gone
=============================================================================
