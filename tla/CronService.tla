---------------------------- MODULE CronService ----------------------------
(***************************************************************************)
(* The cron scheduler (durin/cron/service.py): the store jobs.json and the  *)
(* action log beside it, the tick that advances the jobs that are due and   *)
(* spawns a task for each, the tasks that wait for a slot, run their job    *)
(* and write its run state back, the start that settles what the downtime   *)
(* missed, the owner who edits jobs meanwhile, and who looks at them.  A     *)
(* read-modify-write of the store happens under one file lock, without an   *)
(* await in between: it is a single step here, but for the crash within it  *)
(* (Torn).  A look at the jobs reads the store without that lock (Look) and *)
(* takes it only to merge the log into the copy it has read (LookMerges).   *)
(***************************************************************************)
EXTENDS Naturals, Sequences, FiniteSets, SequencesExt

CONSTANTS
    Jobs,         \* job ids
    Schedules,    \* what a job may be given, [kind : {"at", "every", "cron"}, t : Nat]
    Services,     \* the scheduler processes: one gateway, or two on one store
    Slots,        \* max_concurrent_jobs of each
    Grace,        \* missed_oneshot_grace_ms
    Kinds,        \* what happens besides the schedule, of the kinds below
    MaxTime,      \* bound on the clock
    MaxEdits,     \* bound on what the owner does besides adding the jobs
    MaxCrashes    \* bound on the deaths of schedulers

ASSUME SchedulesAssumption ==
    \A s \in Schedules : s.kind \in {"at", "every", "cron"} /\ s.t \in Nat \ {0}
ASSUME ServicesAssumption ==
    IsFiniteSet(Jobs) /\ IsFiniteSet(Services) /\ Slots \in Nat \ {0} /\ Grace \in Nat
ASSUME KindsAssumption ==
    Kinds \subseteq {"remove", "switch", "reschedule", "byhand", "look", "crash", "torn"}
ASSUME BoundAssumption == MaxTime \in Nat \ {0} /\ MaxEdits \in Nat /\ MaxCrashes \in Nat

VARIABLES
    now,       \* the clock
    disk,      \* jobs.json: the jobs there are
    log,       \* action.jsonl: edits of instances that are not running, not merged yet
    up,        \* the schedulers that run
    reading,   \* of a scheduler in the middle of a look: the jobs it has read from jobs.json
    tasks,     \* their job tasks, in the order they were spawned
    edits,     \* what the owner has done so far, how often
    crashes,
    wish,      \* history: the owner's last word on each job
    fired,     \* history: how often each occurrence was taken up since that word
    owed,      \* history: occurrences that came due and are not accounted for
    torn,      \* history: jobs whose edits went with a crash inside a merge
    crossed,   \* history: jobs switched or rescheduled while a run of them was in flight
    reverted   \* history: jobs that a look has put back as they were when it read them

history == <<wish, fired, owed, torn, crossed, reverted>>
vars == <<now, disk, log, up, reading, tasks, edits, crashes, history>>

Times == 1..MaxTime
None  == 0                  \* no next run; the code tests it for truth

Init ==
    /\ now = 1 /\ disk = <<>> /\ log = <<>>
    /\ up = {} /\ reading = <<>> /\ tasks = <<>>
    /\ edits = 0 /\ crashes = 0
    /\ wish = <<>> /\ fired = [j \in Jobs |-> [t \in Times |-> 0]]
    /\ owed = {} /\ torn = {} /\ crossed = {} /\ reverted = {}

---------------------------------------------------------------------------
(* The store                                                               *)

\* _compute_next_run.
NextRun(s, n) ==
    CASE s.kind = "at"    -> IF s.t > n THEN s.t ELSE None
      [] s.kind = "every" -> n + s.t
      [] s.kind = "cron"  -> (n \div s.t + 1) * s.t

With(d, j, job) == [i \in DOMAIN d \cup {j} |-> IF i = j THEN job ELSE d[i]]
Without(d, js)  == [i \in DOMAIN d \ js |-> d[i]]

\* One edit, done to the jobs d.
Edited(d, a) == IF a.op = "del" THEN Without(d, {a.id}) ELSE With(d, a.id, a.job)

\* _merge_action: the edits, in the order they were made, over the store.
Merge(d, edited) ==
    LET merged[n \in 0..Len(edited)] ==
            IF n = 0 THEN d ELSE Edited(merged[n - 1], edited[n])
    IN merged[Len(edited)]

Store == Merge(disk, log)

\* d and e have the same to say of j.
Alike(d, e, j) == (j \in DOMAIN d <=> j \in DOMAIN e) /\ (j \in DOMAIN d => d[j] = e[j])

\* What a running instance does to the store: merge, change, save.
Save(d) == disk' = d /\ log' = <<>>

Due(job) == job.on /\ job.next # None /\ now >= job.next

\* A bug: a one-shot is disabled only when its run is over.
AdvancedLater(job) ==
    IF job.sched.kind = "at" THEN job ELSE [job EXCEPT !.next = NextRun(job.sched, now)]

\* A job that is taken up: a one-shot is done, the others have their next run.
Advanced(job) ==
    IF job.sched.kind = "at" THEN [job EXCEPT !.on = FALSE, !.next = None]
    ELSE [job EXCEPT !.next = NextRun(job.sched, now)]

Forgets(job) == job.sched.kind = "at" /\ job.once

---------------------------------------------------------------------------
(* The tasks                                                               *)

Mine(p, pc)  == {i \in DOMAIN tasks : tasks[i].by = p /\ tasks[i].pc = pc}
Executing(p) == {tasks[i].id : i \in Mine(p, "executing")}
Idle(p)      == p \in up \ DOMAIN reading  \* its event loop does one thing at a time
InFlight(j)  == \E i \in DOMAIN tasks : tasks[i].id = j
FreeSlot(p)  == Cardinality(Mine(p, "executing")) < Slots

Drop(i)   == RemoveAt(tasks, i)
Goes(i, pc) == [tasks EXCEPT ![i].pc = pc]
Task(p, j, job, due, pc) == [by |-> p, id |-> j, snap |-> job, due |-> due, pc |-> pc]

\* _on_timer: every due job is advanced before any of them runs, and gets a task.
Tick(p) ==
    LET d   == Store
        due == {j \in DOMAIN d : Due(d[j])}
    IN
    /\ Idle(p) /\ (due # {} \/ log # <<>>)
    /\ Save([j \in DOMAIN d \ {i \in due : Forgets(d[i])} |-> IF j \in due THEN Advanced(d[j]) ELSE d[j]])
    /\ \E order \in Bijection(1..Cardinality(due), due) :
          tasks' = tasks \o [i \in DOMAIN order |->
              Task(p, order[i], Advanced(d[order[i]]), d[order[i]].next, "spawned")]
    /\ fired' = [j \in Jobs |-> IF j \in due THEN [fired[j] EXCEPT ![d[j].next] = @ + 1] ELSE fired[j]]
    /\ owed' = {o \in owed : o[1] \notin due}
    /\ UNCHANGED <<now, up, reading, edits, crashes, wish, torn, crossed, reverted>>

\* A bug: a job is looked up among the executing ones only before the wait for a slot.
EnterUnchecked(i) == tasks' = Goes(i, "executing")

\* _execute_job's guard: a job that executes already is skipped.
Enter(i) ==
    IF tasks[i].id \in Executing(tasks[i].by) THEN tasks' = Drop(i) ELSE tasks' = Goes(i, "executing")

\* _run_job_task, up to its wait for a slot of the pool: a job that executes is skipped
\* before the wait, one that has come to execute meanwhile after it (Enter).
Begin(i) ==
    LET p == tasks[i].by IN
    /\ Idle(p) /\ tasks[i].pc = "spawned" /\ \A k \in Mine(p, "spawned") : i <= k
    /\ IF tasks[i].id \in Executing(p) THEN tasks' = Drop(i)
       ELSE IF FreeSlot(p) /\ Mine(p, "waiting") = {} THEN Enter(i)
       ELSE tasks' = Goes(i, "waiting")
    /\ UNCHANGED <<now, disk, log, up, reading, edits, crashes, history>>

\* The pool's semaphore serves who has waited longest.
SlotGiven(i) ==
    LET p == tasks[i].by IN
    /\ Idle(p) /\ tasks[i].pc = "waiting" /\ FreeSlot(p) /\ \A k \in Mine(p, "waiting") : i <= k
    /\ Enter(i)
    /\ UNCHANGED <<now, disk, log, up, reading, edits, crashes, history>>

\* _execute_job, after the job: the run is recorded on the task's own copy of it.
Ran(task) ==
    LET job == [task.snap EXCEPT !.hist = @ \cup {<<"ran", task.due>>}]
    IN Advanced(job)

\* A bug: the run's copy of the job is written back whole.
PersistedWhole(d, j, job) ==
    IF Forgets(job) THEN Without(d, {j}) ELSE IF j \notin DOMAIN d THEN d ELSE With(d, j, job)

\* A bug: a job that is no longer there is written back.
PersistedAgain(d, j, job) == IF Forgets(job) THEN Without(d, {j}) ELSE With(d, j, job)

\* _persist_run_state: the run state goes onto the job as it is now.
Persisted(d, j, job) ==
    IF Forgets(job) THEN Without(d, {j})
    ELSE IF j \notin DOMAIN d THEN d
    ELSE With(d, j, [d[j] EXCEPT !.next = job.next, !.hist = job.hist,
                                 !.on = IF job.sched.kind = "at" /\ ~job.on THEN FALSE ELSE @])

\* A job's run, done or failed; one that had come due meanwhile is taken for run.
End(i) ==
    LET j == tasks[i].id IN
    /\ Idle(tasks[i].by) /\ tasks[i].pc = "executing"
    /\ Save(Persisted(Store, j, Ran(tasks[i])))
    /\ tasks' = Drop(i)
    /\ owed' = {o \in owed : o[1] # j}
    /\ UNCHANGED <<now, up, reading, edits, crashes, wish, fired, torn, crossed, reverted>>

---------------------------------------------------------------------------
(* The owner: through the running instance, or through the action log       *)

Does(kind) == kind \in Kinds /\ edits < MaxEdits /\ edits' = edits + 1

\* Where an edit goes: the agent's tool has the running instance, the web UI and the
\* command line append to the log.
Written(a) ==
    \/ log' = Append(log, a) /\ UNCHANGED disk
    \/ (\E p \in Services : Idle(p)) /\ Save(Edited(Store, a))

Put(j, job) == Written([op |-> "put", id |-> j, job |-> job])

\* The owner's last word on j, which settles what was due before it.
Says(j, w) ==
    /\ wish' = With(wish, j, w)
    /\ fired' = [fired EXCEPT ![j] = [t \in Times |-> 0]]
    /\ owed' = {o \in owed : o[1] # j}
    /\ crossed' = IF InFlight(j) THEN crossed \cup {j} ELSE crossed
    /\ UNCHANGED <<torn, reverted>>

\* A job is deleted after its run when the agent's tool has made it a one-shot.
Add(j, s, once) ==
    /\ j \notin DOMAIN wish /\ (once => s.kind = "at")
    /\ Put(j, [on |-> TRUE, sched |-> s, once |-> once, next |-> NextRun(s, now), hist |-> {}])
    /\ Says(j, [gone |-> FALSE, off |-> FALSE, sched |-> s])
    /\ UNCHANGED <<now, up, reading, tasks, edits, crashes>>

RemoveJob(j) ==
    /\ Does("remove") /\ j \in DOMAIN Store
    /\ Written([op |-> "del", id |-> j, job |-> None])
    /\ Says(j, [wish[j] EXCEPT !.gone = TRUE])
    /\ UNCHANGED <<now, up, reading, tasks, crashes>>

\* enable_job.
Switch(j) ==
    /\ Does("switch") /\ j \in DOMAIN Store
    /\ LET on == ~Store[j].on IN
       /\ Put(j, [Store[j] EXCEPT !.on = on, !.next = IF on THEN NextRun(Store[j].sched, now) ELSE None])
       /\ Says(j, [wish[j] EXCEPT !.off = ~on])
    /\ UNCHANGED <<now, up, reading, tasks, crashes>>

\* update_job with a schedule; the agent's tool has a one-shot deleted after its run.
Reschedule(j, s, once) ==
    /\ Does("reschedule") /\ j \in DOMAIN Store /\ s # Store[j].sched
    /\ once = Store[j].once \/ (once /\ s.kind = "at")
    /\ Put(j, [Store[j] EXCEPT !.sched = s, !.once = once, !.next = IF Store[j].on THEN NextRun(s, now) ELSE @])
    /\ Says(j, [wish[j] EXCEPT !.sched = s])
    /\ UNCHANGED <<now, up, reading, tasks, crashes>>

\* run_job, which the gateway's own instance does for the API.
RunByHand(p, j) ==
    /\ Does("byhand") /\ Idle(p) /\ j \in DOMAIN Store /\ j \notin Executing(p)
    /\ Save(Store)
    /\ tasks' = Append(tasks, Task(p, j, Store[j], None,
                   IF FreeSlot(p) /\ Mine(p, "waiting") = {} THEN "executing" ELSE "waiting"))
    /\ UNCHANGED <<now, up, reading, crashes, history>>

\* list_jobs, get_job and status of a running instance load jobs.json without the lock.
Look(p) ==
    /\ Does("look") /\ Idle(p)
    /\ reading' = With(reading, p, disk)
    /\ UNCHANGED <<now, disk, log, up, tasks, crashes, history>>

\* When the log has something by then, it is merged into the copy that was read, and
\* that copy is saved: what another scheduler did to the store meanwhile is undone.
LookMerges(p) ==
    /\ p \in DOMAIN reading
    /\ reading' = Without(reading, {p})
    /\ LET d == Merge(reading[p], log) IN
       IF log = <<>> THEN UNCHANGED <<disk, log, reverted>>
       ELSE Save(d) /\ reverted' = reverted \cup {j \in Jobs : ~Alike(d, Store, j)}
    /\ UNCHANGED <<now, up, tasks, edits, crashes, wish, fired, owed, torn, crossed>>

---------------------------------------------------------------------------
(* Start, death, and the clock                                             *)

\* A bug: the next run is computed anew, with nothing said about the one that was missed.
SettledOldWay(job) ==
    IF job.on /\ job.next <= now THEN [job EXCEPT !.next = NextRun(job.sched, now)] ELSE job

Late(job) == job.on /\ job.sched.kind = "at" /\ now > job.sched.t + Grace

\* _recompute_next_runs: an occurrence of the downtime is recorded as skipped, unless
\* it is a one-shot's that may still be fired late.
Settled(job) ==
    IF ~job.on THEN job
    ELSE IF job.sched.kind = "at"
    THEN IF Late(job)
         THEN [job EXCEPT !.on = FALSE, !.next = None, !.hist = @ \cup {<<"skipped", job.sched.t>>}]
         ELSE [job EXCEPT !.next = job.sched.t]
    ELSE IF job.next # None /\ job.next > now THEN job
    ELSE [job EXCEPT !.next = NextRun(job.sched, now),
                     !.hist = IF job.next = None THEN @ ELSE @ \cup {<<"skipped", job.next>>}]

Start(p) ==
    /\ p \notin up
    /\ up' = up \cup {p}
    /\ LET old == Store
           d   == [j \in DOMAIN old \ {i \in DOMAIN old : Late(old[i]) /\ old[i].once} |-> Settled(old[j])]
       IN /\ Save(d)
          /\ owed' = {o \in owed : o[1] \in DOMAIN d /\ <<"skipped", o[2]>> \notin d[o[1]].hist}
    /\ UNCHANGED <<now, reading, tasks, edits, crashes, wish, fired, torn, crossed, reverted>>

\* stop cancels the job tasks; a death ends them all the more.
LeftOf(p) ==
    LET left[n \in 0..Len(tasks)] ==
            IF n = 0 THEN <<>>
            ELSE IF tasks[n].by = p THEN left[n - 1] ELSE Append(left[n - 1], tasks[n])
    IN left[Len(tasks)]

Dies(p) ==
    /\ p \in up /\ crashes < MaxCrashes
    /\ up' = up \ {p} /\ crashes' = crashes + 1
    /\ tasks' = LeftOf(p) /\ reading' = Without(reading, {p})
    /\ UNCHANGED <<now, edits, wish, fired, owed, crossed, reverted>>

Crash(p) == "crash" \in Kinds /\ Dies(p) /\ UNCHANGED <<disk, log, torn>>

\* _merge_action empties the log before it saves the store.
Torn(p) ==
    /\ "torn" \in Kinds /\ log # <<>> /\ Dies(p)
    /\ log' = <<>> /\ UNCHANGED disk
    /\ torn' = torn \cup {log[i].id : i \in DOMAIN log}

\* A scheduler that runs overslept no occurrence: it is owed.
Clock ==
    /\ now < MaxTime
    /\ now' = now + 1
    /\ LET d == Store IN
       owed' = owed \cup {<<j, now'>> : j \in {i \in DOMAIN d : d[i].on /\ d[i].next = now' /\ ~InFlight(i)}}
    /\ UNCHANGED <<disk, log, up, reading, tasks, edits, crashes, wish, fired, torn, crossed, reverted>>

---------------------------------------------------------------------------
Owner ==
    \E j \in Jobs :
        \/ \E s \in Schedules, once \in BOOLEAN : Add(j, s, once) \/ Reschedule(j, s, once)
        \/ RemoveJob(j) \/ Switch(j) \/ \E p \in Services : RunByHand(p, j)

Looking == \E p \in Services : Look(p) \/ LookMerges(p)

TaskStep == \E i \in DOMAIN tasks : Begin(i) \/ SlotGiven(i) \/ End(i)

Next ==
    \/ \E p \in Services : Tick(p) \/ Start(p) \/ Crash(p) \/ Torn(p)
    \/ TaskStep \/ Owner \/ Looking \/ Clock

Spec == Init /\ [][Next]_vars

---------------------------------------------------------------------------
(* Properties                                                              *)

Job == [on : BOOLEAN, sched : Schedules, once : BOOLEAN, next : Nat,
        hist : SUBSET ({"ran", "skipped"} \X (Times \cup {None}))]

\* Every variable has its type, and no occurrence beyond the clock was taken up.
TypeOK ==
    /\ now \in Times /\ up \subseteq Services
    /\ DOMAIN disk \subseteq Jobs /\ \A j \in DOMAIN disk : disk[j] \in Job
    /\ \A i \in DOMAIN log : log[i].id \in Jobs /\ (log[i].op = "put" => log[i].job \in Job)
    /\ \A i \in DOMAIN tasks :
         /\ tasks[i].id \in Jobs /\ tasks[i].by \in up /\ tasks[i].snap \in Job
         /\ tasks[i].pc \in {"spawned", "waiting", "executing"} /\ tasks[i].due \in 0..now
    /\ DOMAIN reading \subseteq up
    /\ \A p \in DOMAIN reading : \A j \in DOMAIN reading[p] : j \in Jobs /\ reading[p][j] \in Job
    /\ owed \subseteq Jobs \X Times /\ torn \subseteq Jobs /\ reverted \subseteq Jobs

\* "A job never overlaps itself, whatever the pool size" (service.py:727-729): not when
\* a tick, a wait for a slot and a run by hand meet.
NoOverlap ==
    \A p \in Services : \A i, k \in Mine(p, "executing") : tasks[i].id = tasks[k].id => i = k

\* The store, the tasks and the pool agree.
CronConsistent == TypeOK /\ NoOverlap

\* An occurrence is taken up at most once, by however many schedulers, over their
\* deaths and starts, until the owner says something new about the job: unless a look
\* has put the job back (reverted).
FiredOnce == \A j \in Jobs \ reverted : \A t \in Times : fired[j][t] <= 1

\* An occurrence that came due is still on the books until it is fired, recorded as
\* skipped, or covered by a run that ended (service.py:453): no start, merge or edit
\* of another job drops it.
OwedKept ==
    LET d == Store IN
    \A o \in owed : o[1] \in torn \cup crossed \cup reverted \/ (o[1] \in DOMAIN d /\ d[o[1]].on /\ d[o[1]].next = o[2])

\* A job that was removed does not come back, whatever run of it was in flight and
\* wherever the removal was written.
RemovedStays == \A j \in DOMAIN Store \ (torn \cup reverted) : ~wish[j].gone

\* A job keeps the schedule the owner gave it last and stays off when switched off:
\* what a run writes back is only its run state (service.py:692-702).
EditsKept ==
    LET d == Store IN
    \A j \in DOMAIN d \ (torn \cup reverted) : d[j].sched = wish[j].sched /\ (wish[j].off => ~d[j].on)

\* The owner's last word on a job holds, whatever run of it was in flight.
OwnersWordKept == RemovedStays /\ EditsKept
=============================================================================
