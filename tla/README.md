# durin: a verification project

TLA+ models of the parts of durin whose correctness depends on order: what happens when
messages, tasks, threads, processes and restarts interleave. TLC checks the models on small
instances; TLAPS proves the theorems listed below for every value of the constants.

Everything is translated from the code in `src/durin`. Paths below are relative to
`src/durin` unless they start with `docs/`. `PROJECT.json` maps each definition to the lines
it stands for.

    tlc -workers 2 -config loop_lock.cfg MCAgentLoop      # a run
    tlapm AgentLoopProofs.tla                             # a module of proofs

## 1. The system

durin is a personal agent server. A *gateway* process runs one asyncio event loop: channels
(Telegram, Slack, the web UI, ...) publish messages on a bus, one consumer (`AgentLoop.run`)
turns them into *turns* of an LLM agent, and replies go out through the channel manager. Around
that loop there are cron jobs, event-driven automations, multi-step workflows, detached
processes (OCR), a memory store of Markdown files, and other processes (the TUI, the command
line) that may work on the same workspace directory at the same time.

### 1.1 Components

| Component | State it keeps | Operations | Modelled in |
|---|---|---|---|
| Inbound loop (`agent/loop.py`, `bus/`) | bus, pending queues per session, task list per session, session locks, inbound journal | consume, route a follow-up, start a turn, pull injections, end a turn and hand leftovers back, `/stop`, shutdown drain, replay | `AgentLoop`, `MessageLedger` |
| Concurrency gates (`utils/resizable_semaphore.py`) | limit, counters, wrapped semaphore, pending shrink | enter, exit, cancelled enter, `set_limit` | `Gate`, `ResizableSemaphore` |
| Turn slots (`agent/turn_slots.py`) | the slots a turn holds, closed flag | acquire, release, `released_while_waiting` | `TurnSlots` |
| Sub-agents (`agent/subagent.py`) | running tasks per session, results | spawn, run under the ceiling, announce, cancel | `TurnSlots` (slots and waiting only) |
| Turn lease (`session/turn_lease.py`, `utils/file_lock.py`) | lock file, thread-local set of held paths | enter, exit, re-enter, timeout | `TurnLease` |
| OCR jobs (`jobs/`) | `jobs.db` rows and page units, the document's `source.md` | enqueue, claim, record a page, publish, finish, cancel, requeue, reconcile, sweep | `JobRegistry`, `OcrJobs` |
| Automations (`automations/`) | run manifests, event queue, claims on threads, pending fires | fire, drain, park and answer, stop, chain, attempts, orphan sweep, relaunch | `Automations` |
| Workflow engine (`workflow/`, `service/workflows.py`) | run manifests, cancellation registry | run, pause, resume under a claim, retry, cancel, stop, crash sweep | `WorkflowRuns` (one run's manifest; not the walk from node to node) |
| Approvals, pending answers (`agent/approval*.py`, `agent/pending_answers.py`, `tools/ask_user.py`) | a waiter per session, stored requests, hand-off names | ask, answer, time out, fall back, decide, carry out, expire | `Approvals` |
| Cron service (`cron/service.py`) | job store, action log, pool of job tasks | start and catch up, tick, run, write back, merge, edit, run by hand | `CronService` |
| Services and API (`service/`, `api/`) | short-lived caches | request handlers | those that race for shared state, in the module of that state |
| Session store (`session/`) | sessions on disk, cache, reindex flags | reload, save, reindex, rename | planned (its lease is modelled) |
| Channels (`channels/manager.py`) | outbound queue, retry state | dispatch, retry, stop | planned |
| Memory (`memory/`) | entity files, dream locks | compare-and-swap write, dream passes | planned (writer and supervisor) |
| Background tasks (`agent/background_tasks.py`) | detached shell commands | start, finish, announce | planned with the sub-agents |
| Turn runner, tools, providers, CLI, configuration, security, telemetry, skills, voice, web UI, bridge | see `PROJECT.json` | | not modelled: I/O, data, or presentation (reason per component in `PROJECT.json`) |

### 1.2 How they interact

* Channels and the replay put messages on the bus; the consumer takes one at a time. A message
  of a session with a registered pair of pending queues joins them; any other starts a task
  (`_start_turn_task` -> `_dispatch`).
* A task takes, in this order: the session's `asyncio.Lock`, its lane and ceiling slots
  (`TurnSlots` over two gates), and the session's turn lease (a file lock, taken in a pool
  thread). Inside, the runner pulls follow-ups from the queues between model calls.
* `/stop` is obeyed by the consumer itself: it cancels the session's tasks and sub-agents and
  awaits them. The shutdown stops the intake, cancels every task, and writes what is still
  owed to the journal the next process replays.
* A sub-agent takes a ceiling slot of its own; its parent may block for its result with its
  own slots still held.
* A turn that needs a person (an approval, `ask_user`) registers a future in the table of
  pending answers and gives its slots back while it waits. The next message of the chat, a
  click in the web UI or a timeout settles that future; the stored request can also be decided
  from another process.
* An inbound message first passes the automations' matcher: it wakes a run that waits on its
  thread, fires an automation, or is queued behind the run of a `single` one. A fired
  automation runs a workflow, and its outcome may fire other automations or switch it off.
* A workflow run lives in a manifest on disk. It is walked in a thread of its own; answers,
  cancels and sweeps of any process meet on the manifest, under a file lock per run.
* Cron jobs live in one store shared by the gateway and the command line; whoever has no
  running instance writes to an action log the instance merges.
* OCR workers are separate processes. They and the gateway's sweep share nothing but
  `jobs.db` and the document's directory.
* Gates are resized from `reload_app_config`, on the event loop.

### 1.3 What is hard here, and what makes each component correct

* **Inbound loop.** A message can be on the bus, in one of two queues, in a task's memory, in a
  `finally` that is handing it back, in the drain's list or on disk, and a cancellation can
  arrive at any await. Correct: an accepted message is settled exactly once (answered, refused,
  stopped or claimed by an automation); one turn at a time is inside a session; what a queue
  holds finds its way to a turn; a restart keeps what no turn had taken.
* **Gates and slots.** A waiter can be cancelled before or after its permit was granted; the
  semaphore can be thrown away under its waiters; a wait can outlive the turn it belongs to.
  Correct: permits are conserved, no wake-up is lost, the cap converges, nobody is stranded.
* **Turn lease.** Enter and exit run on different pool threads while re-entrancy is
  thread-local; a task can be cancelled while its thread still waits for the lock. Correct: the
  lock is never left behind, and processes exclude each other.
* **OCR jobs.** Any process may be killed at any step; liveness of a worker is inferred from a
  pid; rows are read in one transaction and written in another. Correct: the cap holds, a done
  job is complete, progress is kept, every job settles.
* **Automations.** The slot of a `single` automation is checked before the run exists; an event
  leaves the queue before its run is recorded; the sweep judges the dead by what they left on
  disk, next to new fires and stops; claims on a thread are taken and given back by runs that
  wait for different people. Correct: one active run, an event is kept until something became
  of it, its work starts once, a settled run stays settled, a waiting run can be woken.
* **Workflow runs.** A pause can be answered, rejected, approved and cancelled at once from
  several processes; the engine of a resume is built between the read and the claim; the
  caller may go away before or after a thread took the run. Correct: a pause is acted on once,
  "running" means somebody drives the run, and does not last for ever.
* **Approvals.** The timeout and the verdict can come in the same turn of the loop; a decision
  can be taken by the waiting turn, another task or another process; a death may leave a request
  approved and never carried out. Correct: what was asked for runs at most once, only as
  approved; a given verdict counts; nothing hangs.
* **Cron.** Two schedulers may share a store by mistake; runs end long after the job was edited;
  a start judges what the downtime missed; a listing saves what it read without the lock. Correct: an occurrence is taken up at most once and
  is accounted for, and the owner's edits survive the runs in flight.

The hazards, each at its line and with the properties that cover it, are in `PROJECT.json`.

## 2. The modules

| Module | What it is |
|---|---|
| `Gate` | one `ResizableSemaphore` as a record; each method a function on it. The wrapped `asyncio.Semaphore` (external) is modelled by what durin relies on: free permits, a FIFO queue, waiters granted but not resumed |
| `ResizableSemaphore` | coroutines that use one gate while it is resized |
| `TurnSlots` | turns, waits on a person and sub-agents over two gates |
| `MessageLedger` | abstract: what the inbound path promises a sender |
| `AgentLoop` | the inbound path; refines `MessageLedger` |
| `JobRegistry` | rows of `jobs.db` and each guarded write as a function |
| `OcrJobs` | workers, sweep, person, crashes over `JobRegistry` |
| `TurnLease` | clients, pool threads and the lock file of one session |
| `Automations` | arrivals, runs, queue, claims, chains and the sweep of one process that may die |
| `WorkflowRuns` | one workflow run's manifest and the calls of several processes that meet on it |
| `Approvals` | stored requests, one session's waiting turn, and everyone who decides |
| `CronService` | schedulers, their job tasks, the store, the action log and the owner |
| `AgentLoopProofs`, `GateProofs`, `OcrJobsProofs`, `TurnLeaseProofs`, `AutomationsProofs`, `WorkflowRunsProofs`, `ApprovalsProofs`, `CronServiceProofs` | theorems and their proofs; `GateProofs` is about `ResizableSemaphore` and `TurnSlots` |
| `MC*` | TLC instances: symmetry, and statements of the docs the code does not keep (section 5) |

Operators whose comment begins "A bug:" are plausible mistakes; each replaces the definition
after it to show that a property notices.

**Granularity.** Code of one event loop is atomic between two awaits that suspend, so an action
of `AgentLoop`, `TurnSlots`, `ResizableSemaphore`, `Automations` and `Approvals` is the code from
one such point to the next. In `OcrJobs` an action is one SQLite transaction or one file
operation, because processes interleave anywhere between two; in `WorkflowRuns` it is one
critical section of the run's lock or one write of its manifest. In `TurnLease` an action is one
call a thread makes. `CronService` writes its store under one file lock and without an await, so
a merge, change and save is one action, but for the crash inside it (`Torn`) and the looks that
read the store before they take the lock (`Look`, `LookMerges`).

**Properties in one name.** `GateConsistent`, `SlotsConsistent`, `LoopConsistent`,
`JobsConsistent`, `LeaseConsistent`, `RunsConsistent`, `WaitConsistent` and `CronConsistent` are
each the module's type invariant and what the state's parts must agree on (conservation of
permits and slots, the task list and the lock, the cap, one thread per waiter, one driver per
run, a reachable future, no overlapping runs of a job). `DecisionsHold`, `NothingHangs` and
`OwnersWordKept` are likewise conjunctions of named parts.

### 2.1 AgentLoop

`bus`, `journal` and `owed` are sequences per session: the order between sessions decides
nothing a property tells apart, and TLC then explores every order. A message is its publication
number, its session and its kind: `plain` (deferred to the end of the running turn), `inject` (a
steer or a system result, taken between tool calls), `stop` or `command` (any other: `/new`,
which cancels as `/stop` does, or one that only answers). A `command` is obeyed in the consumer
where a follow-up would be queued (`Obeyed`) and opens a turn otherwise. A task's record holds its stage
(`created`, `waiting` for the lock, slots and lease, `running`, `ending`: the reply is out and
the lease is being released, `handback`: the `finally` is publishing leftovers), its two queues,
what it has pulled, and whether a cancellation is pending (`doomed`). `fate` is a history
variable: what became of each message. `claimed` is a leftover that an automation took when it
was handed back, or whose sender is no longer let in. Four values stand for what the code does
to a message although its docs say otherwise (section 5): `dropped` (the hand-back was
cancelled), `missed` (published after the drain), `cut` (with a turn that the drain cancelled)
and `again` (the drain took it from a turn that had replied already).

Two constants describe timing the code leaves to its environment:

* `MatchersAwait`: `publish_inbound` calls the automations matcher, which suspends only when a
  semantic trigger has to ask a model. TRUE makes the hand-back of leftovers interruptible.
* `ConsumerYields`: whether a new task takes its first step before the consumer takes the next
  message. `Queue.get` does not suspend on a non-empty queue, so FALSE is what a burst does, and
  what `loop_lock` and `loop_shutdown` have. TRUE is a bus with one message at a time; only
  `loop_serving` has it, because without it not every message is settled: those that joined the
  queues of a task overtaken by a command wait for the next shutdown.

`PublishPhases` says in which phases of the gateway the channels publish: they are started
before the loop and stopped after the drain.

Left out: what a turn does with the model and the tools, context building, pending answers (see
`Approvals`), direct turns (`process_direct`), trigger-only messages, the journal's age limit,
the bus bound of ten thousand, `/retry` (sent during a turn it is swallowed: no case of
`run` takes it up, and `loop.py:2040` writes a line to the log), and that a `/new` which opens
a turn is itself among the tasks it cancels. The bus lives in memory: a crash of the gateway loses it by
design, so there is no crash action; an orderly restart is what the journal is for.

### 2.2 Gate, ResizableSemaphore, TurnSlots

A cancelled waiter leaves the queue at once and unwinds later (`doomed`); a waiter cancelled
after its grant passes the permit on. `flushed` are coroutines woken by a semaphore that
`set_limit` has discarded. `surplus` counts those that enter a gate that was turned off and on
within one iteration of the loop: the only way past the cap.

`TurnSlots` keeps `_held` as a set per turn and `closed`. `late` is a wait on a person running
in a task of its own whose turn has ended. The two gates are not resized here. Its top-level
names (`SlotsInit`, `SlotsSpec`, ...) are kept apart from those of `ResizableSemaphore`, so that
`GateProofs` can extend both modules.

### 2.3 OcrJobs

A worker's stages follow `run_job`; `todo` are the pages it read as missing before its claim,
`texts` those it read for the publication, which is three steps: read the recorded pages, replace
`source.md`, index it. Each may fail.
`Orphans` judges a row by its pid; a pid is not given out again while a running row names it
(the age limit, action `Age`, is what the code has against that). `Kinds` and `MaxDisturbed`
bound the crashes, age limits, stops and retries of one behaviour. `overtaken` is history: jobs
whose row was taken from a live worker. Left out: pruning of old rows, `set_units_total`, the
text of unreadable pages.

### 2.4 TurnLease

A client is a turn (which holds the process's `asyncio.Lock` of the session) or a saver (rename,
title) that takes the lease alone. Each of its two calls is queued, runs on whichever thread of
the pool is idle, and can lose the task that awaits it: before a thread took it, while it runs,
or after it returned and before the task resumed. `held` are the threads whose thread-local set
has the path; `through` the clients whose context manager has the file open; `flock` is who has
yet to unlock the file: a client, a thread that works for nobody any more or on a client's way
out, or a cancelled exit in the pool's queue (closing the forgotten context manager unlocks it).

### 2.5 Automations

An event is a message (of a thread), a cron tick or a run-now; `AutoOf` and `ThreadOf` fix what
it is for. What the matcher decides by meaning or correlation is a choice: a message on the
thread of a paused run wakes it, or is taken as a new event. `runs` are the manifests in the
order they were written, each with the task that drives it (`pc`), whether this process owns it
(`mine`) and whether the workflow's own manifest exists (`work`: what `_is_orphan_relaunchable`
looks at). `ready` are tasks that were spawned and have not started; the loop starts them in
order. The engine is one step that may park, end in any status, be cancelled, or be cut off by
the shutdown; it writes its manifest only after the tasks spawned before have started. A
*fault* is an exception of the code around a run: `prune_runs` raises and the drain after it is
skipped (`Housekeeping`), or settling or delivering a run raises (`Breaks`). The latter is
caught by the guard of an answered run's continuation, which finalizes the run as failed whether
it is settled or not (`_answer_continuation_guarded`); elsewhere it leaves the manifest as it
is. `taken`, `excused`, `late`, `displaced` and `cut` are history: which events were taken on,
which were given up and told or reached the run they answer, which answers found their run no
longer waiting, which runs lost their thread to another, which automations were left without a
run to come.

Left out: a fault of the sweep's own delivery, of the chains fired after the drain, and of the
claim taken by a park; how a message is matched, hooks, the version store, the synchronisation with cron
jobs, migration, pruning, templates, the age limit of paused runs.

### 2.6 WorkflowRuns

One run that is paused (on a question or an approval) or was aborted. `rec` is its manifest;
`walk` tells whose `started_at` it carries, which is what `claim_for_resume` compares. A call
goes through the stages of `execute`: `asked` (read, outside the lock), `prepared` (looked at
again under the lock; the engine is being built), `waiting` for a thread, `entered` (the thread
has taken over: `handoff`), `walking`, `ending` (its cancellation flag is cleared, the manifest
not yet final), `releasing` its claim. `attached` is a caller that still waits. `flags` are the
processes whose registry has a stop for the run; `sweep` is a record that a sweep has read and
not yet written back. `taken` is history: how often each pause was acted on under the lock of
the run; `walked` how often the agent's tool, which answers a question without the lock, started
a walk from it. `undercut` remembers that a `cancel_run` fell into such a resume. `raced` is
history too: a retry of an aborted run, or the agent's tool, claims nothing, and once such a
call meets another resume the code promises nothing about the manifest; `InOneHand` and `NoGhost`
say what holds until then, and section 5 shows what happens after.

Taken together or left out: the read and the write inside `update_run` and `finalize_run` are
one step; `mark_node_started` is left out; an exhausted loop ends as `completed`; an aborted run
without `failed_node` is final; `/stop` of a foreground tool is a stop; a `start_run` that fails
is swallowed by the code and not modelled; the return of a caller is part of its thread's last
step. Calls of one process interleave here at more points than one event loop allows.

### 2.7 Approvals

`recs` are the stored requests of one kind of action for one session, each changed by
`transition` (compare and set under a file lock). `running` is who carries an approved one out:
the turn, the web UI's task or the command line's process. `turn` is the session's turn; `fut`
is the state of its future, `reply` what was put into it, `late` a timeout whose cancellation is
on its way, `answer` what the wait returned. `waiter` is the session's entry in the table: the
turn's future, one that a stopped turn left behind, or none.

Left out: the judge's own verdict (a choice), which channels may answer, the refusal of a request
with missing handles, pruning of old records. `find_pending` and the decision of what it found
are one step.

### 2.8 CronService

`Schedules` are one-shots (`at`), intervals and calendar schedules (`every` counts from now,
`cron` from the clock). `disk` is the store, `log` the edits of instances that are not running.
A task goes from `spawned` over `waiting` (for a slot of the pool) to `executing`, and carries
`snap`, its own copy of the job. `wish` is history: the owner's last word on each job; `fired`
counts how often each occurrence was taken up since; `owed` are occurrences that came due and
are not accounted for; `crossed` are jobs switched or rescheduled under a run in flight, `torn`
jobs whose edits a crash inside a merge lost.

`list_jobs`, `get_job` and `status` of a running instance read `jobs.json` without the file lock
(`Look`), and take the lock only to merge the log into what they read and to save that
(`LookMerges`). `reading` is the copy between the two, during which the scheduler's event loop does
nothing else; `reverted` is history: the jobs whose record such a save changed. The properties
leave those out, and section 5 tells what becomes of them.

Left out: the reaper and the other system jobs, the recovery of a corrupt store, how the timer
is armed (a tick may come at any time), pruning of the history.

## 3. The runs

| Run | Properties | What it shows |
|---|---|---|
| `sem` | `GateConsistent` `PermitsConserved` `EveryWaiterServed` `CapConverges` | four coroutines, caps 0 to 3, three resizes |
| `slots` | `SlotsConsistent` `OtherChatsRun` `SubagentsFinish` | three turns and a sub-agent on a lane of two and a ceiling of one; nobody has to answer |
| `loop_serving` | `KeepsLedger` `EventuallySettled` | two sessions, two tasks, three messages of every kind: the loop refines the ledger, and every message is settled |
| `loop_lock` | `LoopConsistent` `OneTurnInside` `SettledOnce` | two sessions, three tasks, four messages of every kind, queues of one, bursts, hand-backs that suspend, a restart: the worst case for the lock, the task list and a message's one outcome |
| `loop_shutdown` | `WaitingKept` `NoCompetingTurns` | two sessions, two tasks, four messages of every kind, bursts, hand-backs that suspend, publishing in every phase, a restart anywhere |
| `jobs_safe` | `JobsConsistent` `DoneIsComplete` `ProgressKept` | two jobs of two pages, two workers, the sweep; any two of crash, stop, retry; launches and publications fail |
| `jobs_settle` | `JobsSettle` | two jobs behind a cap of one, a kill or the age limit at any step |
| `lease_released` | `LeaseConsistent` `LockHasAHolder` `LockGivenBack` | a gateway with a turn, a rename and two pool threads, a TUI with a turn and one, a death, a cancellation at every await |
| `automations` | `RunsConsistent` `OneActive` `WorkOnce` `EventKept` `NobodyStranded` `ClaimKept` `SettledStays` | two `single` automations, the first chaining the second, two events, a park, and one of crash, shutdown, switch, stop and fault at any point |
| `workflow` | `InOneHand` `OneWinner` `NoGhost` | three calls of every kind on one run, made in two processes, one of which may die; callers go away at any point |
| `approvals` | `WaitConsistent` `RunsOnce` `VerdictKept` `DecisionsHold` `NothingHangs` | two requests, two turns that ask, decisions from everywhere, any two of stop, crash and a changed target |
| `cron` | `CronConsistent` `FiredOnce` `OwedKept` `OwnersWordKept` | three jobs on two slots, two schedulers on one store, three ticks of the clock, one edit, look or run by hand, one death, also inside a merge |

### 3.1 Bounds

* Sizes of the loop are scaled with their relations kept: the code has queues of 20, 3 messages
  per pull and 5 pulls per turn, so a full queue outlives its turn's pulls (20 > 15); the runs
  use 1 message per pull, 1 pull per turn and queues that outlast it. `loop_lock` uses queues
  small enough to overflow; in `loop_shutdown` none is ever full, as its two properties need
  (section 4). Three tasks are enough for a running turn, one waiting for the lock
  and one more; two sessions for one's `/stop` to hold up the other.
* Four coroutines on a gate give a holder, a granted waiter, a queued one and a cancelled one at
  once; three resizes give lower, raise, off and on in any order.
* Two workers and a cap of one make every claim contended; two disturbances give the pairs that
  matter (a crash after a stop, a retry under a stop); the age limit, in the liveness run, takes the row
  of a live worker. `JobsConsistent` and `DoneIsComplete` are proved for all four kinds.
* Two pool threads are the least on which a lease is entered and left on different ones; one
  process has them, and the rename, the other only competes for the file.
* Two events for one `single` automation give one that runs and one that waits; the chained
  automation has its own slot. One disturbance keeps the run within minutes; a crash followed by
  the sweep, its relaunch and the other event already interleave in it. One park per run.
* Three calls on a run give two that race and one that settles what they left (a cancel between,
  a stop, a second answer to the next pause). Processes are alike, so the first call is made in
  a given one; one process survives.
* Two requests and two asks give a request found again, a second one filed after the first was
  settled, and a turn that meets what an earlier one left behind.
* Two schedulers on one store are what the tick lock is for (`docs/internals/cron.md:15`). Three jobs
  and two slots are the least with which a job could overlap itself: two hold the slots while two
  tasks of the third wait (a scheduled one and a run by hand), and both get in when the slots come
  free. That is what the second look at the executing jobs (`cron/service.py:720`) is for, and the
  run fails without it. Three ticks let a job come due, run late, be missed, and come due again.
* Counters in guards only: `MaxMessages`, `MaxRestarts`, `MaxResizes`, `MaxDisturbed`,
  `MaxDeaths`, `MaxParks`, `MaxRecords`, `MaxAsks`, `NCalls`, `MaxTime`, `MaxEdits`,
  `MaxCrashes`. `CHECK_DEADLOCK FALSE` where the system may stop: all messages are settled and
  nobody publishes, all turns or calls are over, the clock has reached its bound. The runs of
  `sem`, jobs and lease check deadlock (jobs: the sweep runs for ever).

### 3.2 Fairness

* `AgentLoop`: weak fairness for every task that can go on (the event loop runs it; a turn ends
  by its iteration limit and timeouts) and for the consumer's own waiting. Strong fairness for
  consuming each session's messages: the bus is one FIFO, so a session's head is reached however
  often the consumer is blocked in between by another session's `/stop`. None for publishing or
  for stopping the gateway.
* `ResizableSemaphore`: resumption of woken coroutines, unwinding, and leaving. None for
  arriving, cancelling or resizing.
* `TurnSlots`: the same, the 300 s limit on waiting for children, and strong fairness for a
  turn's end: it may go back to waiting only as often as its iteration limit allows. None for
  the person.
* `OcrJobs`: a process that is not killed goes on; a gateway's sweep runs each minute. Crashes
  are bounded in the runs; without a bound a job whose worker is always killed never settles.
* `TurnLease`: a call that runs on a thread returns (the poll for the lock has a timeout), and
  strong fairness for a queued call: the pool takes its queue in order. None for clients.
* `Approvals`: the loop runs a turn's steps and its timeout; the housekeeping comes round for
  each record. None for a person, nor for the end of what is carried out.
* `WorkflowRuns`: a thread becomes free and walks to its end (a node has its own limits), and
  a serving process sweeps every ten minutes (`reconcile_running`, `service/wiring.py:221-262`).
  None for callers, stops or deaths.

## 4. What is proved

Every safety invariant and every action property that a run checks, and the refinement of
`MessageLedger`, is also a theorem: for any sets of sessions, tasks, jobs, processes, threads,
requests, calls, automations, schedulers and coroutines and any bounds, from the assumptions
named in the modules (`ASSUME`s on the constants only). Where a theorem needs more, the
hypothesis is in its statement and explained below the tables. The column "strengthening" names
the inductive invariant and what it adds.

The inbound path (`AgentLoopProofs`):

| Theorem | Statement | Strengthening |
|---|---|---|
| `LoopTypeOK`, `ListedAreAlive`, `LoopIsConsistent` | `Spec => []TypeOK`, `[]NoneOutlives`, `[]LoopConsistent` | inductive together: an opener's type comes from the lock and the task list holding only unfinished tasks. "Once" is what makes removing the first occurrence remove the task |
| `SessionsSerialised` | `Spec => []OneTurnInside` | `HeadInside`: a task inside its body is the head of its session's lock, and a sequence has one head |
| `QueuesOwned` | `Spec => []RoutedOK`: queues are registered for one session and for a task of that session, at work or overtaken before its first step | `Routing`: besides, every unfinished task is listed until the drain |
| `OneTurnPerSession` | `Spec /\ []RoomLeft => []NoCompetingTurns` | `OwnQueues`: until the drain every unfinished task is the one its session's queues are registered for, so a message joins it instead of starting another |
| `WaitingIsKept` | `Spec /\ []RoomLeft => []WaitingKept` | `OwedWaits`: an owed message is on the bus, in registered queues, in a hand, with the drain, in the journal or with a task that will answer it |
| `AnsweredOnce`, `RepliesOnce` | `Spec => [](Fresh => SettledOnce)`; `MaxRestarts = 0 => (Spec => []SettledOnce)` | `OnePlace`: a message is in one place at most (the bus, a queue, a hand, an opener, the journal). `Due`: what a queue or a turn still to reply has, has no outcome yet |
| `LedgerIsKept` | `MaxRestarts = 0 => (Spec /\ []RoomLeft /\ []HandsSpared => KeepsLedger)` | the initial state maps to the ledger's; every step to a step of it (accept, or settle a set of owed messages) or to a stutter; `NoFailures`: nothing is cut, dropped or missed |

Gates and slots (`GateProofs`), OCR jobs, the lease:

| Theorem | Statement | Strengthening |
|---|---|---|
| `GateIsConsistent`, `PermitsAreConserved` | `Spec => []GateConsistent`, `[]PermitsConserved` | `Books`: every coroutine is in one place (inside, cancelled and not unwound, queued, granted, flushed), the gate's numbers are the sizes of those places, and a queue holds nobody twice. Waking k waiters moves k of them (`WakeUpIs`) |
| `SlotsAgree` | `Actors => (SlotsSpec => []SlotsConsistent)`; `Actors` only says that `Turns` and `Subagents` are subsets of the finite set `Tasks` of the gate's coroutines, over which the gate lemmas range | `SlotBooks`: both gates are `Capped` (permits free, on their way and in use make the cap), and per turn `Fit`: what it holds fits where it is, it is in one queue at most, and only while it, or a wait it left behind, can take what it is granted |
| `JobsTypeOK`, `RunningWithinCap`, `JobsAreConsistent` | `Spec => []TypeOK`, `[]WithinCap`, `[]JobsConsistent` | only a claim adds a running row, and it counts and writes in one transaction |
| `DoneMeansComplete` | `Spec => []DoneIsComplete` | `DoneInd`: a worker whose row nobody took owns it from the claim to the finish, what it need not do is recorded, and it finishes what it published |
| `ProgressIsKept` | `Spec => ProgressKept` | an action property from the same invariant: a worker deletes the pages of a job only after its row says done |
| `LeaseIsConsistent`, `LeaseNeverLeftBehind` | `Spec => []LeaseConsistent`, `[]LockHasAHolder` | one thread per waiting client, at what it awaits; a thread that works on a client's exit has taken over its lock (`Hold`) |
| `ExcludesUntilReentered` | `Spec /\ [][~Reentered]_vars => []` (one client at a time is in) | `LockersOnly`: whoever is in locked the file. Only a step that takes a thread's stale mark for the lock (`Reenter`) breaks it; section 5 shows that the code takes such steps |

What outlives a process (`AutomationsProofs`, `WorkflowRunsProofs`, `ApprovalsProofs`,
`CronServiceProofs`):

| Theorem | Statement | Strengthening |
|---|---|---|
| `RunsAreConsistent` | `Spec => []RunsConsistent` | `Base`: what each stage of a run, each kind of task and the sweep may say of each other; every step writes one run lawfully or appends one (`RunsStep`) |
| `SettledStaysAlways` | `Spec => SettledStays` | no lawful write leaves a settled status, but for the guard of an answered run (`Refinalized`) |
| `OneRunAtATime` | `Spec => []OneActive` | a run is added to a single automation only when none of its own is live, and no settled run comes to life |
| `ClaimIsKept` | `Spec => []ClaimKept` | `ClaimsStep`: each wait that a step leaves either was just claimed or keeps the claim (or the displacement) it had |
| `NobodyIsStranded` | `Spec => []NobodyStranded` | `Attended`: a run that ends without draining belongs to an automation that is off (`SpecsTrue`), until one was toggled |
| `EventIsKept` | `Spec => []EventKept` | each step that takes an event out of a place puts it into the next (`EventStep`) |
| `WorkStartsOnce` | `ChainsEnd => (Spec => []WorkOnce)` | `Once`: an event is for each automation in the queue, in one task or in one run that may still start its workflow; chained events come from an automation of lower rank |
| `PauseActedOnOnce` | `Spec => []OneWinner` | `CountedRight` (what the manifest shows of a pause tells how often it was acted on) and `NotBefore` (nobody knows a pause that its walk has yet to make). A claim given back finds its own record, so it takes its own count back. `ToolInd`: no tool walked on from a pause that the manifest still shows, and what a tool has read nobody else has acted on, until its resume met another one or a cancel |
| `RunInOneHand` | `Spec => []InOneHand` | `HandInd`: one caller or thread at most holds the run, a claimed pause is as it was claimed until its walk, a sweep's copy is still the manifest; until a resume without a claim meets another (`raced`) |
| `CarriedOutOnce`, `DecisionsAreKept` | `Spec => []RunsOnce`, `Spec => DecisionsHold` | per record (`Good`): an undecided record has no runner, who is about to carry one out has not begun, and it was approved. Only the one whose compare-and-set leaves `pending` becomes its runner; every step is lawful for every record |
| `WaitingCanBeAnswered`, `VerdictIsKept` | `Spec => []WaitConsistent`, `[]VerdictKept` | `WaitGood`: the future of a turn is registered as long as it is open, and what is put into it stays there until the turn takes it along |
| `StoreAgrees` | `Spec => []CronConsistent` | `Base`: a job that no edit in the log is about is in `jobs.json` as it is in the store; the rest was given by the owner |
| `OccurrenceFiresOnce` | `Spec => []FiredOnce` | `Fires`: what was taken up lies behind the next run of its job, and an edit not merged yet starts a new count |
| `OwedStaysOnTheBooks` | `Spec => []OwedKept` | `Owes`: an occurrence that came due is the next run of its job, and a task's copy has the schedule its job has; except `torn` and `crossed` jobs |
| `OwnersWordHolds` | `Spec => []OwnersWordKept` | `WordsHold`: per job, disk and log together say what the owner last said; except `torn` jobs |

Three of the loop's theorems have a hypothesis, and section 5 shows that they fail without it.
`[]RoomLeft`: whenever the consumer takes a message, the queues it may have to join have room; a
full queue does start a competing turn, and the queues of one of the two are lost. It is a
statement about the behaviour and not about `QueueCap`: it holds of every behaviour in which no
session has 20 follow-ups waiting for one turn. `[]HandsSpared`: no task is cancelled while it
hands its leftovers back. `MaxRestarts = 0`: the ledger of `MessageLedger` is that of one
process, for the drain cuts off what a cancelled turn had pulled. None of them says when the
consumer runs, whether an interceptor suspends, or when the channels publish; `LoopTypeOK`,
`LoopIsConsistent`, `SessionsSerialised`, `QueuesOwned` and `AnsweredOnce` have no hypothesis at
all. `Fresh` in `AnsweredOnce` is "up to the first shutdown": that `SettledOnce` holds across a
restart is checked (`loop_lock`) and not proved.

`ChainsEnd` (the automations can be ranked so that a chain only climbs) holds of the run's two
automations. The code does not refuse a cycle; it cuts one off after `CHAIN_HOP_CAP` hops
(`automations/runtime.py:867`), a count the model does not keep; an event that
comes back round a cycle starts the workflow again, as configured.

What the store of cron holds is a recursion over its action log. The proofs use two facts about
it, what an empty log and one more entry mean (`MergeEmpty`, `MergeAppend`), which come from an
induction over the length of the log, put as a fact about sets of numbers (`NatSet`).

Only model-checked: liveness (`EventuallySettled`, `EveryWaiterServed`, `CapConverges`,
`OtherChatsRun`, `SubagentsFinish`, `JobsSettle`, `NothingHangs`, `NoGhost`), which needs
fairness and `ENABLED`, and the prover does not handle them; and what the paragraphs above except.

## 5. What the models also show

Behaviours TLC finds when the named statement is made a property of the model with the values
given: places where the code does something else than a doc or comment says. The first line of
each says what is promised.

Of `AgentLoop` (one session, two tasks, `Batch = MaxCycles = 1`, the rest as named):

* "this task owns the queues' lifecycle -- it drains and unregisters them in the finally"
  (`agent/loop.py:2803-2804`). `NoDeadQueues`, `ConsumerYields = FALSE`, kinds plain and stop: a
  `/stop` (or `/new`) consumed right behind the message it stops cancels a task that never takes
  its first step, so no `finally` runs; the session's later messages join queues nobody reads
  until the next shutdown drains them.
* "re-publishes any messages still sitting in the pending queue" (`docs/internals/loop.md:343`).
  `NothingLost`, `MatchersAwait = TRUE`: a `/stop` while the `finally` awaits the matcher drops
  the leftovers not yet published (`dropped`).
* "re-publish them to the bus so they are processed as fresh inbound messages rather than silently
  lost" (`agent/loop.py:2976-2978`). `WaitingKept`, three tasks, five messages, queues of two: a
  follow-up that finds the deferred queue full (`agent/loop.py:2756-2761`) starts a task of its
  own, and registering it overwrites the running turn's queues (`agent/loop.py:2785`). The
  running turn's `finally` then hands back the newcomer's queues (`agent/loop.py:2980`), and
  what its own still held is lost: up to 5 of 20 messages.
* "A message that arrives from now on stays on the bus, where the shutdown drain journals it"
  (`agent/loop.py:3059-3060`). `NothingLost`, `MaxRestarts = 1` and `drained` in `PublishPhases`:
  the channels are stopped only after the drain has emptied the bus (`missed`).
* "so the next start answers them in the order they were sent" (`agent/loop.py:3099-3105`).
  `JournalInOrder`, `MaxRestarts = 1`: a turn that ends by itself before the drain puts its
  follow-ups behind a newer message.
* "every inbound message the gateway still owes a turn to" (`agent/loop.py:3095-3096`).
  `NoneAnsweredAgain`, `MaxRestarts = 1`: the drain journals the message of a turn that has
  replied and is releasing its lease, and the next process answers it again (`again`).
  `NothingLost`, `MaxRestarts = 1`: what a cancelled turn had pulled from its queues is in no
  journal (`cut`).

Of `TurnSlots` (as in the run): "acquiring the shared ceiling here
cannot deadlock a parent that's holding it" (`agent/subagent.py:435-436`). `CeilingNotStalled`:
`_drain_pending` blocks a parent with its slots held for a child queued at the ceiling; turns
that fill it all stall until the 300 s timeout. `SubagentsFinish` checks that the timeout ends it.

Of `ResizableSemaphore`: lowering the cap takes back no free permit, so on an idle gate as many
coroutines as before still enter; the new cap is in force once that many have left.
`PermitsConserved` states the balance that does hold.

Of `OcrJobs` (one or two jobs, two or three pids, one page):

* `DoneIsPublished`, a crash and an age limit: a worker that has passed its last page writes
  `source.md` from the recorded units without asking whether the row is still its own
  (`jobs/ocr_worker.py:285`). If a successor has finished meanwhile and deleted the units, the
  finished document is replaced by one without the transcribed pages. `docs/internals/jobs.md:193`
  says `finish`'s pid guard keeps that window safe; it is reached after the write.
* `LiveWorkerKeepsRow`, one crash: `reconcile` reads orphans and later writes them back to
  queued with no condition (`jobs/registry.py:411`), so the slower of two reconciles requeues a
  row its new worker has claimed.
* `CancelWins`, a crash and a stop: the same write undoes a cancel that lands between.
* `DoneIsFinal`, a stop: `cancel` writes whatever the row holds (`jobs/registry.py:342`), and
  the stop's check of the status is an earlier read, so a job done in between is reported
  cancelled with its pages already deleted.
* `EnginesWithinCap`, a stop: the row of a stopped job frees the slot while its worker is still
  inside a page, so two OCR engines run (`docs/internals/jobs.md:42`: "At most one").

Of `TurnLease`:

* `ProcessesExclude` (as in the run): `cross_process_lock`
  remembers what it holds per thread, but the lease enters and leaves in separate
  `asyncio.to_thread` calls. A stale mark on the thread that entered lets a later enter on it
  skip the file lock, so a TUI's turn and a gateway's run on one session together
  (`utils/file_lock.py:45` against `session/turn_lease.py:3-5`). Running the code agrees: once
  the pool had several threads, most leases were entered without the file lock. One pool thread
  per process is not enough either: a `/stop` between the thread's return and the task's own
  resumption closes the generator on the event loop's thread, and the mark stays with the pool
  thread. Nothing but such marks breaks the exclusion (`ExcludesUntilReentered`).
* `OneInside` (one thread per process, a turn and a rename): the rename's enter on the thread
  that entered the turn's lease counts as re-entrant, and its whole-file save runs inside the
  turn (`service/sessions.py:263-264` says it cannot).

Of `WorkflowRuns` (as in the run):

* "exactly one of a racing pair wins" (`workflow/run_log.py:23-24`). `OneWalk`: the agent's
  `run_workflow` tool reads the manifest and resumes it without the lock or a claim
  (`agent/tools/run_workflow.py:444`), and so does every retry of an aborted run: two tools, a
  tool and an answer from the web, or two retries walk one run at once. `OneWinner` therefore
  counts the tool only until its resume meets another one or a cancel.
* "a finished run is already final" (`service/workflows.py:1124-1126`). `CancelHolds`: the tool
  reads the pause, `cancel_run` settles it, and the tool's walk starts all the same.
* "the manifest is terminal" implies "the flag is already cleared"
  (`service/workflows.py:967-969`). `TerminalMeansCleared`: a stop reads "running", the run ends
  or goes on in another process, and the flag set afterwards stays in the registry; the next
  resume in that process is cancelled at its first node.

Of `Automations`:

* "queued (single concurrency, an active/pending run already exists)" (`automations/matcher.py:272-284`).
  `QueuedBehindARun` (one automation, two or three messages on the thread, no chain): the pending
  mark of a fire outlives the run it started, until the fire's task has wrapped up; a message
  that meets only the mark is queued although nothing will drain it before the next run ends.
* "a no-op in the common case where the claim is already gone" (`automations/matcher.py:366-377`).
  `ClaimsOfOthersKept` (three messages on the thread, two automations that are not single, kinds
  stop): a wake that comes too late releases the thread's claim, whoever has it by then; the run
  that has it waits for a reply that no longer reaches it.
* A death between the dequeue of an event and the record of its run (`automations/runtime.py:717`)
  loses the event; `EventKept` holds but for that (`excused`).

Of `Approvals` (as in the run):

* "Each entry is popped on every path ... so nothing leaks" (`agent/approval.py:107-114`).
  `NoNameLeaks`: a turn that is stopped between the click and its waking leaves the name.
* What a person answered before the wait ended is the answer (`agent/tools/ask_user.py:256-267`).
  `AnswerKept`: unlike the approval's asker, `ask_user` does not look into its future after a
  timeout, so an answer that comes in the same turn of the loop is consumed and not returned.
* No future stays in the table after its turn (`agent/tools/ask_user.py:242-250`,
  `pending_answers.discard`). `NothingSwallowed`: a stop between `create` and the wait leaves it
  there, and the chat's next message is taken for its answer.

Of `CronService` (as in the run):

* Edits made during a run are preserved (`docs/internals/cron.md:18`). `OneShotOnTime`: a run
  that ends writes its own next run over the one of a job rescheduled meanwhile. A one-shot that
  is armed again during its run is switched off by the write-back.
* Each task re-applies its run onto the job as it is on disk (`cron/service.py:692-702`).
  `HistoryKept`: it writes its copy of the history, and a record made meanwhile (a run by hand
  beside a scheduled one) is lost.
* "replays these entries in order, then clears the log": an accepted edit holds (`docs/internals/cron.md:62`,
  `cron/service.py:273-275`). `RemovalHolds`: the merge empties the log before it saves the
  store; a death in between loses the removal.
* Advancing the due jobs before the lock is released "is the at-most-once guard — a second
  scheduler process loads the advanced value and finds nothing due" (`cron/service.py:571-573`,
  `605-610`). `FiredOnceAlways`: a scheduler that lists its jobs has read the store before the
  other's tick; an edit arrives in the log, so the look saves what it read with the edit merged in,
  the job is due again, and its occurrence is fired twice. The same save undoes a removal or an edit
  made by the other process in between.
* Seen while modelling, with no statement of their own: a death between the advance of a
  one-shot and its run loses it without a record; `enable_job` on a one-shot of the past leaves
  it enabled with no next run; `run_job` puts back the `_running` flag it saw before the run
  (`cron/service.py:1111-1114`).

## 6. The plan

In this order; a module's runs and theorems follow it.

1. Proofs: of the statements of section 5 those that hold under a hypothesis (`CancelWins` and
   `DoneIsFinal` without a stop, `OneWalk` without the agent's tool); `SettledOnce` across
   restarts; `PermitsConserved` with the
   gates of `TurnSlots` resized.
2. `SessionStore`: save against reload, the reindex drainer; `Outbound`: the channel manager's
   retries; the memory writer's compare-and-swap; the sub-agent registry and the getters of
   `_drain_pending`; the turn runner's checkpoint.
3. The walk of a workflow from node to node: paused sub-workflows, detached nodes, the keyed
   working folder and its lock.
4. Composition: the wait of `Approvals` over `TurnSlots`, `WorkflowRuns` under `Automations`,
   resizes in `TurnSlots`, slots and lease inside `AgentLoop`'s `waiting` stage.

Not modelled, and not planned: model providers and channel adapters (protocol I/O), retrieval
and embedding (data), the Web UI and the TUI (presentation), security scanners, configuration,
telemetry, prompt text, voice, and the WhatsApp bridge. What they could get wrong is not an
order of steps. `PROJECT.json` gives the reason for each.
