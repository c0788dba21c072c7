---------------------------- MODULE Automations ----------------------------
(***************************************************************************)
(* The automations: the runtime that fires a workflow for an event and      *)
(* settles its run (durin/automations/runtime.py), the matcher that turns   *)
(* an inbound message into an answer, a fire or a queued event              *)
(* (matcher.py), and the manifests, queues and claims they keep on disk     *)
(* (run_log.py, queue.py, claims.py).  All of it runs on the gateway's      *)
(* event loop: a step is the code between two awaits, and the tasks the     *)
(* code spawns start in the order they were spawned.  The process may die   *)
(* between any two steps; what is on disk survives.                         *)
(***************************************************************************)
EXTENDS Naturals, Sequences, FiniteSets, SequencesExt

CONSTANTS
    Autos,         \* the automations
    Single,        \* those with concurrency "single"
    Chain,         \* the automations an automation's outcome fires
    ChainWhen,     \* the outcomes that do (chain_when)
    Events,        \* what may arrive: a message, a cron tick, a run-now
    AutoOf,        \* the automation an event is for
    Threads,       \* the threads a run may wait on
    ThreadOf,      \* the thread of a message, NoThread for other events
    NoThread,
    MaxAttempts,   \* life.max_attempts; 0 for none
    OnStuck,       \* life.on_stuck
    Kinds,         \* what may disturb the automations, of the kinds below
    MaxDisturbed,  \* bound on how often something does
    MaxParks       \* bound on how often a run of each automation asks

ASSUME AutosAssumption == IsFiniteSet(Autos) /\ Single \subseteq Autos
ASSUME ChainAssumption ==
    /\ Chain \in [Autos -> SUBSET Autos]
    /\ \A a, b, c \in Autos : c \in Chain[a] \cap Chain[b] => a = b
    /\ ChainWhen \subseteq {"achieved", "completed", "failed"}
ASSUME EventAssumption ==
    /\ AutoOf \in [Events -> Autos] /\ ThreadOf \in [Events -> Threads \cup {NoThread}]
    /\ NoThread \notin Threads
ASSUME LifeAssumption ==
    MaxAttempts \in Nat /\ OnStuck \in {"keep", "notify", "escalate_pause"}
ASSUME KindsAssumption == Kinds \subseteq {"crash", "shutdown", "toggle", "stop", "fault"}
ASSUME BoundAssumption == MaxDisturbed \in Nat /\ MaxParks \in [Autos -> Nat]

VARIABLES
    enabled,    \* disk: the switch of each automation
    runs,       \* disk: the manifests, with the task that drives each run
    queue,      \* disk: the events that wait for a single automation
    claims,     \* disk: the run each thread wakes, 0 for none
    pending,    \* the matcher's _pending_fires
    ready,      \* spawned tasks that have not started
    sweep,      \* sweep_orphans
    closing,    \* the gateway is shutting down
    taken,      \* history: the events taken on, each with its automation
    excused,    \* history: the events whose run was given up, and told or lost; the
                \* answers that reached their run
    late,       \* history: the answers that found their run no longer waiting
    displaced,  \* history: the runs that lost their claim to another run or its late wake
    cut,        \* history: the automations whose queue was left without a run to come,
                \* by a crash, a fault or a message queued behind a run just over
    disturbed   \* how often each kind of disturbance happened

memory  == <<pending, ready, sweep, closing>>
history == <<taken, excused, late, displaced, cut>>
vars == <<enabled, runs, queue, claims, memory, history, disturbed>>

NoRun    == 0
NoSweep  == [todo |-> {}, at |-> NoRun, again |-> FALSE, relaunch |-> <<>>]
Active(a) == {r \in DOMAIN runs : runs[r].auto = a /\ runs[r].status \in {"running", "paused"}}
At(r, pc) == r \in DOMAIN runs /\ runs[r].pc = pc
Seen(e)  == \E a \in Autos : <<a, e>> \in taken

\* Somebody will look at the queue: a run, a fire about to start, a run being wrapped up.
Watched(a) ==
    \/ Active(a) # {}
    \/ \E i \in DOMAIN ready : ready[i].kind \in {"fire", "drain", "chain", "relaunch"} /\ ready[i].auto = a
    \/ \E r \in DOMAIN runs : runs[r].auto = a /\ runs[r].pc \in {"deliver", "help"}

Task(kind, a, e, r) == [kind |-> kind, auto |-> a, ev |-> e, run |-> r]
Key(task) == <<task.auto, task.ev>>
Firing == {"fire", "drain", "chain", "relaunch"}

Init ==
    /\ enabled \in [Autos -> BOOLEAN]
    /\ runs = <<>> /\ queue = [a \in Autos |-> <<>>] /\ claims = [t \in Threads |-> NoRun]
    /\ pending = {} /\ ready = <<>> /\ sweep = NoSweep /\ closing = FALSE
    /\ taken = {} /\ excused = {} /\ late = {} /\ displaced = {} /\ cut = {}
    /\ disturbed = [k \in Kinds |-> 0]

Disturb(kind) ==
    /\ kind \in Kinds
    /\ FoldFunction(+, 0, disturbed) < MaxDisturbed
    /\ disturbed' = [disturbed EXCEPT ![kind] = @ + 1]

\* A bug: a run that waits for a person does not hold the slot.
BusyWhileRunning(a) ==
    a \in Single /\ \E r \in DOMAIN runs : runs[r].auto = a /\ runs[r].status = "running"

\* fire and try_fire: is the one slot of a single automation taken?
Busy(a) == a \in Single /\ Active(a) # {}

\* start_run.  The spec is the one read now; by says who waits for the run to end,
\* guarded that an answer's continuation drives it.
NewRun(a, e, by) ==
    [auto |-> a, ev |-> e, status |-> "running", mine |-> TRUE, work |-> FALSE,
     stop |-> FALSE, cancel |-> FALSE, spec |-> enabled[a], by |-> by, guarded |-> FALSE,
     pc |-> "exec", says |-> {}, waits |-> NoThread, parks |-> 0]

---------------------------------------------------------------------------
(* What arrives                                                            *)

\* A bug: the first claim on a thread wins.
RegisterFirst(t, r) ==
    /\ claims' = IF claims[t] = NoRun THEN [claims EXCEPT ![t] = r] ELSE claims
    /\ UNCHANGED displaced

\* claims.register: the last claim on a thread wins.
Register(t, r) ==
    /\ claims' = [claims EXCEPT ![t] = r]
    /\ displaced' = IF claims[t] \in {NoRun, r} THEN displaced ELSE displaced \cup {claims[t]}

Released(r) == [t \in Threads |-> IF claims[t] = r THEN NoRun ELSE claims[t]]

\* _dispatch_match: fire it, or queue it behind the run that has the slot.
DispatchMatch(e) ==
    LET a == AutoOf[e] IN
    /\ taken' = taken \cup {<<a, e>>}
    /\ IF a \in Single /\ (a \in pending \/ Active(a) # {})
       THEN /\ queue' = [queue EXCEPT ![a] = Append(@, e)]
            /\ cut' = IF Watched(a) THEN cut ELSE cut \cup {a}
            /\ UNCHANGED <<pending, ready>>
       ELSE /\ pending' = pending \cup {a}
            /\ ready' = Append(ready, Task("fire", a, e, NoRun))
            /\ UNCHANGED <<queue, cut>>

\* handle_inbound: the run that the thread's claim names is woken if it waits, unless
\* its trigger starts a new one for every message; a claim of any other is stale.
Inbound(e) ==
    LET t     == ThreadOf[e]
        r     == claims[t]
        waits == r # NoRun /\ runs[r].status = "paused"
    IN
    /\ ~closing /\ ~Seen(e) /\ t # NoThread
    /\ \/ /\ waits
          /\ ready' = Append(ready, Task("answer", runs[r].auto, e, r))
          /\ taken' = taken \cup {<<runs[r].auto, e>>}
          /\ UNCHANGED <<claims, pending, queue, cut>>
       \/ /\ claims' = IF waits THEN claims ELSE [claims EXCEPT ![t] = NoRun]
          /\ IF enabled[AutoOf[e]] THEN DispatchMatch(e)
             ELSE UNCHANGED <<taken, queue, cut, pending, ready>>
    /\ UNCHANGED <<enabled, runs, sweep, closing, excused, late, displaced, disturbed>>

\* A cron tick (try_fire): dropped when the automation is off or busy.
CronTick(e) ==
    LET a == AutoOf[e] IN
    /\ ~closing /\ ~Seen(e) /\ ThreadOf[e] = NoThread
    /\ enabled[a] /\ ~Busy(a)
    /\ runs' = Append(runs, NewRun(a, e, "caller"))
    /\ taken' = taken \cup {<<a, e>>}
    /\ UNCHANGED <<enabled, queue, claims, memory, excused, late, displaced, cut, disturbed>>

\* A run-now (fire): the switch does not matter, a busy automation is an error.
RunNow(e) ==
    LET a == AutoOf[e] IN
    /\ ~closing /\ ~Seen(e) /\ ThreadOf[e] = NoThread
    /\ ~Busy(a)
    /\ runs' = Append(runs, NewRun(a, e, "caller"))
    /\ taken' = taken \cup {<<a, e>>}
    /\ UNCHANGED <<enabled, queue, claims, memory, excused, late, displaced, cut, disturbed>>

---------------------------------------------------------------------------
(* The tasks that were spawned                                             *)

\* A bug: a drained event that finds the slot taken is dropped.
FireTaskForgetful(task) ==
    LET a == task.auto IN
    /\ task.kind \in Firing
    /\ ready' = Tail(ready)
    /\ IF Busy(a)
       THEN /\ queue' = IF task.kind = "fire" THEN [queue EXCEPT ![a] = Append(@, task.ev)] ELSE queue
            /\ pending' = IF task.kind = "fire" THEN pending \ {a} ELSE pending
            /\ UNCHANGED <<runs, excused>>
       ELSE /\ runs' = Append(runs, NewRun(a, task.ev, IF task.kind = "fire" THEN "matcher" ELSE "task"))
            /\ UNCHANGED <<queue, pending, excused>>
    /\ UNCHANGED <<enabled, claims, sweep, closing, taken, late, displaced, cut, disturbed>>

\* _fire, _drain_fire, _chain_fire, _relaunch_orphan: start the run; an event that
\* finds the slot taken goes to the end of the queue, a relaunch is called off.
FireTask(task) ==
    LET a == task.auto IN
    /\ task.kind \in Firing
    /\ ready' = Tail(ready)
    /\ IF ~Busy(a)
       THEN /\ runs' = Append(runs, NewRun(a, task.ev, IF task.kind = "fire" THEN "matcher" ELSE "task"))
            /\ UNCHANGED <<queue, pending, excused>>
       ELSE /\ queue' = IF task.kind = "relaunch" THEN queue ELSE [queue EXCEPT ![a] = Append(@, task.ev)]
            /\ pending' = IF task.kind = "fire" THEN pending \ {a} ELSE pending
            /\ excused' = IF task.kind = "relaunch" THEN excused \cup {Key(task)} ELSE excused
            /\ UNCHANGED runs
    /\ UNCHANGED <<enabled, claims, sweep, closing, taken, late, displaced, cut, disturbed>>

\* A bug: the dead process that fired the run stays its owner.
PrologueSameOwner(r, rest) ==
    /\ runs[r].status = "paused"
    /\ runs' = [runs EXCEPT ![r].status = "running", ![r].waits = NoThread,
                            ![r].spec = enabled[runs[r].auto], ![r].guarded = TRUE]
    /\ claims' = Released(r)
    /\ ready' = Append(rest, Task("resume", runs[r].auto, runs[r].ev, r))

\* _answer_prologue: the run must wait; this process owns it from here on.
Prologue(r, rest) ==
    /\ runs[r].status = "paused"
    /\ runs' = [runs EXCEPT ![r].status = "running", ![r].mine = TRUE, ![r].waits = NoThread,
                            ![r].spec = enabled[runs[r].auto], ![r].guarded = TRUE]
    /\ claims' = Released(r)
    /\ ready' = Append(rest, Task("resume", runs[r].auto, runs[r].ev, r))

\* _answer: the run goes on with the message; one that comes too late is lost and
\* gives the thread's claim back, whoever has it.
AnswerTask(task) ==
    LET t == ThreadOf[task.ev] IN
    /\ task.kind = "answer"
    /\ \/ /\ Prologue(task.run, Tail(ready))
          /\ excused' = excused \cup {Key(task)}
          /\ UNCHANGED <<late, displaced>>
       \/ /\ runs[task.run].status # "paused"
          /\ late' = late \cup {Key(task)}
          /\ claims' = [claims EXCEPT ![t] = NoRun]
          /\ displaced' = displaced \cup ({claims[t]} \ {NoRun, task.run})
          /\ ready' = Tail(ready)
          /\ UNCHANGED <<runs, excused>>
    /\ UNCHANGED <<enabled, queue, pending, sweep, closing, taken, cut, disturbed>>

\* _answer_continuation.
ResumeTask(task) ==
    /\ task.kind = "resume"
    /\ runs' = [runs EXCEPT ![task.run].pc = "exec"]
    /\ ready' = Tail(ready)
    /\ UNCHANGED <<enabled, queue, claims, pending, sweep, closing, history, disturbed>>

NextTask ==
    /\ ready # <<>>
    /\ LET task == Head(ready) IN FireTask(task) \/ AnswerTask(task) \/ ResumeTask(task)

\* answer_nowait from the web UI, the API or the chat.
AnswerNow(r) ==
    /\ ~closing /\ r \in DOMAIN runs
    /\ Prologue(r, ready)
    /\ UNCHANGED <<enabled, queue, pending, sweep, closing, history, disturbed>>

---------------------------------------------------------------------------
(* A run: what its workflow does, and how it ends                          *)

Running(r) == At(r, "exec")
OwnThread(r) == IF runs[r].auto = AutoOf[runs[r].ev] THEN ThreadOf[runs[r].ev] ELSE NoThread

\* The matcher's _fire ends with the run's first task, and with it the pending fire.
NotPending(r, by) == IF runs[r].by = by THEN pending \ {runs[r].auto} ELSE pending

\* A run that is over: what only its tasks looked at is forgotten.
Over(run) == [run EXCEPT !.pc = "none", !.cancel = FALSE, !.spec = TRUE, !.mine = TRUE, !.parks = 0,
                         !.guarded = FALSE,
                         !.by = IF @ = "notice" THEN @ ELSE "task"]

\* The engine writes the workflow's manifest before it walks anything.  It gets there
\* over several turns of the loop: the tasks spawned before have started by then.
WorkStarts(r) ==
    /\ Running(r) /\ ~runs[r].work /\ ready = <<>>
    /\ runs' = [runs EXCEPT ![r].work = TRUE]
    /\ UNCHANGED <<enabled, queue, claims, memory, history, disturbed>>

\* _park: the counterpart is asked on the run's own thread, whose claim is taken
\* at once; anyone else through the help route, which may answer with a thread.
Park(r, k) ==
    /\ Running(r) /\ runs[r].work /\ runs[r].parks < MaxParks[runs[r].auto]
    /\ k = "counterpart" => OwnThread(r) # NoThread
    /\ runs' = [runs EXCEPT ![r].status = "paused", ![r].pc = "none", ![r].cancel = FALSE,
                            ![r].says = @ \cup {k}, ![r].parks = @ + 1, ![r].guarded = FALSE,
                            ![r].by = IF @ = "matcher" THEN "notice" ELSE @,
                            ![r].waits = IF k = "counterpart" THEN OwnThread(r) ELSE NoThread]
    /\ IF k = "counterpart" THEN Register(OwnThread(r), r) ELSE UNCHANGED <<claims, displaced>>
    /\ UNCHANGED <<enabled, queue, memory, taken, excused, late, cut, disturbed>>

\* The question was sent: only now is the thread it went to claimed.
Said(r, k) ==
    /\ r \in DOMAIN runs /\ k \in runs[r].says
    /\ \E t \in Threads \cup {NoThread} :
         /\ IF k = "help" /\ t # NoThread THEN Register(t, r) ELSE UNCHANGED <<claims, displaced>>
         /\ k = "counterpart" => t = NoThread
    /\ runs' = [runs EXCEPT ![r].says = @ \ {k}, ![r].by = IF @ = "notice" THEN "task" ELSE @]
    /\ pending' = NotPending(r, "notice")
    /\ UNCHANGED <<enabled, queue, ready, sweep, closing, taken, excused, late, cut, disturbed>>

\* finalize_run with what classify made of the result; the outcome is delivered next.
Finish(r, s) ==
    /\ Running(r) /\ (runs[r].work \/ s = "failed")
    /\ runs' = [runs EXCEPT ![r].status = s, ![r].cancel = FALSE, ![r].pc = "deliver"]
    /\ UNCHANGED <<enabled, queue, claims, memory, history, disturbed>>

\* _drain_queue_if_single: drop what has expired, and fire the oldest event left.
Drain(a, wanted, chained) ==
    IF ~(wanted /\ a \in Single)
    THEN ready' = ready \o chained /\ UNCHANGED <<queue, excused>>
    ELSE \E k \in 0..Len(queue[a]) :
           /\ queue' = [queue EXCEPT ![a] = SubSeq(@, k + 2, Len(@))]
           /\ excused' = excused \cup {<<a, queue[a][i]>> : i \in 1..k}
           /\ ready' = (IF k < Len(queue[a])
                        THEN Append(ready, Task("drain", a, queue[a][k + 1], NoRun))
                        ELSE ready) \o chained

\* prune_runs, then the drain; a prune that fails is logged, and nobody drains.
Housekeeping(a, wanted, chained) ==
    \/ Drain(a, wanted, chained) /\ UNCHANGED <<cut, disturbed>>
    \/ /\ wanted /\ a \in Single /\ queue[a] # <<>> /\ Disturb("fault")
       /\ Drain(a, FALSE, chained)
       /\ cut' = cut \cup {a}

\* _dispatch_chains: the enabled automations the outcome fires.
Chained(r) ==
    IF runs[r].status \notin ChainWhen THEN <<>>
    ELSE SetToSeq({Task("chain", b, runs[r].ev, NoRun) : b \in {c \in Chain[runs[r].auto] : enabled[c]}})

\* A bug: the end of a run is not an occasion to look at the queue.
WrapWithoutDrain(r, disabledNow) ==
    LET a == runs[r].auto IN
    /\ runs' = [runs EXCEPT ![r] = Over(@)]
    /\ pending' = NotPending(r, "matcher")
    /\ Drain(a, FALSE, Chained(r))
    /\ taken' = taken \cup {<<b, runs[r].ev>> : b \in {c \in Chain[a] : Chained(r) # <<>> /\ enabled[c]}}
    /\ sweep' = IF sweep.at # r THEN sweep
                ELSE [sweep EXCEPT !.at = NoRun, !.again = FALSE,
                                   !.relaunch = IF sweep.again THEN Append(@, r) ELSE @]
    /\ UNCHANGED <<claims, closing, late, displaced, cut, disturbed>>

\* The end of _post_finish: drain, by the spec the run was fired with, then chain;
\* and whoever awaited the run goes on, the sweep to its next orphan.
Wrap(r, disabledNow) ==
    LET a == runs[r].auto IN
    /\ runs' = [runs EXCEPT ![r] = Over(@)]
    /\ pending' = NotPending(r, "matcher")
    /\ Housekeeping(a, ~disabledNow /\ runs[r].spec, Chained(r))
    /\ taken' = taken \cup {<<b, runs[r].ev>> : b \in {c \in Chain[a] : Chained(r) # <<>> /\ enabled[c]}}
    /\ sweep' = IF sweep.at # r THEN sweep
                ELSE [sweep EXCEPT !.at = NoRun, !.again = FALSE,
                                   !.relaunch = IF sweep.again THEN Append(@, r) ELSE @]
    /\ UNCHANGED <<claims, closing, late, displaced>>

\* consecutive_unachieved.
Streak(a) ==
    LET last == {r \in DOMAIN runs : runs[r].auto = a /\ runs[r].status = "achieved"}
    IN Cardinality({r \in DOMAIN runs :
                       /\ runs[r].auto = a /\ runs[r].status \in {"failed", "completed"}
                       /\ \A s \in last : s < r})

Stuck(r) ==
    /\ runs[r].status \in {"failed", "completed"} /\ OnStuck # "keep"
    /\ MaxAttempts > 0 /\ Streak(runs[r].auto) >= MaxAttempts

\* The outcome is delivered: a goal reached switches the automation off, too many
\* attempts without it are first reported.
Delivered(r) ==
    /\ At(r, "deliver")
    /\ \/ /\ Stuck(r)
          /\ runs' = [runs EXCEPT ![r].pc = "help"]
          /\ UNCHANGED <<enabled, queue, claims, memory, history, disturbed>>
       \/ /\ ~Stuck(r)
          /\ enabled' = IF runs[r].status = "achieved" THEN [enabled EXCEPT ![runs[r].auto] = FALSE] ELSE enabled
          /\ Wrap(r, runs[r].status = "achieved")

Escalated(r) ==
    /\ At(r, "help")
    /\ enabled' = IF OnStuck = "escalate_pause" THEN [enabled EXCEPT ![runs[r].auto] = FALSE] ELSE enabled
    /\ Wrap(r, OnStuck = "escalate_pause")

\* A run that was cancelled: settled in silence, and the queue gets its turn.
Cancelled(r) ==
    /\ Running(r) /\ runs[r].cancel /\ ~closing
    /\ runs' = [runs EXCEPT ![r] = [Over(@) EXCEPT !.status = "interrupted"]]
    /\ pending' = NotPending(r, "matcher")
    /\ Housekeeping(runs[r].auto, runs[r].spec, <<>>)
    /\ UNCHANGED <<enabled, claims, sweep, closing, taken, late, displaced>>

\* Cut short by the shutdown: the manifest stays "running" for the next sweep.
LeftRunning(r) ==
    /\ Running(r) /\ closing
    /\ runs' = [runs EXCEPT ![r].pc = "none"]
    /\ pending' = NotPending(r, "matcher")
    /\ UNCHANGED <<enabled, queue, claims, ready, sweep, closing, history, disturbed>>

\* Settling or delivering a run that did its work raises (a write, a classification):
\* the guard around an answered run's continuation finalizes it as failed, settled or
\* not; any other run keeps its manifest.  Nobody drains or chains after it.
Breaks(r) ==
    LET end == IF runs[r].guarded THEN "failed" ELSE runs[r].status IN
    /\ r \in DOMAIN runs /\ runs[r].pc # "none" /\ runs[r].work /\ sweep.at # r
    /\ Disturb("fault")
    /\ runs' = [runs EXCEPT ![r] = [Over(@) EXCEPT !.status = end]]
    /\ pending' = NotPending(r, "matcher")
    /\ cut' = cut \cup {runs[r].auto}
    /\ UNCHANGED <<enabled, queue, claims, ready, sweep, closing, taken, excused, late, displaced>>

---------------------------------------------------------------------------
(* What a person does: stop, and the switch                                *)

\* A bug: a stop settles the run itself instead of asking the engine to end it.
StopRunningAtOnce(r) ==
    /\ r \in DOMAIN runs /\ runs[r].status = "running" /\ Disturb("stop")
    /\ runs' = [runs EXCEPT ![r].status = "interrupted", ![r].stop = TRUE]
    /\ UNCHANGED <<enabled, queue, claims, memory, history>>

\* _stop of a running run: the engine is asked, and the manifest remembers.
StopRunning(r) ==
    /\ r \in DOMAIN runs /\ runs[r].status = "running" /\ Disturb("stop")
    /\ runs' = [runs EXCEPT ![r].stop = TRUE, ![r].cancel = TRUE]
    /\ UNCHANGED <<enabled, queue, claims, memory, history>>

\* _stop of a paused run: there is nothing to cancel.
StopPaused(r) ==
    /\ r \in DOMAIN runs /\ runs[r].status = "paused" /\ Disturb("stop")
    /\ runs' = [runs EXCEPT ![r].status = "interrupted", ![r].stop = TRUE, ![r].waits = NoThread]
    /\ claims' = Released(r)
    /\ Drain(runs[r].auto, enabled[runs[r].auto], <<>>)
    /\ UNCHANGED <<enabled, pending, sweep, closing, taken, late, displaced, cut>>

Toggle(a) ==
    /\ Disturb("toggle")
    /\ enabled' = [enabled EXCEPT ![a] = ~@]
    /\ UNCHANGED <<runs, queue, claims, memory, history>>

---------------------------------------------------------------------------
(* The end of the process, and the sweep that picks up what it left        *)

Shutdown ==
    /\ ~closing /\ Disturb("shutdown")
    /\ closing' = TRUE
    /\ UNCHANGED <<enabled, runs, queue, claims, pending, ready, sweep, history>>

Idle(run) == [run EXCEPT !.mine = FALSE, !.cancel = FALSE, !.pc = "none", !.says = {}, !.by = "task",
                       !.guarded = FALSE]

\* The process ends, in the middle of things or after its shutdown, and starts again.
Restart ==
    /\ IF closing THEN UNCHANGED disturbed ELSE Disturb("crash")
    /\ runs' = [r \in DOMAIN runs |-> Idle(runs[r])]
    /\ pending' = {} /\ ready' = <<>> /\ sweep' = NoSweep /\ closing' = FALSE
    /\ LET fires  == {task \in ToSet(ready) : task.kind \in Firing}
           answers == {task \in ToSet(ready) : task.kind = "answer"}
           again  == ToSet(sweep.relaunch) \cup (IF sweep.again THEN {sweep.at} ELSE {})
           ending == {r \in DOMAIN runs : runs[r].pc \in {"deliver", "help"}}
       IN /\ excused' = excused \cup {Key(task) : task \in fires \cup answers}
                                \cup {<<runs[r].auto, runs[r].ev>> : r \in again}
          /\ cut' = cut \cup {task.auto : task \in fires} \cup {runs[r].auto : r \in ending}
    /\ UNCHANGED <<enabled, queue, claims, taken, late, displaced>>

\* find_orphans reads every manifest once; a stop that comes later is not seen.
SweepStarts ==
    /\ ~closing /\ sweep = NoSweep
    /\ LET orphans == {r \in DOMAIN runs : runs[r].status = "running" /\ ~runs[r].mine} IN
       /\ orphans # {}
       /\ sweep' = [sweep EXCEPT !.todo = {<<r, runs[r].stop>> : r \in orphans}]
    /\ UNCHANGED <<enabled, runs, queue, claims, pending, ready, closing, history, disturbed>>

\* A bug: work that has no finished node yet is taken for work not started.
SweepOneBlind(orphan) ==
    LET r     == orphan[1]
        again == ~orphan[2] /\ enabled[runs[r].auto]
    IN
    /\ orphan \in sweep.todo /\ sweep.at = NoRun
    /\ sweep' = [sweep EXCEPT !.todo = @ \ {orphan}, !.at = r, !.again = again]
    /\ runs' = [runs EXCEPT ![r].status = "interrupted", ![r].pc = "deliver", ![r].spec = enabled[runs[r].auto]]
    /\ excused' = IF again THEN excused ELSE excused \cup {<<runs[r].auto, runs[r].ev>>}
    /\ UNCHANGED <<enabled, queue, claims, pending, ready, closing, taken, late, displaced, cut, disturbed>>

\* An orphan is settled and told; it is launched again if no work had started, no
\* stop was asked for and the automation is on.
SweepOne(orphan) ==
    LET r     == orphan[1]
        again == ~runs[r].work /\ ~orphan[2] /\ enabled[runs[r].auto]
    IN
    /\ orphan \in sweep.todo /\ sweep.at = NoRun
    /\ sweep' = [sweep EXCEPT !.todo = @ \ {orphan}, !.at = r, !.again = again]
    /\ runs' = [runs EXCEPT ![r].status = "interrupted", ![r].pc = "deliver", ![r].spec = enabled[runs[r].auto]]
    /\ excused' = IF again THEN excused ELSE excused \cup {<<runs[r].auto, runs[r].ev>>}
    /\ UNCHANGED <<enabled, queue, claims, pending, ready, closing, taken, late, displaced, cut, disturbed>>

\* The replacements start when every orphan of the pass is settled.
SweepEnds ==
    /\ sweep # NoSweep /\ sweep.todo = {} /\ sweep.at = NoRun
    /\ ready' = ready \o [i \in DOMAIN sweep.relaunch |->
                            Task("relaunch", runs[sweep.relaunch[i]].auto, runs[sweep.relaunch[i]].ev, NoRun)]
    /\ sweep' = NoSweep
    /\ UNCHANGED <<enabled, runs, queue, claims, pending, closing, history, disturbed>>

---------------------------------------------------------------------------
Arrival == \E e \in Events : Inbound(e) \/ CronTick(e) \/ RunNow(e)

Step(r) ==
    \/ WorkStarts(r)
    \/ \E k \in {"counterpart", "help"} : Park(r, k) \/ Said(r, k)
    \/ \E s \in {"achieved", "completed", "failed", "rejected"} : Finish(r, s)
    \/ Delivered(r) \/ Escalated(r)
    \/ Cancelled(r) \/ LeftRunning(r) \/ Breaks(r)

Person(r) == AnswerNow(r) \/ StopRunning(r) \/ StopPaused(r)

Sweep == SweepStarts \/ SweepEnds \/ \E orphan \in sweep.todo : SweepOne(orphan)

Next ==
    \/ Arrival \/ NextTask \/ Sweep
    \/ \E r \in DOMAIN runs : Step(r) \/ Person(r)
    \/ \E a \in Autos : Toggle(a)
    \/ Shutdown \/ Restart

Spec == Init /\ [][Next]_vars

---------------------------------------------------------------------------
(* Properties                                                              *)

Statuses == {"running", "paused", "achieved", "completed", "failed", "rejected", "interrupted"}

\* Every variable has its type, and only a paused run waits on a thread.
TypeOK ==
    /\ enabled \in [Autos -> BOOLEAN] /\ pending \subseteq Autos /\ closing \in BOOLEAN
    /\ \A r \in DOMAIN runs :
         /\ runs[r].auto \in Autos /\ runs[r].ev \in Events /\ runs[r].status \in Statuses
         /\ runs[r].pc \in {"none", "exec", "deliver", "help"}
         /\ runs[r].by \in {"matcher", "notice", "task", "caller"}
         /\ runs[r].waits \in Threads \cup {NoThread}
         /\ runs[r].waits # NoThread => runs[r].status = "paused"
    /\ \A a \in Autos : ToSet(queue[a]) \subseteq Events
    /\ claims \in [Threads -> {NoRun} \cup DOMAIN runs]
    /\ \A i \in DOMAIN ready : ready[i].kind \in Firing \cup {"answer", "resume"}
    /\ sweep.at \in {NoRun} \cup DOMAIN runs
    /\ taken \cup excused \cup late \subseteq Autos \X Events

\* A single automation has at most one run that is running or waits for a person
\* (runtime.py:160, matcher.py:280).
OneActive == \A a \in Single : Cardinality(Active(a)) <= 1

\* However often the process dies, the workflow of an event starts at most once for
\* an automation: neither the queue nor the sweep hands out work that was started.
WorkOnce ==
    \A r, s \in DOMAIN runs :
        runs[r].work /\ runs[s].work /\ runs[r].auto = runs[s].auto /\ runs[r].ev = runs[s].ev => r = s

\* An event that was taken on is queued, about to be fired or to reach the run it
\* answers, has a run that did something or still may, or was given up and somebody
\* told (a crash that caught it in memory loses it; excused holds these too).  Only an
\* answer whose run no longer waits when its turn comes (late) is lost with no word.
EventKept ==
    \A p \in taken \ (excused \cup late) :
        \/ p[2] \in ToSet(queue[p[1]])
        \/ \E i \in DOMAIN ready : ready[i].kind \in Firing \cup {"answer"} /\ Key(ready[i]) = p
        \/ \E r \in DOMAIN runs :
             /\ <<runs[r].auto, runs[r].ev>> = p
             /\ \/ runs[r].work \/ runs[r].stop \/ runs[r].status # "interrupted"
                \/ r \in ToSet(sweep.relaunch) \/ (sweep.at = r /\ sweep.again)

\* An event queued for an automation that is on has someone who will drain it --
\* unless a crash or a fault came between two runs of the automation, the message was
\* queued behind a fire whose run was already over (cut), or the owner moved the switch.
NobodyStranded ==
    \A a \in Single :
        queue[a] # <<>> /\ enabled[a] /\ a \notin cut
          => Watched(a) \/ ("toggle" \in Kinds /\ disturbed["toggle"] > 0)

\* A run that waits for its counterpart is the one a reply on the thread wakes, unless
\* another run claimed the thread or a wake meant for another came too late: answers,
\* stops and claims found stale give back no claim of a run that still waits.
ClaimKept ==
    \A r \in DOMAIN runs :
        runs[r].waits # NoThread => claims[runs[r].waits] = r \/ r \in displaced

\* A run that a task of this process drives, or is about to, is running in its
\* manifest and driven by that task alone: no sweep, stop or second answer settles
\* or resumes it meanwhile.
OneDriver ==
    \A r \in DOMAIN runs :
        LET resumes == {i \in DOMAIN ready : ready[i].kind = "resume" /\ ready[i].run = r} IN
        /\ runs[r].pc = "exec" \/ resumes # {} => runs[r].status = "running"
        /\ Cardinality(resumes) + (IF runs[r].pc = "none" THEN 0 ELSE 1) <= 1

\* The manifests, the tasks and the sweep agree on who drives a run.
RunsConsistent == TypeOK /\ OneDriver

\* A settled run stays settled the way it was, but for one that an answer resumed and
\* whose delivery raises: its guard finalizes it once more, as failed.  No stop, sweep,
\* late answer or second end writes over an outcome.
SettledStays ==
    [][\A r \in DOMAIN runs :
         runs[r].status \notin {"running", "paused"} =>
            \/ runs'[r].status = runs[r].status
            \/ runs[r].guarded /\ runs'[r].status = "failed" /\ runs'[r].pc = "none"]_vars
=============================================================================
