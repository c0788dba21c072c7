----------------------------- MODULE AgentLoop -----------------------------
(***************************************************************************)
(* The inbound path of durin/agent/loop.py: one consumer (`run`) takes     *)
(* messages off the bus, routes a follow-up into the queues of the turn    *)
(* that is answering its session or starts a turn for it, obeys /stop, and *)
(* the gateway's shutdown drains what is still owed into the journal that  *)
(* the next start replays.                                                 *)
(*                                                                         *)
(* All of it runs on one event loop, so an action is the code between two  *)
(* awaits that suspend.  What a turn does in between (the model, the       *)
(* tools) is left out: it pulls messages from its queues, and it ends.     *)
(***************************************************************************)
EXTENDS Naturals, Sequences, FiniteSets, SequencesExt

CONSTANTS
    Keys,            \* effective session keys
    Turns,           \* asyncio tasks running _dispatch
    None,            \* no task
    Kinds,           \* kinds of message the channels publish, of those below
    MaxMessages,     \* bound on messages published in one behaviour
    MaxRestarts,     \* bound on restarts of the gateway
    QueueCap,        \* size of each pending queue (20 in the code)
    Batch,           \* _MAX_INJECTIONS_PER_TURN (3 in the code)
    MaxCycles,       \* _MAX_INJECTION_CYCLES (5 in the code)
    PublishPhases,   \* phases of the gateway in which channels publish
    MatchersAwait,   \* publish_inbound may suspend: others run between two leftovers
    ConsumerYields   \* a started turn runs before the next message is taken

\* "inject": a steer or a system result; "plain": deferred to the end of the
\* running turn; "stop": the /stop command; "command": another, /new or /help say.
\* (/retry is left out: sent during a turn it is swallowed, with a line in the log.)
AllKinds == {"plain", "inject", "stop", "command"}
Phases   == {"starting", "serving", "closing", "draining", "drained", "down"}

ASSUME KindsAssumption  == Kinds \subseteq AllKinds
ASSUME NoneAssumption   == None \notin Turns
ASSUME PhasesAssumption == PublishPhases \subseteq Phases \ {"down"}
ASSUME SizesAssumption  ==
    /\ QueueCap \in Nat \ {0} /\ Batch \in Nat \ {0}
    /\ MaxCycles \in Nat /\ MaxMessages \in Nat /\ MaxRestarts \in Nat

VARIABLES
    bus,          \* MessageBus.inbound, by session: in order within one, in any between two
    registered,   \* _pending_queues: whose PendingQueues a session's follow-ups join
    turn,         \* each task: its stage, its queues, what it has taken
    active,       \* _active_tasks, oldest first
    lock,         \* _session_locks: holder first, then those waiting, FIFO
    awaited,      \* cancelled tasks that /stop or the drain is waiting for
    gateway,      \* phase of the process
    owed,         \* what the drain has collected so far, by session
    journal,      \* the inbound journal on disk, by session
    fate,         \* history: what became of each message, by publication order
    restarts      \* bound

vars == <<bus, registered, turn, active, lock, awaited, gateway, owed, journal,
          fate, restarts>>

Ids      == 1..MaxMessages
Message  == [id : Ids, key : Keys, kind : Kinds]
Sent     == {i \in Ids : fate[i] # "unsent"}

\* A task that does not run, with empty queues.
Idle == [pc |-> "free", opener |-> None, inject |-> <<>>, deferred |-> <<>>,
         pulled |-> <<>>, cycles |-> 0, doomed |-> FALSE, hand |-> <<>>]

Nothing      == [k \in Keys |-> <<>>]
Key(t)       == turn[t].opener.key
Queued(t)    == turn[t].inject \o turn[t].deferred
Unfinished   == {t \in Turns : turn[t].pc # "free"}
IsRegistered(t) == \E k \in Keys : registered[k] = t

Taken(t)     == {turn[t].opener} \cup ToSet(turn[t].pulled)
Over         == {t \in Turns : turn[t].pc \in {"ending", "handback"}}

Settled(msgs, value, f) ==
    [i \in Ids |-> IF \E m \in msgs : m.id = i THEN value ELSE f[i]]

Init ==
    /\ bus = Nothing /\ owed = Nothing /\ journal = Nothing
    /\ registered = [k \in Keys |-> None]
    /\ turn = [t \in Turns |-> Idle]
    /\ active = Nothing /\ lock = Nothing
    /\ awaited = {}
    /\ gateway = "starting"
    /\ fate = [i \in Ids |-> "unsent"]
    /\ restarts = 0

---------------------------------------------------------------------------
(* The channels and the consumer                                           *)

Publish(k, kind) ==
    /\ gateway \in PublishPhases
    /\ Cardinality(Sent) < MaxMessages
    /\ LET i == Cardinality(Sent) + 1 IN
       /\ bus' = [bus EXCEPT ![k] = Append(@, [id |-> i, key |-> k, kind |-> kind])]
       /\ fate' = [fate EXCEPT ![i] = "owed"]
    /\ UNCHANGED <<registered, turn, active, lock, awaited, gateway, owed, journal, restarts>>

\* While publish_inbound does not suspend, neither the consumer nor the drain gets in
\* between the leftovers a turn hands back.
Uninterrupted == MatchersAwait \/ \A t \in Turns : turn[t].pc # "handback"

\* run() has the next message in hand: nothing else runs until it suspends.
Consuming(k) ==
    /\ gateway = "serving"
    /\ awaited = {}
    /\ bus[k] # <<>>
    /\ ConsumerYields => \A t \in Turns : turn[t].pc # "created"
    /\ Uninterrupted

\* A command is obeyed in the consumer: /stop always, the others where a follow-up
\* would be queued.  Anywhere else they open a turn.
Obeyed(k, m) == m.kind = "stop" \/ (m.kind = "command" /\ registered[k] # None)

\* /stop and /new: cancel the session's tasks and wait for them; the consumer is blocked.
ConsumeStop(k) ==
    /\ Consuming(k)
    /\ Obeyed(k, Head(bus[k]))
    /\ LET tasks == ToSet(active[k])
       IN  /\ turn' = [t \in Turns |->
                         IF t \in tasks THEN [turn[t] EXCEPT !.doomed = TRUE] ELSE turn[t]]
           /\ active' = [active EXCEPT ![k] = <<>>]
           /\ awaited' = tasks
           /\ fate' = Settled({Head(bus[k])}, "answered",
                        Settled(UNION {Taken(t) : t \in tasks \ Over}, "stopped", fate))
    /\ bus' = [bus EXCEPT ![k] = Tail(@)]
    /\ UNCHANGED <<registered, lock, gateway, owed, journal, restarts>>

\* The other commands: nothing but an answer.
ConsumeCommand(k) ==
    /\ Consuming(k)
    /\ Obeyed(k, Head(bus[k])) /\ Head(bus[k]).kind = "command"
    /\ bus' = [bus EXCEPT ![k] = Tail(@)]
    /\ fate' = Settled({Head(bus[k])}, "answered", fate)
    /\ UNCHANGED <<registered, turn, active, lock, awaited, gateway, owed, journal, restarts>>

Target(m) == IF m.kind = "inject" THEN "inject" ELSE "deferred"

HasRoom(k, m) ==
    /\ registered[k] # None
    /\ Len(turn[registered[k]][Target(m)]) < QueueCap

\* A follow-up joins the queues registered for its session.
ConsumeFollowUp(k) ==
    /\ Consuming(k)
    /\ LET m == Head(bus[k]) IN
       /\ ~Obeyed(k, m)
       /\ HasRoom(k, m)
       /\ turn' = [turn EXCEPT ![registered[k]][Target(m)] = Append(@, m)]
    /\ bus' = [bus EXCEPT ![k] = Tail(@)]
    /\ UNCHANGED <<registered, active, lock, awaited, gateway, owed, journal, fate, restarts>>

\* A bug: the queues are left for _dispatch to register.
StartTurnUnregistered(t, m) ==
    /\ turn[t].pc = "free" /\ ~IsRegistered(t)
    /\ turn' = [turn EXCEPT ![t] = [Idle EXCEPT !.pc = "created", !.opener = m]]
    /\ active' = [active EXCEPT ![m.key] = Append(@, t)]
    /\ UNCHANGED registered

\* _start_turn_task, for the task t: queues, task and in-flight message are
\* registered before the task first runs.
StartTurn(t, m) ==
    /\ turn[t].pc = "free" /\ ~IsRegistered(t)
    /\ turn' = [turn EXCEPT ![t] = [Idle EXCEPT !.pc = "created", !.opener = m]]
    /\ registered' = [registered EXCEPT ![m.key] = t]
    /\ active' = [active EXCEPT ![m.key] = Append(@, t)]

\* No queues to join, or the queue is full: the message starts a turn.
ConsumeOpener(k) ==
    /\ Consuming(k)
    /\ LET m == Head(bus[k]) IN
       /\ ~Obeyed(k, m)
       /\ ~HasRoom(k, m)
       /\ \E t \in Turns : StartTurn(t, m)
    /\ bus' = [bus EXCEPT ![k] = Tail(@)]
    /\ UNCHANGED <<lock, awaited, gateway, owed, journal, fate, restarts>>

\* The tasks /stop cancelled are done: the consumer goes on.
StopDone ==
    /\ gateway = "serving"
    /\ awaited # {} /\ awaited \cap Unfinished = {}
    /\ awaited' = {}
    /\ UNCHANGED <<bus, registered, turn, active, lock, gateway, owed, journal, fate, restarts>>

---------------------------------------------------------------------------
(* A turn (_dispatch)                                                      *)

Undisturbed(t, pc) == turn[t].pc = pc /\ ~turn[t].doomed

\* The task's first step: it queues up for the session lock.
Begin(t) ==
    /\ Undisturbed(t, "created")
    /\ turn' = [turn EXCEPT ![t].pc = "waiting"]
    /\ lock' = [lock EXCEPT ![Key(t)] = Append(@, t)]
    /\ UNCHANGED <<bus, registered, active, awaited, gateway, owed, journal, fate, restarts>>

\* A bug: a lock that lets in whoever waits for it.
HoldsAny(t) == t \in ToSet(lock[Key(t)])

\* asyncio.Lock is fair: who has waited longest holds it next.
Holds(t) == lock[Key(t)] # <<>> /\ Head(lock[Key(t)]) = t

\* It has the lock, its slots and the turn lease.
Run(t) ==
    /\ Undisturbed(t, "waiting") /\ Holds(t)
    /\ turn' = [turn EXCEPT ![t].pc = "running"]
    /\ UNCHANGED <<bus, registered, active, lock, awaited, gateway, owed, journal, fate, restarts>>

Take(q, n) == SubSeq(q, 1, IF n < Len(q) THEN n ELSE Len(q))
Rest(q, n) == SubSeq(q, n + 1, Len(q))

\* _drain_pending after a tool batch: steers and system results only.
PullSteers(t) ==
    /\ Undisturbed(t, "running")
    /\ turn[t].cycles < MaxCycles /\ turn[t].inject # <<>>
    /\ turn' = [turn EXCEPT ![t] = [@ EXCEPT
         !.pulled = turn[t].pulled \o Take(turn[t].inject, Batch),
         !.inject = Rest(turn[t].inject, Batch),
         !.cycles = turn[t].cycles + 1]]
    /\ UNCHANGED <<bus, registered, active, lock, awaited, gateway, owed, journal, fate, restarts>>

\* A bug: the messages stay in the queues they were read from.
PullAllCopying(t) ==
    /\ Undisturbed(t, "running")
    /\ turn[t].cycles < MaxCycles /\ Queued(t) # <<>>
    /\ turn' = [turn EXCEPT ![t].pulled = @ \o Take(Queued(t), Batch), ![t].cycles = @ + 1]
    /\ UNCHANGED <<bus, registered, active, lock, awaited, gateway, owed, journal, fate, restarts>>

\* _drain_pending at the final response: the deferred messages as well.
PullAll(t) ==
    /\ Undisturbed(t, "running")
    /\ turn[t].cycles < MaxCycles /\ Queued(t) # <<>>
    /\ LET n == Len(Take(turn[t].inject, Batch)) IN
       turn' = [turn EXCEPT ![t] = [@ EXCEPT
         !.pulled = turn[t].pulled \o Take(Queued(t), Batch),
         !.inject = Rest(turn[t].inject, Batch),
         !.deferred = Rest(turn[t].deferred, Batch - n),
         !.cycles = turn[t].cycles + 1]]
    /\ UNCHANGED <<bus, registered, active, lock, awaited, gateway, owed, journal, fate, restarts>>

\* The reply (or the error notice) is out; the lease is being released.
Finish(t) ==
    /\ Undisturbed(t, "running")
    /\ turn' = [turn EXCEPT ![t].pc = "ending"]
    /\ fate' = Settled(Taken(t), "answered", fate)
    /\ UNCHANGED <<bus, registered, active, lock, awaited, gateway, owed, journal, restarts>>

\* CancelledError inside the turn body: no reply; the lease is being released.
UnwindBody(t) ==
    /\ turn[t].pc = "running" /\ turn[t].doomed
    /\ turn' = [turn EXCEPT ![t].pc = "ending"]
    /\ UNCHANGED <<bus, registered, active, lock, awaited, gateway, owed, journal, fate, restarts>>

\* Bugs: the lock or the task's entry outlives the turn; the deferred messages
\* are not handed back.
KeptLocked(t)      == lock
KeptListed(t)      == active
InjectLeftover(t)  ==
    IF registered[Key(t)] = None THEN <<>> ELSE turn[registered[Key(t)]].inject

Released(t)     == [lock EXCEPT ![Key(t)] = RemoveFirst(@, t)]
Unregistered(t) == [registered EXCEPT ![Key(t)] = None]
Delisted(t)     == [active EXCEPT ![Key(t)] = RemoveFirst(@, t)]

\* The queues registered for t's session, whoever owns them.
Leftover(t) == IF registered[Key(t)] = None THEN <<>> ELSE Queued(registered[Key(t)])
Emptied(k) ==
    [t \in Turns |->
        IF registered[k] = t THEN [turn[t] EXCEPT !.inject = <<>>, !.deferred = <<>>]
        ELSE turn[t]]

\* `finally`: the lock is free, the session's queues are unregistered and what
\* they hold is to go back to the bus.
GiveBack(t) ==
    /\ lock' = Released(t)
    /\ registered' = Unregistered(t)
    /\ IF Leftover(t) # <<>>
       THEN /\ turn' = [Emptied(Key(t)) EXCEPT ![t] =
                          [@ EXCEPT !.pc = "handback", !.hand = Leftover(t), !.doomed = FALSE]]
            /\ UNCHANGED active
       ELSE /\ turn' = [Emptied(Key(t)) EXCEPT ![t] = Idle]
            /\ active' = Delisted(t)
    /\ UNCHANGED <<bus, awaited, gateway, owed, journal, restarts>>

\* The lease is released; or the turn was cancelled before its body.
Leave(t) ==
    /\ turn[t].pc = "ending" \/ (turn[t].pc = "waiting" /\ turn[t].doomed)
    /\ GiveBack(t)
    /\ UNCHANGED fate

\* The lease timed out: the sender gets the busy notice and the turn is over.
Refuse(t) ==
    /\ Undisturbed(t, "waiting") /\ Holds(t)
    /\ GiveBack(t)
    /\ fate' = Settled({turn[t].opener}, "answered", fate)

\* publish_inbound of one leftover: it is on the bus again, or this time an automation
\* takes it or the authorizer turns it away.  With the last one the task is done.
HandBack(t) ==
    /\ Undisturbed(t, "handback")
    /\ LET m == Head(turn[t].hand) IN
       \/ bus' = [bus EXCEPT ![Key(t)] = Append(@, m)] /\ UNCHANGED fate
       \/ fate' = Settled({m}, "claimed", fate) /\ UNCHANGED bus
    /\ IF Len(turn[t].hand) = 1
       THEN /\ turn' = [turn EXCEPT ![t] = Idle]
            /\ active' = Delisted(t)
       ELSE /\ turn' = [turn EXCEPT ![t].hand = Tail(@)]
            /\ UNCHANGED active
    /\ UNCHANGED <<registered, lock, awaited, gateway, owed, journal, restarts>>

\* A second cancellation, inside the `finally`: what is left in hand is dropped.
UnwindHandBack(t) ==
    /\ turn[t].pc = "handback" /\ turn[t].doomed
    /\ turn' = [turn EXCEPT ![t] = Idle]
    /\ fate' = Settled(ToSet(turn[t].hand), "dropped", fate)
    /\ UNCHANGED <<bus, registered, active, lock, awaited, gateway, owed, journal, restarts>>

\* A task cancelled before its first step never enters _dispatch: no `finally`
\* runs, and its queues stay registered.
DropUnstarted(t) ==
    /\ turn[t].pc = "created" /\ turn[t].doomed
    /\ turn' = [turn EXCEPT ![t] = [Idle EXCEPT !.inject = turn[t].inject,
                                                !.deferred = turn[t].deferred]]
    /\ UNCHANGED <<bus, registered, active, lock, awaited, gateway, owed, journal, fate, restarts>>

---------------------------------------------------------------------------
(* Shutdown and restart                                                    *)

\* stop_intake(): run() takes no more messages.
StopIntake ==
    /\ gateway = "serving" /\ restarts < MaxRestarts
    /\ gateway' = "closing"
    /\ UNCHANGED <<bus, registered, turn, active, lock, awaited, owed, journal, fate, restarts>>

\* A bug: the openers are journaled and the queues behind them are not.
OpenersOnly(k) == [i \in 1..Len(active[k]) |-> turn[active[k][i]].opener]

\* The drain's first pass over one session: the message of every task still
\* running, then the queues registered for that session.
Openers(k) == [i \in 1..Len(active[k]) |-> turn[active[k][i]].opener]
TakenFrom(k) ==
    IF active[k] = <<>> THEN <<>>
    ELSE Openers(k) \o (IF registered[k] = None THEN <<>> ELSE Queued(registered[k]))

\* stop() and the first, atomic part of drain_inbound_for_shutdown().  What a turn
\* had pulled from its queues is in that turn's memory only: it goes with it.  A turn
\* that has replied and not ended is taken like the others: its message comes again.
BeginDrain ==
    /\ gateway = "closing" /\ Uninterrupted
    /\ gateway' = "draining"
    /\ owed' = [k \in Keys |-> TakenFrom(k)]
    /\ turn' = [t \in Turns |->
         IF \E k \in Keys : t \in ToSet(active[k])
         THEN [turn[t] EXCEPT !.doomed = TRUE, !.inject = <<>>, !.deferred = <<>>]
         ELSE IF \E k \in Keys : active[k] # <<>> /\ registered[k] = t
         THEN [turn[t] EXCEPT !.inject = <<>>, !.deferred = <<>>]
         ELSE turn[t]]
    /\ registered' = [k \in Keys |-> IF active[k] # <<>> THEN None ELSE registered[k]]
    /\ awaited' = UNION {ToSet(active[k]) : k \in Keys}
    /\ active' = Nothing
    /\ fate' = Settled({turn[t].opener : t \in awaited' \cap Over}, "again",
                 Settled(UNION {ToSet(turn[t].pulled) : t \in awaited' \ Over}, "cut", fate))
    /\ UNCHANGED <<bus, lock, journal, restarts>>

\* The cancelled turns are done, or _DRAIN_CANCEL_WAIT_S has passed: the bus, then
\* the queues no running turn owns, and the journal is written.
EndDrain ==
    /\ gateway = "draining"
    /\ gateway' = "drained"
    /\ journal' = [k \in Keys |-> journal[k] \o owed[k] \o bus[k] \o
                     (IF registered[k] = None THEN <<>> ELSE Queued(registered[k]))]
    /\ owed' = Nothing /\ bus' = Nothing
    /\ turn' = [t \in Turns |->
         IF IsRegistered(t) THEN [turn[t] EXCEPT !.inject = <<>>, !.deferred = <<>>] ELSE turn[t]]
    /\ registered' = [k \in Keys |-> None]
    /\ UNCHANGED <<active, lock, awaited, fate, restarts>>

\* The channels are stopped and the process ends with all its memory; the next
\* one starts.  What came in after the drain is missed; a turn the drain gave up on
\* drops what it was handing back.
Restart ==
    /\ gateway = "drained"
    /\ gateway' = "starting" /\ restarts' = restarts + 1
    /\ bus' = Nothing /\ awaited' = {}
    /\ turn' = [t \in Turns |-> Idle]
    /\ active' = Nothing /\ lock' = Nothing
    /\ fate' = Settled(UNION {ToSet(bus[k]) : k \in Keys}, "missed",
                 Settled(UNION {ToSet(turn[t].hand) : t \in Turns}, "dropped", fate))
    /\ UNCHANGED <<registered, owed, journal>>

\* run() gets to its loop: the journal goes back on the bus.
Replay ==
    /\ gateway = "starting"
    /\ gateway' = "serving"
    /\ bus' = [k \in Keys |-> bus[k] \o journal[k]]
    /\ journal' = Nothing
    /\ UNCHANGED <<registered, turn, active, lock, awaited, owed, fate, restarts>>

---------------------------------------------------------------------------
Consume(k) == ConsumeStop(k) \/ ConsumeCommand(k) \/ ConsumeFollowUp(k) \/ ConsumeOpener(k)

TurnStep(t) ==
    \/ Begin(t) \/ Run(t) \/ Refuse(t) \/ PullSteers(t) \/ PullAll(t) \/ Finish(t)
    \/ UnwindBody(t) \/ Leave(t) \/ HandBack(t) \/ UnwindHandBack(t) \/ DropUnstarted(t)

Next ==
    \/ \E k \in Keys, kind \in Kinds : Publish(k, kind)
    \/ StopDone \/ \E k \in Keys : Consume(k)
    \/ \E t \in Turns : TurnStep(t)
    \/ StopIntake \/ BeginDrain \/ EndDrain \/ Restart \/ Replay

Spec == Init /\ [][Next]_vars

\* The event loop runs every task that can go on; a turn ends (iteration limit,
\* tool and provider timeouts); the bus is one FIFO queue, so no session's message waits
\* behind others for ever.  Nothing obliges a channel to publish or an
\* operator to stop the gateway.
FairSpec ==
    /\ Spec
    /\ \A k \in Keys : SF_vars(Consume(k))
    /\ WF_vars(StopDone) /\ WF_vars(Replay)
    /\ WF_vars(BeginDrain) /\ WF_vars(EndDrain) /\ WF_vars(Restart)
    /\ \A t \in Turns :
         /\ WF_vars(Begin(t)) /\ WF_vars(Run(t) \/ Refuse(t)) /\ WF_vars(Finish(t))
         /\ WF_vars(UnwindBody(t) \/ Leave(t) \/ HandBack(t)
                      \/ UnwindHandBack(t) \/ DropUnstarted(t))
---------------------------------------------------------------------------
(* Properties                                                              *)

TurnType ==
    [pc : {"free", "created", "waiting", "running", "ending", "handback"},
     opener : Message \cup {None}, inject : Seq(Message), deferred : Seq(Message),
     pulled : Seq(Message), cycles : 0..MaxCycles, doomed : BOOLEAN,
     hand : Seq(Message)]

\* The queues never outgrow their cap, and a task at work has a message to answer.
Task == {x \in TurnType :
            /\ Len(x.inject) <= QueueCap /\ Len(x.deferred) <= QueueCap
            /\ x.pc # "free" => x.opener \in Message
            /\ x.pc = "handback" => x.hand # <<>>}

\* "claimed": an automation has taken it, or its sender is no longer let in.  "again":
\* answered, and on its way to the next process all the same.
Outcomes == {"answered", "stopped", "claimed"}
Failures == {"cut", "dropped", "missed"}
Fates    == {"unsent", "owed", "again"} \cup Outcomes \cup Failures
Messages == [Keys -> Seq(Message)]

\* The types, and the queues' cap.
TypeOK ==
    /\ bus \in Messages /\ owed \in Messages /\ journal \in Messages
    /\ registered \in [Keys -> Turns \cup {None}]
    /\ turn \in [Turns -> Task]
    /\ active \in [Keys -> Seq(Turns)] /\ lock \in [Keys -> Seq(Turns)]
    /\ awaited \subseteq Turns
    /\ gateway \in Phases
    /\ fate \in [Ids -> Fates]
    /\ restarts \in Nat

IdsOf(s) == {s[i].id : i \in 1..Len(s)}
IdsIn(q) == UNION {IdsOf(q[k]) : k \in Keys}

\* Messages some step can still take into a turn: on the bus, on disk or in the
\* drain's hands, in queues that are registered or whose turn is still there, or
\* the one a task that has not run yet will answer.
Reachable(t) == turn[t].pc # "free" \/ IsRegistered(t)
ToBeTaken ==
    IdsIn(bus) \cup IdsIn(owed) \cup IdsIn(journal)
    \cup (UNION {IdsOf(Queued(t) \o turn[t].hand) : t \in {u \in Turns : Reachable(u)}})
    \cup {turn[t].opener.id : t \in {u \in Turns : Undisturbed(u, "created") \/ Undisturbed(u, "waiting")}}

InATurn == UNION {{m.id : m \in Taken(t)} : t \in {u \in Turns : turn[u].pc = "running"}}

Lost == {i \in Ids : fate[i] \in Failures \/ (fate[i] = "owed" /\ i \notin ToBeTaken \cup InATurn)}

\* Every message accepted is either settled or somewhere it will be taken from:
\* leftovers are "processed as fresh inbound messages rather than silently lost"
\* (loop.py:2976-2978).
NothingLost == Lost = {}

\* The same for the messages no turn has taken: the shutdown drain and the journal
\* lose none of those waiting on the bus, in a queue or for their first turn.  Three
\* losses are the code's own and are recorded as such in `fate`: what a drain cuts out
\* of a running turn, what a task drops when cancelled while handing its leftovers
\* back, and what comes in after the drain.
WaitingKept == {i \in Lost : fate[i] = "owed"} = {}

\* A message that got its outcome is nowhere a later turn could take it from: no
\* reply is given twice, across restarts too.  Excepted is what the drain takes from a
\* turn that has replied and not ended ("again"): it is replayed as it stands.
SettledOnce == \A i \in Ids : fate[i] \in Outcomes => i \notin ToBeTaken

Live(t) == turn[t].pc \in {"created", "waiting", "running", "ending"}

\* A follow-up never starts "a competing task" (loop.py:2725-2728): a session has
\* one turn at a time from the moment its message is taken off the bus.
NoCompetingTurns ==
    \A t, u \in Turns : Live(t) /\ Live(u) /\ t # u => Key(t) # Key(u)

InBody(t) == turn[t].pc \in {"running", "ending"}

\* One turn at a time is inside a session, through competing tasks, /stop, refusals
\* and the drain: the session lock serialises them (loop.py:2784, 2838).
OneTurnInside ==
    \A t, u \in Turns : InBody(t) /\ InBody(u) /\ Key(t) = Key(u) => t = u

Unique(s) == \A i, j \in 1..Len(s) : s[i] = s[j] => i = j

ListedOK ==
    \A k \in Keys :
        /\ Unique(active[k])
        /\ \A t \in ToSet(active[k]) :
              turn[t].pc # "free" /\ ~turn[t].doomed /\ Key(t) = k

LockOK ==
    \A k \in Keys :
        /\ Unique(lock[k])
        /\ \A t \in ToSet(lock[k]) :
              turn[t].pc \in {"waiting", "running", "ending"} /\ Key(t) = k

\* What /stop and the drain find listed for a session are its tasks, each once,
\* none of them over or cancelled before (_drop_active_task); and its lock is held
\* and waited for by its own tasks only.
NoneOutlives == ListedOK /\ LockOK

\* The tasks, their queues and what lists them agree.
LoopConsistent == TypeOK /\ NoneOutlives

\* What a sender is promised: MessageLedger, with a message that is nowhere any
\* more shown as "lost", a value that specification does not know.
Ledger == INSTANCE MessageLedger WITH
    Messages <- Ids,
    ledger <- [i \in Ids |-> IF i \in Lost THEN "lost"
                             ELSE IF fate[i] \in Outcomes \cup {"again"} THEN "settled"
                             ELSE fate[i]]

\* Every step of the loop is a step of the ledger or leaves it alone.
KeepsLedger == Ledger!Spec

\* Every accepted message is settled in the end.
EventuallySettled == Ledger!EventuallySettled
===========================================================================
