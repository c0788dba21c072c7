----------------------------- MODULE TurnSlots -----------------------------
(***************************************************************************)
(* durin/agent/turn_slots.py over two ResizableSemaphores (the interactive *)
(* lane and the global ceiling), with the sub-agents that share the        *)
(* ceiling (durin/agent/subagent.py) and the turn's wait for them          *)
(* (AgentLoop._drain_pending).  A turn takes its lane slot, then its       *)
(* ceiling slot; gives both back while it waits on a person; takes them    *)
(* again before it continues.                                              *)
(*                                                                         *)
(* A wait on a person may run in a task of its own that the turn started.  *)
(* If the turn ends underneath it, that task is `late`: it still sees the  *)
(* turn's TurnSlots object, and must not keep a slot on its behalf.        *)
(***************************************************************************)
EXTENDS Gate

CONSTANTS
    Turns,          \* turns dispatched by the loop, one TurnSlots each
    Subagents,      \* sub-agent tasks a turn may spawn
    NoTurn,         \* parent of a sub-agent nobody spawned yet
    LaneLimit, CeilingLimit

ASSUME CapsAssumption == LaneLimit \in Nat \ {0} /\ CeilingLimit \in Nat \ {0}
ASSUME NoTurnAssumption == NoTurn \notin Turns
ASSUME ActorsAssumption == Turns \cap Subagents = {}

VARIABLES
    gates,          \* [lane, ceiling], the two ResizableSemaphores
    held,           \* TurnSlots._held, as the set of slots a turn holds
    closed,         \* turns whose TurnSlots.closed is set
    pc,             \* where each turn is
    late,           \* where a wait that outlived its turn is
    parent,         \* the turn that spawned each sub-agent
    sub             \* where each sub-agent is

slotVars == <<gates, held, closed, pc, late, parent, sub>>

GateNames == {"lane", "ceiling"}
Both      == GateNames

SlotsInit ==
    /\ gates  = [lane |-> NewGate(LaneLimit), ceiling |-> NewGate(CeilingLimit)]
    /\ held   = [t \in Turns |-> {}]
    /\ closed = {}
    /\ pc     = [t \in Turns |-> "idle"]
    /\ late   = [t \in Turns |-> "none"]
    /\ parent = [s \in Subagents |-> NoTurn]
    /\ sub    = [s \in Subagents |-> "idle"]

---------------------------------------------------------------------------
(* TurnSlots.acquire and .release, run from one await to the next.         *)

\* What acquire() reaches: the gates, the slots held, and whether it is done
\* or blocked in a gate's queue.
TakeCeiling(gs, h, t) ==
    LET at_once == EntersAtOnce(gs.ceiling)
        after   == [gs EXCEPT !.ceiling = Enter(@, t)]
    IN  IF "ceiling" \in h THEN [gates |-> gs, held |-> h, done |-> TRUE]
        ELSE [gates |-> after, done |-> at_once,
              held  |-> IF at_once THEN h \cup {"ceiling"} ELSE h]

TakeSlots(gs, h, t) ==
    LET after == [gs EXCEPT !.lane = Enter(@, t)]
    IN  IF "lane" \in h THEN TakeCeiling(gs, h, t)
        ELSE IF EntersAtOnce(gs.lane) THEN TakeCeiling(after, h \cup {"lane"}, t)
        ELSE [gates |-> after, held |-> h, done |-> FALSE]

\* release(): every slot still held, in reverse order.
GiveBack(gs, h) ==
    [lane    |-> IF "lane" \in h THEN Exit(gs.lane) ELSE gs.lane,
     ceiling |-> IF "ceiling" \in h THEN Exit(gs.ceiling) ELSE gs.ceiling]

\* The gate g granted t the slot it queued for: acquire() goes on, unless the turn
\* ended while it was queued, and then everything held goes back at once.
GoOn(t, g) ==
    LET granted == [gates EXCEPT ![g] = Admit(@, t)]
        h       == held[t] \cup {g}
    IN  IF t \in closed
        THEN [gates |-> GiveBack(granted, h), held |-> {}, done |-> TRUE]
        ELSE TakeCeiling(granted, h, t)

Granted(t, g)  == t \in gates[g].granted
InQueue(t)     == \E g \in GateNames : t \in Elems(gates[g].queue) \cup gates[g].granted

\* A bug: a permit granted to a cancelled waiter is not passed on.
WithdrawLeaking(gs, t) ==
    [g \in GateNames |->
        IF t \in gs[g].granted THEN RevokeFlushed([gs[g] EXCEPT !.granted = @ \ {t}], t)
        ELSE IF t \in Elems(gs[g].queue) THEN Unwind(CancelWaiter(gs[g], t))
        ELSE gs[g]]

\* A cancellation that reaches t in a queue: the gate forgets it (the counter
\* `waiting` included: nothing reads it between the two steps here).
Withdraw(gs, t) ==
    [g \in GateNames |->
        IF t \in gs[g].granted THEN Revoke(gs[g], t)
        ELSE IF t \in Elems(gs[g].queue) THEN Unwind(CancelWaiter(gs[g], t))
        ELSE gs[g]]

---------------------------------------------------------------------------
(* A turn                                                                  *)

\* async with slots: TurnSlots.__aenter__
Dispatch(t) ==
    /\ pc[t] = "idle"
    /\ LET r == TakeSlots(gates, held[t], t) IN
       /\ gates' = r.gates /\ held' = [held EXCEPT ![t] = r.held]
       /\ pc' = [pc EXCEPT ![t] = IF r.done THEN "running" ELSE "entering"]
    /\ UNCHANGED <<closed, late, parent, sub>>

\* The queue a turn is in lets it through.
SlotGranted(t, g) ==
    /\ pc[t] \in {"entering", "retaking"}
    /\ Granted(t, g)
    /\ LET r == GoOn(t, g) IN
       /\ gates' = r.gates /\ held' = [held EXCEPT ![t] = r.held]
       /\ pc' = [pc EXCEPT ![t] = IF r.done THEN "running" ELSE @]
    /\ UNCHANGED <<closed, late, parent, sub>>

\* A bug: the turn keeps its slots while the person decides.
AskPersonHolding(t) ==
    /\ pc[t] = "running"
    /\ pc' = [pc EXCEPT ![t] = "person"]
    /\ UNCHANGED <<gates, held, closed, late, parent, sub>>

\* released_while_waiting: a tool asks the person.
AskPerson(t) ==
    /\ pc[t] = "running"
    /\ gates' = GiveBack(gates, held[t])
    /\ held' = [held EXCEPT ![t] = {}]
    /\ pc' = [pc EXCEPT ![t] = "person"]
    /\ UNCHANGED <<closed, late, parent, sub>>

\* The answer, or the answer timeout: the turn takes its slots again.
PersonAnswers(t) ==
    /\ pc[t] = "person"
    /\ LET r == TakeSlots(gates, held[t], t) IN
       /\ gates' = r.gates /\ held' = [held EXCEPT ![t] = r.held]
       /\ pc' = [pc EXCEPT ![t] = IF r.done THEN "running" ELSE "retaking"]
    /\ UNCHANGED <<closed, late, parent, sub>>

\* A wait that outlived its turn takes nothing once the turn is closed.
LateAnswer(t) ==
    /\ late[t] = "person"
    /\ late' = [late EXCEPT ![t] = "none"]
    /\ UNCHANGED <<gates, held, closed, pc, parent, sub>>

\* ... and gives back at once what a gate it was queued at grants it.
LateGranted(t, g) ==
    /\ late[t] = "retaking"
    /\ Granted(t, g)
    /\ LET r == GoOn(t, g) IN
       /\ gates' = r.gates /\ held' = [held EXCEPT ![t] = r.held]
       /\ late' = [late EXCEPT ![t] = IF r.done THEN "none" ELSE @]
    /\ UNCHANGED <<closed, pc, parent, sub>>

\* The turn ends: __aexit__ closes the slots and gives back those still held.
Finish(t) ==
    /\ pc[t] = "running"
    /\ closed' = closed \cup {t}
    /\ gates' = GiveBack(gates, held[t])
    /\ held' = [held EXCEPT ![t] = {}]
    /\ pc' = [pc EXCEPT ![t] = "over"]
    /\ UNCHANGED <<late, parent, sub>>

\* /stop or a shutdown cancels the turn's task wherever it awaits.
Cancel(t) ==
    /\ pc[t] \in {"entering", "running", "person", "retaking", "children"}
    /\ closed' = closed \cup {t}
    /\ gates' = GiveBack(Withdraw(gates, t), held[t])
    /\ held' = [held EXCEPT ![t] = {}]
    /\ pc' = [pc EXCEPT ![t] = "over"]
    /\ UNCHANGED <<late, parent, sub>>

\* The turn ends while a wait it left in a task of its own goes on.
EndUnderWait(t) ==
    /\ pc[t] \in {"person", "retaking"}
    /\ closed' = closed \cup {t}
    /\ gates' = GiveBack(gates, held[t])
    /\ held' = [held EXCEPT ![t] = {}]
    /\ late' = [late EXCEPT ![t] = pc[t]]
    /\ pc' = [pc EXCEPT ![t] = "over"]
    /\ UNCHANGED <<parent, sub>>

---------------------------------------------------------------------------
(* Sub-agents: SubagentManager.spawn and _run_subagent                     *)

Children(t) == {s \in Subagents : parent[s] = t /\ sub[s] \in {"queued", "running"}}

\* spawn() schedules the task, which queues for the shared ceiling.
Spawn(t, s) ==
    /\ pc[t] = "running" /\ sub[s] = "idle"
    /\ parent' = [parent EXCEPT ![s] = t]
    /\ gates' = [gates EXCEPT !.ceiling = Enter(@, s)]
    /\ sub' = [sub EXCEPT ![s] = IF EntersAtOnce(gates.ceiling) THEN "running" ELSE "queued"]
    /\ UNCHANGED <<held, closed, pc, late>>

SubGranted(s) ==
    /\ sub[s] = "queued" /\ s \in gates.ceiling.granted
    /\ gates' = [gates EXCEPT !.ceiling = Admit(@, s)]
    /\ sub' = [sub EXCEPT ![s] = "running"]
    /\ UNCHANGED <<held, closed, pc, late, parent>>

\* The run ends and its result is announced: a parent waiting for it goes on.
SubDone(s) ==
    /\ sub[s] = "running"
    /\ gates' = [gates EXCEPT !.ceiling = Exit(@)]
    /\ sub' = [sub EXCEPT ![s] = "done"]
    /\ pc' = [t \in Turns |->
                 IF t = parent[s] /\ pc[t] = "children" THEN "running" ELSE pc[t]]
    /\ UNCHANGED <<held, closed, late, parent>>

\* cancel_by_session (a /stop) or a shutdown cancels it, queued or at work.
SubCancel(s) ==
    /\ sub[s] \in {"queued", "running"}
    /\ gates' = IF sub[s] = "queued" THEN Withdraw(gates, s)
                ELSE [gates EXCEPT !.ceiling = Exit(@)]
    /\ sub' = [sub EXCEPT ![s] = "done"]
    /\ UNCHANGED <<held, closed, pc, late, parent>>

\* _drain_pending: nothing to inject and children still at work, so the turn
\* blocks for a result, its slots still held, for at most 300 s.
AwaitChildren(t) ==
    /\ pc[t] = "running" /\ Children(t) # {}
    /\ pc' = [pc EXCEPT ![t] = "children"]
    /\ UNCHANGED <<gates, held, closed, late, parent, sub>>

\* A bug: the 300 s run from the start of a child, and a child in the queue has none.
GiveUpOnStarted(t) ==
    /\ pc[t] = "children" /\ \E s \in Children(t) : sub[s] = "running"
    /\ pc' = [pc EXCEPT ![t] = "running"]
    /\ UNCHANGED <<gates, held, closed, late, parent, sub>>

\* The 300 s are over: the turn goes on without the result.
GiveUpOnChildren(t) ==
    /\ pc[t] = "children"
    /\ pc' = [pc EXCEPT ![t] = "running"]
    /\ UNCHANGED <<gates, held, closed, late, parent, sub>>

SlotsNext ==
    \/ \E t \in Turns :
          \/ Dispatch(t) \/ AskPerson(t) \/ PersonAnswers(t) \/ LateAnswer(t)
          \/ Finish(t) \/ Cancel(t) \/ EndUnderWait(t)
          \/ AwaitChildren(t) \/ GiveUpOnChildren(t)
          \/ \E g \in GateNames : SlotGranted(t, g) \/ LateGranted(t, g)
          \/ \E s \in Subagents : Spawn(t, s)
    \/ \E s \in Subagents : SubGranted(s) \/ SubDone(s) \/ SubCancel(s)

SlotsSpec == SlotsInit /\ [][SlotsNext]_slotVars

\* The event loop resumes whoever is ready, a sub-agent ends (iteration limit) and
\* the wait for children has its timeout.  A turn may go back to waiting between
\* two of its steps, but only as often as its iteration limit allows, so a turn
\* that keeps coming back to work finishes: strong fairness.  Nothing is assumed
\* of the person, who may never answer.
FairSlotsSpec ==
    /\ SlotsSpec
    /\ \A t \in Turns :
          /\ SF_slotVars(Finish(t)) /\ WF_slotVars(GiveUpOnChildren(t))
          /\ \A g \in GateNames : WF_slotVars(SlotGranted(t, g)) /\ WF_slotVars(LateGranted(t, g))
    /\ \A s \in Subagents : WF_slotVars(SubGranted(s)) /\ WF_slotVars(SubDone(s))

---------------------------------------------------------------------------
Users == Turns \cup Subagents
SlotGate ==
    [limit : Nat, gated : BOOLEAN, active : Nat, waiting : Nat, toReduce : Nat,
     value : Nat, queue : Seq(Users), granted : SUBSET Users, flushed : SUBSET Users]

SlotsTypeOK ==
    /\ gates \in [lane : SlotGate, ceiling : SlotGate]
    /\ held \in [Turns -> SUBSET GateNames]
    /\ closed \subseteq Turns
    /\ pc \in [Turns -> {"idle", "entering", "running", "person", "retaking", "children", "over"}]
    /\ late \in [Turns -> {"none", "person", "retaking"}]
    /\ parent \in [Subagents -> Turns \cup {NoTurn}]
    /\ sub \in [Subagents -> {"idle", "queued", "running", "done"}]

Holders(g) == {t \in Turns : g \in held[t]}
              \cup {s \in Subagents : g = "ceiling" /\ sub[s] = "running"}

\* Every slot in use is in somebody's flags, and the rest are free or on their way
\* to a waiter: none released twice, none leaked (turn_slots.py:10-13), wherever
\* cancellations and late waits land.
SlotsConserved ==
    \A g \in GateNames :
        /\ gates[g].active = Cardinality(Holders(g))
        /\ gates[g].value + Cardinality(gates[g].granted) + gates[g].active = gates[g].limit

\* A turn that is over holds no slot, and none is on its way to it unless a wait of
\* its own is still there to give it back (turn_slots.py:41-44).
OverMeansGivenBack ==
    \A t \in closed : held[t] = {} /\ (InQueue(t) => late[t] = "retaking")

\* A turn works only with both slots in hand: the caps bound the turns at work.
WorksWithBothSlots ==
    \A t \in Turns : pc[t] \in {"running", "children"} => held[t] = Both

\* The flags, the gates and the places of the turns agree.
SlotsConsistent == SlotsTypeOK /\ SlotsConserved /\ OverMeansGivenBack /\ WorksWithBothSlots

\* Unanswered questions do not stall other chats: a dispatched turn gets its slots
\* (or is cancelled) even when no person ever answers anyone.
OtherChatsRun == \A t \in Turns : pc[t] = "entering" ~> pc[t] # "entering"

\* A sub-agent queued at the ceiling eventually runs to its end, also when everybody who holds
\* the ceiling is a turn that blocks for a sub-agent in that queue (loop.py:2447-2469,
\* subagent.py:433-438): the turns give up, end, and let it through.
SubagentsFinish == \A s \in Subagents : sub[s] = "queued" ~> sub[s] = "done"
===========================================================================
