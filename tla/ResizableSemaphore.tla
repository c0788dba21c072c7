------------------------ MODULE ResizableSemaphore ------------------------
(***************************************************************************)
(* One ResizableSemaphore shared by coroutines (the interactive lane or    *)
(* the global ceiling of durin/agent/loop.py), resized live by a config    *)
(* reload.  Coroutines of one event loop interleave only where they await: *)
(* each action below is the code between two such points.                  *)
(***************************************************************************)
EXTENDS Gate

CONSTANTS
    Tasks,        \* coroutines that use the gate
    Limits,       \* the values a config reload may give the cap
    MaxResizes    \* bound on set_limit calls in one behaviour

ASSUME TasksAssumption  == IsFiniteSet(Tasks)
ASSUME LimitsAssumption == Limits \subseteq Nat
ASSUME ResizesAssumption == MaxResizes \in Nat

VARIABLES
    gate,         \* the ResizableSemaphore
    inside,       \* coroutines between __aenter__ and __aexit__
    doomed,       \* cancelled while queued, not unwound yet
    surplus,      \* history: let in past the gate since it was last turned on
    resizes       \* bound: set_limit calls so far

vars == <<gate, inside, doomed, surplus, resizes>>

Queued == Elems(gate.queue)
Busy   == inside \cup doomed \cup Queued \cup gate.granted \cup gate.flushed

Init ==
    /\ \E n \in Limits : gate = NewGate(n)
    /\ inside = {} /\ doomed = {} /\ surplus = 0
    /\ resizes = 0

Arrive(t) ==
    /\ t \notin Busy
    /\ gate' = Enter(gate, t)
    /\ inside' = IF EntersAtOnce(gate) THEN inside \cup {t} ELSE inside
    /\ UNCHANGED <<doomed, surplus, resizes>>

Resume(t) ==
    /\ \/ t \in gate.granted /\ gate' = Admit(gate, t) /\ UNCHANGED surplus
       \/ /\ t \in gate.flushed /\ gate' = AdmitFlushed(gate, t)
          /\ surplus' = IF gate.gated THEN surplus + 1 ELSE surplus
    /\ inside' = inside \cup {t}
    /\ UNCHANGED <<doomed, resizes>>

CancelQueued(t) ==
    /\ t \in Queued
    /\ gate' = CancelWaiter(gate, t)
    /\ doomed' = doomed \cup {t}
    /\ UNCHANGED <<inside, surplus, resizes>>

UnwindCancelled(t) ==
    /\ t \in doomed
    /\ gate' = Unwind(gate)
    /\ doomed' = doomed \ {t}
    /\ UNCHANGED <<inside, surplus, resizes>>

CancelGranted(t) ==
    /\ \/ t \in gate.granted /\ gate' = Revoke(gate, t)
       \/ t \in gate.flushed /\ gate' = RevokeFlushed(gate, t)
    /\ UNCHANGED <<inside, doomed, surplus, resizes>>

Leave(t) ==
    /\ t \in inside
    /\ gate' = Exit(gate)
    /\ inside' = inside \ {t}
    /\ UNCHANGED <<doomed, surplus, resizes>>

Resize(n) ==
    /\ resizes < MaxResizes
    /\ n # gate.limit
    /\ gate' = SetLimit(gate, n)
    /\ surplus' = IF gate.gated /\ gate'.gated THEN surplus ELSE 0
    /\ resizes' = resizes + 1
    /\ UNCHANGED <<inside, doomed>>

Next ==
    \/ \E t \in Tasks :
          \/ Arrive(t) \/ Resume(t) \/ Leave(t)
          \/ CancelQueued(t) \/ UnwindCancelled(t) \/ CancelGranted(t)
    \/ \E n \in Limits : Resize(n)

Spec == Init /\ [][Next]_vars

\* The event loop resumes every ready coroutine, and a holder does leave: a turn
\* and a sub-agent run are bounded by their own iteration limits and timeouts.
FairSpec ==
    /\ Spec
    /\ \A t \in Tasks : WF_vars(Resume(t) \/ CancelGranted(t))
                        /\ WF_vars(UnwindCancelled(t)) /\ WF_vars(Leave(t))

---------------------------------------------------------------------------
GateType ==
    [limit : Nat, gated : BOOLEAN, active : Nat, waiting : Nat, toReduce : Nat,
     value : Nat, queue : Seq(Tasks), granted : SUBSET Tasks, flushed : SUBSET Tasks]

TypeOK ==
    /\ gate \in GateType
    /\ gate.gated <=> gate.limit > 0
    /\ inside \subseteq Tasks /\ doomed \subseteq Tasks
    /\ surplus \in Nat /\ resizes \in Nat

\* The live counters the concurrency snapshot shows (`active`, `waiting`) are
\* exact whatever the order of grants, cancellations and resizes: `active` the
\* coroutines inside, `waiting` those blocked in __aenter__, woken or not.
CountersExact ==
    /\ gate.active = Cardinality(inside)
    /\ gate.waiting = Len(gate.queue) + Cardinality(gate.granted)
                      + Cardinality(gate.flushed) + Cardinality(doomed)

\* Turning the cap off leaves nobody queued on the semaphore that is discarded,
\* which nothing would ever release (resizable_semaphore.py:74-76).
NobodyStranded == ~gate.gated => gate.queue = <<>> /\ gate.granted = {}

\* While a permit is free, some waiter is already on its way in: no wake-up is
\* lost between a release, a cancelled waiter and a raised cap.
NoLostWakeup == gate.queue # <<>> => gate.value = 0 \/ gate.granted # {}

\* The gate's own books: what the snapshot shows, the queue of a gate that is off,
\* and the wake-up that follows a free permit.
GateConsistent == TypeOK /\ CountersExact /\ NobodyStranded /\ NoLostWakeup

\* Permits are conserved: those free, handed out and in use add up to the cap plus
\* what exits still have to withhold, through any resizes.  The one thing that gets
\* past the cap is a coroutine woken by turning the gate off that runs when it is on
\* again: both reloads within one iteration of the event loop.
PermitsConserved ==
    gate.gated => gate.value + Cardinality(gate.granted) + gate.active
                     = gate.limit + gate.toReduce + surplus

\* As long as coroutines keep coming through, a pending shrink completes: the live
\* cap comes down to the configured one instead of staying above it for ever.
CapConverges ==
    []<>(inside # {}) => (gate.toReduce > 0 ~> gate.toReduce = 0)

\* A coroutine queued at the gate is eventually let in, or leaves by cancellation.
EveryWaiterServed == \A t \in Tasks : t \in Queued ~> t \notin Queued
===========================================================================
