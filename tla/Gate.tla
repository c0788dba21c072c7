------------------------------- MODULE Gate -------------------------------
(***************************************************************************)
(* durin/utils/resizable_semaphore.py: one ResizableSemaphore as a record, *)
(* and what each of its methods does to that record.  Every operator is a  *)
(* pure function of the gate, so the modules that own a gate               *)
(* (ResizableSemaphore, TurnSlots) compose them into their actions.        *)
(*                                                                         *)
(* The wrapped asyncio.Semaphore is not durin's code.  What durin relies   *)
(* on is modelled here: `value` free permits, a FIFO `queue` of waiters    *)
(* whose future is pending, and the set `granted` of waiters whose future  *)
(* is set but whose coroutine has not resumed yet.  A coroutine woken by a *)
(* semaphore that set_limit has since discarded is in `flushed`: it will   *)
(* enter, but it holds no permit of the current semaphore.                 *)
(***************************************************************************)
EXTENDS Naturals, Sequences, FiniteSets, SequencesExt

Smaller(m, n) == IF m < n THEN m ELSE n
Excess(m, n)  == IF m > n THEN m - n ELSE 0          \* max(0, m - n)
Elems(q)      == {q[i] : i \in 1..Len(q)}

\* A limit of 0 (or less, in the code) is "unlimited": no semaphore at all.
NewGate(n) ==
    [limit |-> n, gated |-> n > 0, active |-> 0, waiting |-> 0, toReduce |-> 0,
     value |-> n, queue |-> <<>>, granted |-> {}, flushed |-> {}]

---------------------------------------------------------------------------
(* asyncio.Semaphore                                                       *)

\* acquire() does not wait only when a permit is free and nobody is ahead.
Unlocked(g) == g.value > 0 /\ g.queue = <<>> /\ g.granted = {}

\* A bug: the newest waiter goes first.
WakeUpNewest(g, n) ==
    LET k == Smaller(n, Len(g.queue)) IN
    [g EXCEPT !.value   = @ - k,
              !.queue   = SubSeq(@, 1, Len(@) - k),
              !.granted = @ \cup {g.queue[i] : i \in (Len(g.queue) - k + 1)..Len(g.queue)}]

\* _wake_up_next, n times: each call hands a permit to the oldest pending waiter.
WakeUp(g, n) ==
    LET k == Smaller(n, Len(g.queue)) IN
    [g EXCEPT !.value   = @ - k,
              !.queue   = SubSeq(@, k + 1, Len(@)),
              !.granted = @ \cup {g.queue[i] : i \in 1..k}]

\* release(), n times.
ReleasePermits(g, n) == WakeUp([g EXCEPT !.value = @ + n], n)

---------------------------------------------------------------------------
(* __aenter__                                                              *)

\* The call itself, up to the point where it returns or blocks in acquire().
Enter(g, t) ==
    IF ~g.gated THEN [g EXCEPT !.active = @ + 1]
    ELSE IF Unlocked(g) THEN [g EXCEPT !.value = @ - 1, !.active = @ + 1]
    ELSE [g EXCEPT !.waiting = @ + 1, !.queue = Append(@, t)]

EntersAtOnce(g) == ~g.gated \/ Unlocked(g)

\* A waiter whose future was set resumes inside acquire() and goes on in.
Admit(g, t) ==
    LET in == [g EXCEPT !.waiting = @ - 1, !.active = @ + 1, !.granted = @ \ {t}]
    IN  IF in.value > 0 THEN WakeUp(in, 1) ELSE in

\* The same for a waiter that the discarded semaphore let through.
AdmitFlushed(g, t) ==
    [g EXCEPT !.waiting = @ - 1, !.active = @ + 1, !.flushed = @ \ {t}]

\* A cancellation that reaches a waiter before its future is set cancels the
\* future, which leaves the queue at once; the coroutine unwinds later.
CancelWaiter(g, t) == [g EXCEPT !.queue = RemoveFirst(@, t)]
Unwind(g)          == [g EXCEPT !.waiting = @ - 1]

\* A bug: the permit goes back without waking the next waiter.
RevokeSilently(g, t) ==
    [g EXCEPT !.waiting = @ - 1, !.granted = @ \ {t}, !.value = @ + 1]

\* A cancellation that reaches it after the future was set gives the permit on.
Revoke(g, t) ==
    ReleasePermits([g EXCEPT !.waiting = @ - 1, !.granted = @ \ {t}], 1)
RevokeFlushed(g, t) == [g EXCEPT !.waiting = @ - 1, !.flushed = @ \ {t}]

---------------------------------------------------------------------------
(* __aexit__                                                               *)

\* Bugs: a withheld permit is released as well; no permit is ever withheld.
ExitWithholdsAndReleases(g) ==
    ReleasePermits([g EXCEPT !.active = @ - 1, !.toReduce = Excess(@, 1)], 1)
ExitNeverWithholds(g) == ReleasePermits([g EXCEPT !.active = @ - 1], 1)

Exit(g) ==
    LET out == [g EXCEPT !.active = @ - 1] IN
    IF ~g.gated THEN out
    ELSE IF g.toReduce > 0 THEN [out EXCEPT !.toReduce = @ - 1]
    ELSE ReleasePermits(out, 1)

---------------------------------------------------------------------------
(* set_limit                                                               *)

\* N -> unlimited: the semaphore goes, `_waiting` of its waiters are woken.
\* Those already granted keep the permit of a semaphore that is no more.
TurnOff(g) ==
    LET k == Smaller(g.waiting, Len(g.queue)) IN
    [g EXCEPT !.limit = 0, !.gated = FALSE, !.toReduce = 0, !.value = 0,
              !.queue   = SubSeq(@, k + 1, Len(@)),
              !.flushed = @ \cup g.granted \cup {g.queue[i] : i \in 1..k},
              !.granted = {}]

\* unlimited -> N: the permits still free, and the overshoot to withhold.
TurnOn(g, n) ==
    [g EXCEPT !.limit = n, !.gated = TRUE,
              !.value = Excess(n, g.active), !.toReduce = Excess(g.active, n)]

\* Raising first cancels pending withholdings, then adds permits.
Raise(g, n) ==
    LET delta    == n - g.limit
        absorbed == Smaller(delta, g.toReduce)
    IN  ReleasePermits([g EXCEPT !.limit = n, !.toReduce = @ - absorbed],
                       delta - absorbed)

\* Lowering takes no permit back now: exits will withhold that many.
Lower(g, n) == [g EXCEPT !.limit = n, !.toReduce = @ + (g.limit - n)]

SetLimit(g, n) ==
    IF n = g.limit THEN g
    ELSE IF n = 0 THEN TurnOff(g)
    ELSE IF g.limit = 0 THEN TurnOn(g, n)
    ELSE IF n > g.limit THEN Raise(g, n)
    ELSE Lower(g, n)
===========================================================================
