----------------------------- MODULE TurnLease -----------------------------
(***************************************************************************)
(* session/turn_lease.py over utils/file_lock.py: the lease on one session *)
(* that a turn, or a rename, holds from its reload to its save.  Processes *)
(* exclude one another with flock; a lock that the calling thread already  *)
(* holds is entered again without it.  Entering and leaving are calls to   *)
(* asyncio.to_thread: each is queued, runs on whichever pool thread is     *)
(* idle, and can lose the task that awaits it at any moment.               *)
(***************************************************************************)
EXTENDS Naturals, FiniteSets

CONSTANTS
    Procs,       \* processes on one workspace: the gateway, a TUI
    Threads,     \* <<process, number>>: threads its default executor has started
    TurnRoles,   \* clients that hold the process's asyncio.Lock of the session
    SaverRoles,  \* clients that take the lease alone: the rename, the title
    Clients,     \* <<process, role>>
    NoClient,
    MaxDeaths    \* bound

ASSUME RolesAssumption ==
    /\ TurnRoles \cap SaverRoles = {}
    /\ Clients \subseteq Procs \X (TurnRoles \cup SaverRoles)
    /\ NoClient \notin Clients
ASSUME ThreadsAssumption == Threads \subseteq Procs \X Nat
ASSUME DeathsAssumption == MaxDeaths \in Nat

Proc(x) == x[1]
IsTurn(c) == c[2] \in TurnRoles

\* Who has yet to unlock the file: a client, a pool thread that works for nobody
\* or on its way out, or an exit that was cancelled in the pool's queue.
Nobody == <<"nobody", NoClient>>
ByClient(c) == <<"client", c>>
ByThread(t) == <<"thread", t>>
ByQueue(p) == <<"queue", <<p>>>>
Owners == {ByClient(c) : c \in Clients} \cup {ByThread(t) : t \in Threads}
            \cup {ByQueue(p) : p \in Procs}

VARIABLES
    client,   \* idle, entering, entered (not resumed yet), in, or leaving
    through,  \* the clients that opened and locked the file: they will unlock it
    thread,   \* what each thread runs, and the client that awaits it
    held,     \* the threads whose own (thread-local) set has the path
    flock,    \* who has to unlock the file
    deaths

vars == <<client, through, thread, held, flock, deaths>>

Idle == [for |-> NoClient, mode |-> "idle"]
Works(t, mode) == thread[t].mode = mode
Serves(t, c) == thread[t].for = c

Init ==
    /\ client = [c \in Clients |-> "idle"]
    /\ through = {}
    /\ thread = [t \in Threads |-> Idle]
    /\ held = {}
    /\ flock = Nobody /\ deaths = 0

\* The asyncio.Lock of the session: one turn of a process at a time.
LockFree(c) ==
    IsTurn(c) => \A d \in Clients : Proc(d) = Proc(c) /\ IsTurn(d) => client[d] = "idle"

\* A queued call reaches a thread of the pool.
Begins(t, c, mode) ==
    /\ Proc(t) = Proc(c) /\ thread[t] = Idle
    /\ \A u \in Threads : ~Serves(u, c)
    /\ thread' = [thread EXCEPT ![t] = [for |-> c, mode |-> mode]]

\* The call returns: the thread is idle, the client that still awaits it goes on.
Returns(t, stage) ==
    /\ thread' = [thread EXCEPT ![t] = Idle]
    /\ client' = [c \in Clients |-> IF Serves(t, c) THEN stage ELSE client[c]]

---------------------------------------------------------------------------
(* Entering                                                                *)

\* session_turn_lease: to_thread(cm.__enter__).
Enter(c) ==
    /\ client[c] = "idle" /\ LockFree(c)
    /\ client' = [client EXCEPT ![c] = "entering"]
    /\ UNCHANGED <<through, thread, held, flock, deaths>>

EnterBegins(c, t) ==
    /\ client[c] = "entering"
    /\ Begins(t, c, "acquiring")
    /\ UNCHANGED <<client, through, held, flock, deaths>>

\* The path is in this thread's own set: entered, without the lock.
Reenter(t) ==
    /\ Works(t, "acquiring") /\ t \in held
    /\ Returns(t, "entered")
    /\ UNCHANGED <<through, held, flock, deaths>>

Acquire(t) ==
    /\ Works(t, "acquiring") /\ t \notin held /\ flock = Nobody
    /\ thread[t].for # NoClient
    /\ Returns(t, "entered")
    /\ through' = through \cup {thread[t].for}
    /\ flock' = ByClient(thread[t].for)
    /\ held' = held \cup {t}
    /\ UNCHANGED deaths

\* A bug: what was acquired for nobody is never released.
AcquireAndForget(t) ==
    /\ Works(t, "acquiring") /\ t \notin held /\ flock = Nobody
    /\ thread[t].for = NoClient
    /\ thread' = [thread EXCEPT ![t] = Idle]
    /\ flock' = ByThread(t)
    /\ held' = held \cup {t}
    /\ UNCHANGED <<client, through, deaths>>

\* The thread of a cancelled client acquires the lock all the same.
AcquireForNobody(t) ==
    /\ Works(t, "acquiring") /\ t \notin held /\ flock = Nobody
    /\ thread[t].for = NoClient
    /\ thread' = [thread EXCEPT ![t].mode = "releasing"]
    /\ flock' = ByThread(t)
    /\ held' = held \cup {t}
    /\ UNCHANGED <<client, through, deaths>>

\* TimeoutError: the turn answers that the session is busy, the rename conflicts.
GiveUp(t) ==
    /\ Works(t, "acquiring") /\ t \notin held /\ flock # Nobody
    /\ Returns(t, "idle")
    /\ UNCHANGED <<through, held, flock, deaths>>

\* The task resumes inside the lease.
ComeIn(c) ==
    /\ client[c] = "entered"
    /\ client' = [client EXCEPT ![c] = "in"]
    /\ UNCHANGED <<through, thread, held, flock, deaths>>

---------------------------------------------------------------------------
(* Leaving                                                                 *)

\* The finally: to_thread(cm.__exit__).
Leave(c) ==
    /\ client[c] = "in"
    /\ client' = [client EXCEPT ![c] = "leaving"]
    /\ UNCHANGED <<through, thread, held, flock, deaths>>

\* On any idle thread.  A client that entered without the lock releases nothing.
ExitBegins(c, t) ==
    /\ client[c] = "leaving"
    /\ Begins(t, c, "releasing")
    /\ through' = through \ {c}
    /\ flock' = IF c \in through THEN ByThread(t) ELSE flock
    /\ UNCHANGED <<client, held, deaths>>

\* The thread that unlocks takes the path out of its own set, whichever thread locked.
Release(t) ==
    /\ Works(t, "releasing")
    /\ Returns(t, "idle")
    /\ IF flock = ByThread(t) THEN flock' = Nobody /\ held' = held \ {t}
       ELSE UNCHANGED <<held, flock>>
    /\ UNCHANGED <<through, deaths>>

\* A bug: the context manager of a cancelled exit is still referred to, so nothing closes it.
DropReferenced(t) ==
    /\ thread[t] = Idle /\ flock = ByQueue(Proc(t))
    /\ UNCHANGED vars

\* A cancelled exit that a thread takes off the pool's queue and drops: nobody refers
\* to the context manager any more, and closing it unlocks the file.
Drop(t) ==
    /\ thread[t] = Idle /\ flock = ByQueue(Proc(t))
    /\ flock' = Nobody /\ held' = held \ {t}
    /\ UNCHANGED <<client, through, thread, deaths>>

---------------------------------------------------------------------------
(* Cancellation and death                                                  *)

Forsaken(c) == [t \in Threads |-> IF Serves(t, c) THEN [thread[t] EXCEPT !.for = NoClient]
                                  ELSE thread[t]]

\* A bug: the thread of a cancelled client goes on for it.
CancelUnnoticed(c) ==
    /\ client[c] = "entering"
    /\ client' = [client EXCEPT ![c] = "idle"]
    /\ UNCHANGED <<through, thread, held, flock, deaths>>

\* The task is cancelled while it awaits its enter: queued, the call is withdrawn;
\* running, its thread cannot be stopped.
Cancel(c) ==
    /\ client[c] = "entering"
    /\ client' = [client EXCEPT ![c] = "idle"]
    /\ thread' = Forsaken(c)
    /\ UNCHANGED <<through, held, flock, deaths>>

\* ... or between the thread's return and its own resumption: the generator is closed
\* on the event loop's thread, which leaves the path in the set of the pool thread.
CancelEntered(c) ==
    /\ client[c] = "entered"
    /\ client' = [client EXCEPT ![c] = "idle"]
    /\ through' = through \ {c}
    /\ flock' = IF c \in through THEN Nobody ELSE flock
    /\ UNCHANGED <<thread, held, deaths>>

\* ... or, a second time, while it awaits its exit: a running exit goes on without it,
\* a queued one stays in the pool's queue until a thread drops it.
CancelLeaving(c) ==
    /\ client[c] = "leaving"
    /\ client' = [client EXCEPT ![c] = "idle"]
    /\ thread' = Forsaken(c)
    /\ through' = through \ {c}
    /\ flock' = IF c \in through THEN ByQueue(Proc(c)) ELSE flock
    /\ UNCHANGED <<held, deaths>>

\* The OS releases what a dead process had locked.
Die(p) ==
    /\ deaths < MaxDeaths
    /\ client' = [c \in Clients |-> IF Proc(c) = p THEN "idle" ELSE client[c]]
    /\ through' = {c \in through : Proc(c) # p}
    /\ thread' = [t \in Threads |-> IF Proc(t) = p THEN Idle ELSE thread[t]]
    /\ held' = {t \in held : Proc(t) # p}
    /\ flock' = IF flock # Nobody /\ Proc(flock[2]) = p THEN Nobody ELSE flock
    /\ deaths' = deaths + 1

Next ==
    \/ \E c \in Clients :
         \/ Enter(c) \/ ComeIn(c) \/ Leave(c)
         \/ Cancel(c) \/ CancelEntered(c) \/ CancelLeaving(c)
         \/ \E t \in Threads : EnterBegins(c, t) \/ ExitBegins(c, t)
    \/ \E t \in Threads :
         \/ Reenter(t) \/ Acquire(t) \/ AcquireForNobody(t) \/ GiveUp(t)
         \/ Release(t) \/ Drop(t)
    \/ \E p \in Procs : Die(p)

Spec == Init /\ [][Next]_vars

\* A call that runs ends (the poll for the lock has a timeout), and the pool takes its
\* queue in order, so what was queued gets its turn among the calls that keep coming.
Fairness ==
    /\ \A t \in Threads : WF_vars(Reenter(t)) /\ WF_vars(GiveUp(t)) /\ WF_vars(Release(t))
    /\ \A p \in Procs : SF_vars(\E t \in Threads : Proc(t) = p /\ Drop(t))
FairSpec == Spec /\ Fairness

---------------------------------------------------------------------------
TypeOK ==
    /\ client \in [Clients -> {"idle", "entering", "entered", "in", "leaving"}]
    /\ through \subseteq Clients
    /\ thread \in [Threads -> [for : Clients \cup {NoClient},
                               mode : {"idle", "acquiring", "releasing"}]]
    /\ held \subseteq Threads
    /\ flock \in Owners \cup {Nobody}
    /\ deaths \in Nat

In(c) == client[c] = "in"

\* A client that awaits a call has at most one thread of its process working for it, at what
\* it awaits: an answer that comes after the client was cancelled is never taken for the
\* answer to a later try.
OneThreadWorks ==
    /\ \A t \in Threads :
         thread[t].for # NoClient =>
           /\ Proc(thread[t].for) = Proc(t)
           /\ \/ Works(t, "acquiring") /\ client[thread[t].for] = "entering"
              \/ Works(t, "releasing") /\ client[thread[t].for] = "leaving"
    /\ \A t, u \in Threads :
         thread[t].for = thread[u].for /\ thread[t].for # NoClient => t = u

\* The clients and the threads that act for them agree.
LeaseConsistent == TypeOK /\ OneThreadWorks

\* The file is locked only while a client that locked it has yet to leave, or a thread is
\* about to unlock it, or an exit in the pool's queue is: nothing else keeps the lock, and
\* whoever locked the file keeps it until it leaves, whatever others enter and leave
\* meanwhile without it (turn_lease.py, file_lock.py).
LockHasAHolder ==
    /\ \A c \in through : flock = ByClient(c) /\ client[c] \in {"entered", "in", "leaving"}
    /\ \A c \in Clients : flock = ByClient(c) => c \in through
    /\ \A t \in Threads : flock = ByThread(t) => Works(t, "releasing")

\* A lock that no client has any more, because a cancellation came in the way of its enter
\* or its exit, is given back in the end: the next turn does not wait for a death.
OrphanedLock == flock # Nobody /\ \A c \in Clients : flock # ByClient(c)
LockGivenBack == OrphanedLock ~> ~OrphanedLock

\* Processes exclude each other: "the gateway and the TUI's own AgentLoop cannot run
\* concurrent turns on one session_key" (turn_lease.py:3-5).
ProcessesExclude == \A c, d \in Clients : In(c) /\ In(d) => Proc(c) = Proc(d)
===========================================================================
