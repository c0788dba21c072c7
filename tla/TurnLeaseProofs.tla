-------------------------- MODULE TurnLeaseProofs --------------------------
(***************************************************************************)
(* Proofs about TurnLease, for any set of processes, threads and clients:  *)
(* the typing invariant, that the lock is never left behind, and that the  *)
(* clients exclude each other as long as no thread takes a stale mark for  *)
(* the lock.                                                               *)
(***************************************************************************)
EXTENDS TurnLease, TLAPS

LEMMA Pairs == \A x \in Clients \cup Threads : Proc(x) \in Procs
BY RolesAssumption, ThreadsAssumption DEF Proc

LEMMA OwnersDiffer ==
    /\ \A c \in Clients : ByClient(c) \in Owners /\ ByClient(c) # Nobody
    /\ \A t \in Threads : ByThread(t) \in Owners /\ ByThread(t) # Nobody
    /\ \A p \in Procs : ByQueue(p) \in Owners /\ ByQueue(p) # Nobody
    /\ \A c, d \in Clients : ByClient(c) = ByClient(d) => c = d
    /\ \A t, u \in Threads : ByThread(t) = ByThread(u) => t = u
    /\ \A c \in Clients, t \in Threads : ByClient(c) # ByThread(t)
    /\ \A c \in Clients, p \in Procs : ByClient(c) # ByQueue(p)
    /\ \A t \in Threads, p \in Procs : ByThread(t) # ByQueue(p)
BY DEF ByClient, ByThread, ByQueue, Owners, Nobody

LEMMA OwnersProc ==
    /\ \A c \in Clients : Proc(ByClient(c)[2]) = Proc(c)
    /\ \A t \in Threads : Proc(ByThread(t)[2]) = Proc(t)
BY DEF ByClient, ByThread, Proc

---------------------------------------------------------------------------
(* Types, and one thread that works for a client                           *)

LEMMA LeaseInit == Init => LeaseConsistent
BY DeathsAssumption DEF Init, LeaseConsistent, TypeOK, OneThreadWorks, Idle

LEMMA TypeStep ==
    ASSUME LeaseConsistent, [Next]_vars
    PROVE  TypeOK'
<1> USE RolesAssumption, Pairs, OwnersDiffer DEF LeaseConsistent, TypeOK, Idle, Works, Serves
<1>1. ASSUME NEW c \in Clients, Enter(c) PROVE TypeOK'
    BY <1>1 DEF Enter
<1>2. ASSUME NEW c \in Clients, ComeIn(c) PROVE TypeOK'
    BY <1>2 DEF ComeIn
<1>3. ASSUME NEW c \in Clients, Leave(c) PROVE TypeOK'
    BY <1>3 DEF Leave
<1>4. ASSUME NEW c \in Clients, Cancel(c) PROVE TypeOK'
    BY <1>4 DEF Cancel, Forsaken
<1>5. ASSUME NEW c \in Clients, CancelEntered(c) PROVE TypeOK'
    BY <1>5 DEF CancelEntered
<1>6. ASSUME NEW c \in Clients, CancelLeaving(c) PROVE TypeOK'
    BY <1>6 DEF CancelLeaving, Forsaken
<1>7. ASSUME NEW c \in Clients, NEW t \in Threads, EnterBegins(c, t) PROVE TypeOK'
    BY <1>7 DEF EnterBegins, Begins
<1>8. ASSUME NEW c \in Clients, NEW t \in Threads, ExitBegins(c, t) PROVE TypeOK'
    BY <1>8 DEF ExitBegins, Begins
<1>9. ASSUME NEW t \in Threads, Reenter(t) PROVE TypeOK'
    BY <1>9 DEF Reenter, Returns
<1>10. ASSUME NEW t \in Threads, Acquire(t) PROVE TypeOK'
    BY <1>10 DEF Acquire, Returns
<1>11. ASSUME NEW t \in Threads, AcquireForNobody(t) PROVE TypeOK'
    BY <1>11 DEF AcquireForNobody
<1>12. ASSUME NEW t \in Threads, GiveUp(t) PROVE TypeOK'
    BY <1>12 DEF GiveUp, Returns
<1>13. ASSUME NEW t \in Threads, Release(t) PROVE TypeOK'
    BY <1>13 DEF Release, Returns
<1>14. ASSUME NEW t \in Threads, Drop(t) PROVE TypeOK'
    BY <1>14 DEF Drop
<1>15. ASSUME NEW p \in Procs, Die(p) PROVE TypeOK'
    BY <1>15, DeathsAssumption DEF Die
<1>16. CASE UNCHANGED vars
    BY <1>16 DEF vars
<1>17. QED
    BY <1>1, <1>2, <1>3, <1>4, <1>5, <1>6, <1>7, <1>8, <1>9, <1>10, <1>11, <1>12, <1>13,
        <1>14, <1>15, <1>16 DEF Next

LEMMA WorksStep ==
    ASSUME LeaseConsistent, [Next]_vars
    PROVE  OneThreadWorks'
<1> USE RolesAssumption DEF LeaseConsistent, TypeOK, OneThreadWorks, Idle, Works, Serves
<1>1. ASSUME NEW c \in Clients, Enter(c) PROVE OneThreadWorks'
    BY <1>1 DEF Enter
<1>2. ASSUME NEW c \in Clients, ComeIn(c) PROVE OneThreadWorks'
    BY <1>2 DEF ComeIn
<1>3. ASSUME NEW c \in Clients, Leave(c) PROVE OneThreadWorks'
    BY <1>3 DEF Leave
<1>4. ASSUME NEW c \in Clients, Cancel(c) PROVE OneThreadWorks'
    BY <1>4 DEF Cancel, Forsaken
<1>5. ASSUME NEW c \in Clients, CancelEntered(c) PROVE OneThreadWorks'
    BY <1>5 DEF CancelEntered
<1>6. ASSUME NEW c \in Clients, CancelLeaving(c) PROVE OneThreadWorks'
    BY <1>6 DEF CancelLeaving, Forsaken
<1>7. ASSUME NEW c \in Clients, NEW t \in Threads, EnterBegins(c, t) PROVE OneThreadWorks'
    BY <1>7 DEF EnterBegins, Begins
<1>8. ASSUME NEW c \in Clients, NEW t \in Threads, ExitBegins(c, t) PROVE OneThreadWorks'
    BY <1>8 DEF ExitBegins, Begins
<1>9. ASSUME NEW t \in Threads, Reenter(t) PROVE OneThreadWorks'
    BY <1>9 DEF Reenter, Returns
<1>10. ASSUME NEW t \in Threads, Acquire(t) PROVE OneThreadWorks'
    BY <1>10 DEF Acquire, Returns
<1>11. ASSUME NEW t \in Threads, AcquireForNobody(t) PROVE OneThreadWorks'
    BY <1>11 DEF AcquireForNobody
<1>12. ASSUME NEW t \in Threads, GiveUp(t) PROVE OneThreadWorks'
    BY <1>12 DEF GiveUp, Returns
<1>13. ASSUME NEW t \in Threads, Release(t) PROVE OneThreadWorks'
    BY <1>13 DEF Release, Returns
<1>14. ASSUME NEW t \in Threads, Drop(t) PROVE OneThreadWorks'
    BY <1>14 DEF Drop
<1>15. ASSUME NEW p \in Procs, Die(p) PROVE OneThreadWorks'
    BY <1>15, DeathsAssumption DEF Die
<1>16. CASE UNCHANGED vars
    BY <1>16 DEF vars
<1>17. QED
    BY <1>1, <1>2, <1>3, <1>4, <1>5, <1>6, <1>7, <1>8, <1>9, <1>10, <1>11, <1>12, <1>13,
        <1>14, <1>15, <1>16 DEF Next

\* The types, and that a client waits on at most one thread, which works at what it
\* awaits (turn_lease.py).
THEOREM LeaseIsConsistent == Spec => []LeaseConsistent
<1>1. LeaseConsistent /\ [Next]_vars => LeaseConsistent'
    BY TypeStep, WorksStep DEF LeaseConsistent
<1>2. QED
    BY LeaseInit, <1>1, PTL DEF Spec

---------------------------------------------------------------------------
(* The lock is never left behind                                           *)

\* LockHasAHolder, and that a thread which leaves for a client has taken over its lock.
Hold ==
    /\ LockHasAHolder
    /\ \A t \in Threads : Works(t, "releasing") => thread[t].for \notin through

LEMMA HoldInit == Init => Hold
BY OwnersDiffer DEF Init, Hold, LockHasAHolder, Works, Idle

\* A client that locked the file stays on until it hands the unlocking to a thread, to the
\* pool's queue, or does it itself: whoever is sent back to idle has nothing to unlock.
LEMMA HoldStep ==
    ASSUME LeaseConsistent, Hold, [Next]_vars
    PROVE  Hold'
<1> USE RolesAssumption, OwnersDiffer DEF LeaseConsistent, TypeOK, OneThreadWorks, Idle, Works,
        Serves, Hold, LockHasAHolder
<1>1. ASSUME NEW c \in Clients, Enter(c) PROVE Hold'
    BY <1>1, Pairs, OwnersProc DEF Enter
<1>2. ASSUME NEW c \in Clients, ComeIn(c) PROVE Hold'
    BY <1>2, Pairs, OwnersProc DEF ComeIn
<1>3. ASSUME NEW c \in Clients, Leave(c) PROVE Hold'
    BY <1>3, Pairs, OwnersProc DEF Leave
<1>4. ASSUME NEW c \in Clients, Cancel(c) PROVE Hold'
    BY <1>4, Pairs, OwnersProc DEF Cancel, Forsaken
<1>5. ASSUME NEW c \in Clients, CancelEntered(c) PROVE Hold'
    BY <1>5, Pairs, OwnersProc DEF CancelEntered
<1>6. ASSUME NEW c \in Clients, CancelLeaving(c) PROVE Hold'
  <2>1. \A t \in Threads : Works(t, "releasing")' => Works(t, "releasing")
                             /\ thread'[t].for \in {thread[t].for, NoClient}
    BY <1>6 DEF CancelLeaving, Forsaken
  <2>2. through' = through \ {c} /\ (c \in through => through = {c})
    BY <1>6 DEF CancelLeaving
  <2>3. Proc(c) \in Procs
    BY Pairs
  <2>4. CASE c \in through
    <3>1. through' = {} /\ flock' = ByQueue(Proc(c))
        BY <1>6, <2>2, <2>4 DEF CancelLeaving
    <3>2. \A d \in Clients : flock' # ByClient(d)
        BY <3>1, <2>3
    <3>3. \A t \in Threads : flock' # ByThread(t)
        BY <3>1, <2>3, <1>6
    <3>4. QED
        BY <3>1, <3>2, <3>3
  <2>5. CASE c \notin through
    BY <1>6, <2>1, <2>2, <2>5 DEF CancelLeaving, Forsaken
  <2>6. QED
    BY <2>4, <2>5
<1>7. ASSUME NEW c \in Clients, NEW t \in Threads, EnterBegins(c, t) PROVE Hold'
    BY <1>7, Pairs, OwnersProc DEF EnterBegins, Begins
<1>8. ASSUME NEW c \in Clients, NEW t \in Threads, ExitBegins(c, t) PROVE Hold'
    BY <1>8, Pairs, OwnersProc DEF ExitBegins, Begins
<1>9. ASSUME NEW t \in Threads, Reenter(t) PROVE Hold'
    BY <1>9, Pairs, OwnersProc DEF Reenter, Returns
<1>10. ASSUME NEW t \in Threads, Acquire(t) PROVE Hold'
    BY <1>10, Pairs, OwnersProc DEF Acquire, Returns
<1>11. ASSUME NEW t \in Threads, AcquireForNobody(t) PROVE Hold'
    BY <1>11, Pairs, OwnersProc DEF AcquireForNobody
<1>12. ASSUME NEW t \in Threads, GiveUp(t) PROVE Hold'
    BY <1>12, Pairs, OwnersProc DEF GiveUp, Returns
<1>13. ASSUME NEW t \in Threads, Release(t) PROVE Hold'
    BY <1>13, Pairs, OwnersProc DEF Release, Returns
<1>14. ASSUME NEW t \in Threads, Drop(t) PROVE Hold'
    BY <1>14, Pairs, OwnersProc DEF Drop
<1>15. ASSUME NEW p \in Procs, Die(p) PROVE Hold'
    BY <1>15, DeathsAssumption, Pairs, OwnersProc DEF Die
<1>16. CASE UNCHANGED vars
    BY <1>16 DEF vars
<1>17. QED
    BY <1>1, <1>2, <1>3, <1>4, <1>5, <1>6, <1>7, <1>8, <1>9, <1>10, <1>11, <1>12, <1>13,
        <1>14, <1>15, <1>16 DEF Next

\* The file is locked for nobody but a client that has yet to leave, a thread about to unlock
\* it or an exit in the pool's queue, and who locked it keeps it (turn_lease.py, file_lock.py),
\* for any processes, threads, clients and deaths, and a cancellation at every await.
THEOREM LeaseNeverLeftBehind == Spec => []LockHasAHolder
<1>1. LeaseConsistent /\ [Next]_vars => LeaseConsistent'
    BY TypeStep, WorksStep DEF LeaseConsistent
<1>2. Hold => LockHasAHolder
    BY DEF Hold
<1>3. QED
    BY LeaseInit, <1>1, <1>2, HoldInit, HoldStep, PTL DEF Spec

---------------------------------------------------------------------------
(* What the stale marks break, and nothing else does                       *)

\* Some thread takes a mark in its own set for the lock.
Reentered == \E t \in Threads : Reenter(t)

\* Whoever is in, or about to be, locked the file.
LockersOnly == \A c \in Clients : client[c] \in {"entered", "in"} => c \in through

LEMMA LockersInit == Init => LockersOnly
BY DEF Init, LockersOnly

LEMMA LockersStep ==
    ASSUME LeaseConsistent, LockersOnly, [Next]_vars, [~Reentered]_vars
    PROVE  LockersOnly'
<1> USE RolesAssumption DEF LeaseConsistent, TypeOK, OneThreadWorks, Idle, Works, Serves,
    LockersOnly
<1>1. ASSUME NEW c \in Clients, Enter(c) PROVE LockersOnly'
    BY <1>1 DEF Enter
<1>2. ASSUME NEW c \in Clients, ComeIn(c) PROVE LockersOnly'
    BY <1>2 DEF ComeIn
<1>3. ASSUME NEW c \in Clients, Leave(c) PROVE LockersOnly'
    BY <1>3 DEF Leave
<1>4. ASSUME NEW c \in Clients, Cancel(c) PROVE LockersOnly'
    BY <1>4 DEF Cancel, Forsaken
<1>5. ASSUME NEW c \in Clients, CancelEntered(c) PROVE LockersOnly'
    BY <1>5 DEF CancelEntered
<1>6. ASSUME NEW c \in Clients, CancelLeaving(c) PROVE LockersOnly'
    BY <1>6 DEF CancelLeaving, Forsaken
<1>7. ASSUME NEW c \in Clients, NEW t \in Threads, EnterBegins(c, t) PROVE LockersOnly'
    BY <1>7 DEF EnterBegins, Begins
<1>8. ASSUME NEW c \in Clients, NEW t \in Threads, ExitBegins(c, t) PROVE LockersOnly'
    BY <1>8 DEF ExitBegins, Begins
<1>9. ASSUME NEW t \in Threads, Reenter(t) PROVE LockersOnly'
    BY <1>9 DEF Reentered, vars
<1>10. ASSUME NEW t \in Threads, Acquire(t) PROVE LockersOnly'
    BY <1>10 DEF Acquire, Returns
<1>11. ASSUME NEW t \in Threads, AcquireForNobody(t) PROVE LockersOnly'
    BY <1>11 DEF AcquireForNobody
<1>12. ASSUME NEW t \in Threads, GiveUp(t) PROVE LockersOnly'
    BY <1>12 DEF GiveUp, Returns
<1>13. ASSUME NEW t \in Threads, Release(t) PROVE LockersOnly'
    BY <1>13 DEF Release, Returns
<1>14. ASSUME NEW t \in Threads, Drop(t) PROVE LockersOnly'
    BY <1>14 DEF Drop
<1>15. ASSUME NEW p \in Procs, Die(p) PROVE LockersOnly'
    BY <1>15, DeathsAssumption DEF Die
<1>16. CASE UNCHANGED vars
    BY <1>16 DEF vars
<1>17. QED
    BY <1>1, <1>2, <1>3, <1>4, <1>5, <1>6, <1>7, <1>8, <1>9, <1>10, <1>11, <1>12, <1>13,
        <1>14, <1>15, <1>16 DEF Next

\* As long as no thread takes a stale mark for the lock, one client at a time is inside the
\* lease, turns and renames of all processes together (turn_lease.py:3-5 and
\* service/sessions.py:263-264): cancellations, timeouts and deaths break nothing.
THEOREM ExcludesUntilReentered ==
    Spec /\ [][~Reentered]_vars
        => [](\A c, d \in Clients : In(c) /\ In(d) => c = d)
<1>1. LeaseConsistent /\ [Next]_vars => LeaseConsistent'
    BY TypeStep, WorksStep DEF LeaseConsistent
<1>2. LeaseConsistent /\ LockersOnly /\ [Next]_vars /\ [~Reentered]_vars => LockersOnly'
    BY LockersStep
<1>3. Hold /\ LockersOnly => \A c, d \in Clients : In(c) /\ In(d) => c = d
    BY OwnersDiffer DEF Hold, LockHasAHolder, LockersOnly, In
<1>4. QED
    BY LeaseInit, <1>1, <1>2, <1>3, HoldInit, HoldStep, LockersInit, PTL DEF Spec
===========================================================================
