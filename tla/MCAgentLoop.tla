---------------------------- MODULE MCAgentLoop ----------------------------
(* TLC instances of AgentLoop. *)
EXTENDS AgentLoop, TLC

Symmetry == Permutations(Turns) \cup Permutations(Keys)
TurnSymmetry == Permutations(Turns)

---------------------------------------------------------------------------
(* What the repository's docs say and the code does not do; the README tells  *)
(* the behaviour that TLC finds for each when it is made a property of a run. *)

\* "This task owns the queues' lifecycle" (loop.py:2803-2804): the queues a session's
\* follow-ups join belong to a task that will drain them.
NoDeadQueues == \A k \in Keys : registered[k] # None => Live(registered[k])

\* The drain journals what "the gateway still owes a turn to" (loop.py:3095-3096).
NoneAnsweredAgain == \A i \in Ids : fate[i] # "again"

\* One session's messages are journaled in the order they were sent
\* (loop.py:3097-3101).
JournalInOrder ==
    \A k \in Keys : \A i, j \in 1..Len(journal[k]) :
        i < j /\ journal[k][i].kind = journal[k][j].kind => journal[k][i].id < journal[k][j].id
===========================================================================
