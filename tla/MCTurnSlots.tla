---------------------------- MODULE MCTurnSlots ----------------------------
(* TurnSlots on three turns, a sub-agent and small caps, for TLC. *)
EXTENDS TurnSlots, TLC
CONSTANTS t1, t2, t3, s1

---------------------------------------------------------------------------
(* What the repository's docs say and the code does not do; the README tells  *)
(* the behaviour that TLC finds for each when it is made a property of a run. *)

\* Everyone blocked on the ceiling waits for turns that themselves wait for a
\* child blocked on the ceiling.  subagent.py:433-436: "acquiring the shared
\* ceiling here cannot deadlock a parent that's holding it -- the parent has
\* already returned by this point".
CeilingNotStalled ==
    ~ /\ Cardinality(Holders("ceiling")) = CeilingLimit
      /\ \A u \in Holders("ceiling") :
            /\ u \in Turns /\ pc[u] = "children"
            /\ \A s \in Children(u) : sub[s] = "queued"
===========================================================================
