---------------------------- MODULE MCTurnLease ----------------------------
(* TLC instances of TurnLease. *)
EXTENDS TurnLease
CONSTANTS gateway, tui, turn, rename

\* Both processes run turns; the rename is the gateway's.
SomeClients == {<<gateway, turn>>, <<gateway, rename>>, <<tui, turn>>}
SomeThreads == {<<gateway, 1>>, <<gateway, 2>>, <<tui, 1>>}

(* What the repository's docs say and the code does not do; the README tells  *)
(* the behaviour that TLC finds for each when it is made a property of a run. *)

\* Turns and savers exclude each other: "a concurrent agent turn cannot clobber the
\* rename's whole-file write" (service/sessions.py:263-264).
OneInside == \A c, d \in Clients : In(c) /\ In(d) => c = d
===========================================================================
