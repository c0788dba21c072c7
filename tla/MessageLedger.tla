---------------------------- MODULE MessageLedger ----------------------------
(***************************************************************************)
(* What the inbound path promises, whatever its queues do: a message that  *)
(* was accepted is owed an outcome until it gets exactly one, and it does  *)
(* get one.  There is no step from "owed" to anything but "settled".       *)
(***************************************************************************)
CONSTANT Messages

VARIABLE ledger

Init == ledger = [m \in Messages |-> "unsent"]

Accept(m) ==
    /\ ledger[m] = "unsent"
    /\ ledger' = [ledger EXCEPT ![m] = "owed"]

\* A turn settles the message it answers and the follow-ups it took at once.
SettleAll(S) ==
    /\ S # {} /\ \A m \in S : ledger[m] = "owed"
    /\ ledger' = [m \in Messages |-> IF m \in S THEN "settled" ELSE ledger[m]]

Next ==
    \/ \E m \in Messages : Accept(m)
    \/ \E S \in SUBSET Messages : SettleAll(S)

Spec == Init /\ [][Next]_ledger

EventuallySettled == \A m \in Messages : ledger[m] = "owed" ~> ledger[m] = "settled"
===========================================================================
