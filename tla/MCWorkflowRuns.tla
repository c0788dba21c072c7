--------------------------- MODULE MCWorkflowRuns ---------------------------
(* TLC instances of WorkflowRuns. *)
EXTENDS WorkflowRuns

CONSTANTS p1, p2

---------------------------------------------------------------------------
(* What the repository's docs say and the code does not do; the README tells  *)
(* the behaviour that TLC finds for each when it is made a property of a run. *)

\* "exactly one of a racing pair wins" (run_log.py:23-24): a run is walked by one at a time.
OneWalk == \A c, d \in Calls :
             /\ At(c, "walking") \/ At(c, "ending")
             /\ At(d, "walking") \/ At(d, "ending")
             => c = d

\* A run that was cancelled while it was paused stays so ("a finished run is already
\* final", service/workflows.py:1124-1126).
CancelHolds == [][rec.status = "cancelled" => rec'.status = "cancelled"]_vars

\* "the manifest is terminal" implies "the flag is already cleared"
\* (service/workflows.py:967-969).
TerminalMeansCleared == ~Running => flags = {}
=============================================================================
