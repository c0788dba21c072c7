--------------------------- MODULE MCAutomations ---------------------------
(* TLC instances of Automations. *)
EXTENDS Automations

CONSTANTS mail, digest, e1, e2, t1

\* Both events are for the first automation, one of them a message on the thread.
AllOfA        == [e \in Events |-> mail]
FirstOnThread == [e \in Events |-> IF e = e1 THEN t1 ELSE NoThread]
AThenB        == [x \in Autos |-> IF x = mail THEN Autos \ {mail} ELSE {}]
OnlyAAsks     == [x \in Autos |-> IF x = mail THEN 1 ELSE 0]

\* Nothing but messages on the thread, for the statements below.
AllOnThread   == [e \in Events |-> t1]
SecondOfB     == [e \in Events |-> IF e = e2 THEN digest ELSE mail]
NoChain       == [x \in Autos |-> {}]

---------------------------------------------------------------------------
(* What the repository's docs say and the code does not do; the README tells  *)
(* the behaviour that TLC finds for it when it is made a property of a run.   *)

\* A message that meets a taken slot is "queued (single concurrency, an active/pending
\* run already exists)" (matcher.py:272-274): while it is queued there is such a run,
\* or a fire that will become one.
QueuedBehindARun == \A x \in Single : queue[x] # <<>> /\ enabled[x] => Watched(x)

\* A claim is given back by the run it is for (matcher.py:366-376, "a no-op in the
\* common case where the claim is already gone"): a run that goes on waiting keeps it.
ClaimsOfOthersKept ==
    [][\A t \in Threads :
         claims[t] # NoRun /\ runs[claims[t]].waits = t /\ claims'[t] = NoRun
           => runs'[claims[t]].waits # t]_vars
=============================================================================
