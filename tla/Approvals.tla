----------------------------- MODULE Approvals -----------------------------
(***************************************************************************)
(* Approvals and the answers a turn waits for: a privileged request filed   *)
(* as a record on disk (durin/agent/approval.py, approval_store.py), the    *)
(* turn of a chat that waits in the loop for a verdict or for the answer to *)
(* a question (approval_prompt.py, tools/ask_user.py, pending_answers.py),  *)
(* and everyone who may settle the record meanwhile: the person in the      *)
(* chat, a click in the web UI (the same process), the command line         *)
(* (another process) and the housekeeping.  Records change by               *)
(* compare-and-set under a file lock; everything else is memory of the      *)
(* gateway and goes when it dies.                                           *)
(***************************************************************************)
EXTENDS Naturals, Sequences, FiniteSets

CONSTANTS
    Asks,        \* what turns ask for: "approval", "question"
    MaxRecords,  \* bound on the records filed
    MaxAsks,     \* bound on how often turns ask
    Kinds,       \* what may disturb them, of the kinds below
    MaxDisturbed \* bound on how often something does

ASSUME AsksAssumption  == Asks \subseteq {"approval", "question"}
ASSUME KindsAssumption == Kinds \subseteq {"stop", "crash", "change"}
ASSUME BoundAssumption == MaxRecords \in Nat /\ MaxAsks \in Nat /\ MaxDisturbed \in Nat

VARIABLES
    recs,      \* disk: the records
    running,   \* who carries each approved record out, "nobody" if no one does
    turn,      \* the session's turn
    waiter,    \* _WAITERS of the session: the turn's future, one left behind, or none
    handoff,   \* _HANDOFF_DECIDED_BY
    asked,     \* how often turns have asked
    disturbed  \* stops, crashes and changed targets so far

vars == <<recs, running, turn, waiter, handoff, asked, disturbed>>

Verdicts == {"approve", "reject"}
Deciders == {"chat", "web", "cli"}
Terminal == {"rejected", "applied", "failed", "stale", "expired"}
Ids      == DOMAIN recs

\* fut is the state of the turn's future, reply what a person put into it, late the
\* timeout's cancellation on its way, answer what the wait returned.
Idle == [pc |-> "idle", kind |-> "none", rec |-> 0, fut |-> "none", reply |-> "none",
         late |-> FALSE, answer |-> "none"]
At(pc) == turn.pc = pc

Init ==
    /\ recs = <<>> /\ running = <<>> /\ handoff = <<>>
    /\ turn = Idle /\ waiter = "none"
    /\ asked = 0 /\ disturbed = 0

Disturb(kind) ==
    /\ kind \in Kinds /\ disturbed < MaxDisturbed
    /\ disturbed' = disturbed + 1

NewRecord(status, by) == [status |-> status, by |-> by, changed |-> FALSE, runs |-> 0]

\* create, with an entry for the record in the two tables.
Filed(status, by) ==
    /\ recs' = Append(recs, NewRecord(status, by))
    /\ running' = Append(running, IF status = "approved" THEN by ELSE "nobody")
    /\ handoff' = Append(handoff, "none")

\* find_pending: the same request filed before and still undecided.
Pending == {i \in Ids : recs[i].status = "pending"}

\* transition: None, and no change, unless the record is still as expected.
Transition(i, expect, to, by) ==
    IF recs[i].status # expect THEN recs
    ELSE [recs EXCEPT ![i].status = to, ![i].by = IF by = "none" THEN @ ELSE by]

\* A bug: an approval is carried out by everyone who gave it.
DecidedAnyhow(i, verdict, by) ==
    IF verdict = "approve"
    THEN /\ recs' = Transition(i, "pending", "approved", by)
         /\ running' = [running EXCEPT ![i] = by]
    ELSE recs' = Transition(i, "pending", "rejected", by) /\ UNCHANGED running

\* _apply_decision: the one who moves the record out of "pending" carries it out.
Decided(i, verdict, by) ==
    IF verdict = "approve"
    THEN /\ recs' = Transition(i, "pending", "approved", by)
         /\ running' = IF recs[i].status = "pending" THEN [running EXCEPT ![i] = by] ELSE running
    ELSE recs' = Transition(i, "pending", "rejected", by) /\ UNCHANGED running

---------------------------------------------------------------------------
(* The turn                                                                *)

\* request, up to the asker's first await: the record is found or filed.
AskApproval ==
    /\ At("idle") /\ "approval" \in Asks /\ asked < MaxAsks
    /\ asked' = asked + 1
    /\ \/ /\ Pending # {}
          /\ \E i \in Pending : turn' = [Idle EXCEPT !.pc = "asking", !.kind = "approval", !.rec = i]
          /\ UNCHANGED <<recs, running, handoff>>
       \/ /\ Pending = {} /\ Len(recs) < MaxRecords
          /\ Filed("pending", "none")
          /\ turn' = [Idle EXCEPT !.pc = "asking", !.kind = "approval", !.rec = Len(recs) + 1]
    /\ UNCHANGED <<waiter, disturbed>>

\* request without an asker (a program takes part in the turn): the record is filed.
FileOnly ==
    /\ At("idle") /\ "approval" \in Asks /\ asked < MaxAsks
    /\ Pending = {} /\ Len(recs) < MaxRecords
    /\ asked' = asked + 1
    /\ Filed("pending", "none")
    /\ UNCHANGED <<turn, waiter, disturbed>>

\* The judge clears the request: a record filed before is approved, or a new one.
JudgeClears ==
    /\ At("idle") /\ "approval" \in Asks /\ asked < MaxAsks
    /\ asked' = asked + 1
    /\ \/ \E i \in Pending :
            /\ Decided(i, "approve", "judge")
            /\ turn' = [Idle EXCEPT !.pc = "running", !.kind = "approval", !.rec = i]
            /\ UNCHANGED handoff
       \/ /\ Pending = {} /\ Len(recs) < MaxRecords
          /\ Filed("approved", "judge")
          /\ turn' = [Idle EXCEPT !.pc = "running", !.kind = "approval", !.rec = Len(recs) + 1]
    /\ UNCHANGED <<waiter, disturbed>>

\* pending_answers.create: the future is registered, one left behind is cancelled.
\* The approval's asker awaits it at once, ask_user pushes the session's state first.
Register ==
    /\ At("asking")
    /\ turn' = [turn EXCEPT !.pc = "waiting", !.fut = "open"]
    /\ waiter' = "turn"
    /\ UNCHANGED <<recs, running, handoff, asked, disturbed>>

AskQuestion ==
    /\ At("idle") /\ "question" \in Asks /\ asked < MaxAsks
    /\ asked' = asked + 1
    /\ turn' = [Idle EXCEPT !.pc = "pushing", !.kind = "question", !.fut = "open"]
    /\ waiter' = "turn"
    /\ UNCHANGED <<recs, running, handoff, disturbed>>

Pushed ==
    /\ At("pushing")
    /\ turn' = [turn EXCEPT !.pc = "waiting"]
    /\ UNCHANGED <<recs, running, waiter, handoff, asked, disturbed>>

\* A bug: the timeout does not reach a future that is still open.
TimesOutUnheard ==
    /\ At("waiting") /\ ~turn.late
    /\ turn' = [turn EXCEPT !.late = TRUE]
    /\ UNCHANGED <<recs, running, waiter, handoff, asked, disturbed>>

\* asyncio.timeout: cancels the wait, also one whose answer came in this very turn of
\* the loop and has not been seen yet.
TimesOut ==
    /\ At("waiting") /\ ~turn.late
    /\ turn' = [turn EXCEPT !.late = TRUE, !.fut = IF @ = "open" THEN "cancelled" ELSE @]
    /\ UNCHANGED <<recs, running, waiter, handoff, asked, disturbed>>

\* A bug: a timeout is no answer, whatever the future says.
AnswerUnlessLate == IF turn.late THEN "none" ELSE turn.fut

\* What the wait returns: the approval's asker looks into the future after a timeout,
\* ask_user does not.
Answer ==
    IF turn.late /\ turn.kind = "question" THEN "none"
    ELSE IF turn.fut = "cancelled" THEN "none" ELSE turn.fut

\* The turn goes on when it has its concurrency slots again; discard then removes the
\* future if it is still the registered one.
WakeUp ==
    /\ At("waiting") /\ turn.fut # "open"
    /\ turn' = [turn EXCEPT !.pc = "retaking", !.answer = Answer]
    /\ UNCHANGED <<recs, running, waiter, handoff, asked, disturbed>>

Retaken ==
    /\ At("retaking")
    /\ turn' = [turn EXCEPT !.pc = "answered"]
    /\ waiter' = IF waiter = "turn" THEN "none" ELSE waiter
    /\ UNCHANGED <<recs, running, handoff, asked, disturbed>>

\* request, after the asker: a verdict is taken for the chat's unless someone left his
\* name for it; without one the turn reports what the record has come to.
ActOnAnswer ==
    LET i  == turn.rec
        by == IF handoff[i] = "none" THEN "chat" ELSE handoff[i]
    IN
    /\ At("answered")
    /\ IF turn.kind = "approval" /\ turn.answer \in Verdicts
       THEN /\ Decided(i, turn.answer, by)
            /\ handoff' = [handoff EXCEPT ![i] = "none"]
            /\ turn' = IF turn.answer = "approve" /\ recs[i].status = "pending"
                       THEN [turn EXCEPT !.pc = "running"] ELSE Idle
       ELSE turn' = Idle /\ UNCHANGED <<recs, running, handoff>>
    /\ UNCHANGED <<waiter, asked, disturbed>>

\* A /stop cancels the turn.  The wait's finally removes its future; ask_user's push,
\* between create and the wait, is outside it.  A run that is cut off is recorded.
Stop ==
    /\ ~At("idle") /\ Disturb("stop")
    /\ turn' = Idle
    /\ waiter' = CASE At("pushing") /\ waiter = "turn" -> "left"
                   [] waiter = "turn" -> "none"
                   [] OTHER -> waiter
    /\ IF At("running")
       THEN /\ recs' = Transition(turn.rec, "approved", "failed", "none")
            /\ running' = [running EXCEPT ![turn.rec] = "nobody"]
       ELSE UNCHANGED <<recs, running>>
    /\ UNCHANGED <<handoff, asked>>

---------------------------------------------------------------------------
(* The person: in the chat, with a click, from the command line            *)

\* resolve and fallback: the registered future, if it is still open, leaves the table.
Put(what) == turn' = [turn EXCEPT !.fut = what, !.reply = what]
Open == waiter = "turn" /\ turn.fut = "open"

\* A bug: an attachment takes the question out of the table unanswered.
ReplyForgetting(text) ==
    /\ \/ /\ Open
          /\ IF text = "media" THEN UNCHANGED turn ELSE Put(text)
       \/ waiter = "left" /\ UNCHANGED turn
    /\ waiter' = "none"
    /\ UNCHANGED <<recs, running, handoff, asked, disturbed>>

\* _maybe_resolve_pending_answer: an approval takes only a verdict, and anything else
\* makes it yield; a question takes the text, or yields to an attachment.  A message
\* that finds a future left behind is consumed all the same.
Reply(text) ==
    /\ \/ /\ Open
          /\ Put(IF text \in (IF turn.kind = "approval" THEN Verdicts ELSE {"text"}) THEN text ELSE "fallback")
       \/ waiter = "left" /\ UNCHANGED turn
    /\ waiter' = "none"
    /\ UNCHANGED <<recs, running, handoff, asked, disturbed>>

\* _schedule_answer_fallback: nobody has watched the chat for the grace window.
NobodyWatches ==
    /\ Open
    /\ Put("fallback")
    /\ waiter' = "none"
    /\ UNCHANGED <<recs, running, handoff, asked, disturbed>>

\* decide, from the web UI: handed to the turn that waits for this very record, else
\* decided and carried out here.
Click(i, verdict) ==
    /\ i \in Ids
    /\ IF Open /\ turn.kind = "approval" /\ turn.rec = i
       THEN /\ handoff' = [handoff EXCEPT ![i] = "web"]
            /\ Put(verdict)
            /\ waiter' = "none"
            /\ UNCHANGED <<recs, running>>
       ELSE /\ recs[i].status = "pending"
            /\ Decided(i, verdict, "web")
            /\ UNCHANGED <<handoff, turn, waiter>>
    /\ UNCHANGED <<asked, disturbed>>

\* decide, from the command line: no turn waits in that process.
CommandLine(i, verdict) ==
    /\ i \in Ids /\ recs[i].status = "pending"
    /\ Decided(i, verdict, "cli")
    /\ UNCHANGED <<turn, waiter, handoff, asked, disturbed>>

---------------------------------------------------------------------------
(* Carrying an approved record out                                         *)

\* A bug: the target is not looked at again.
StartBlindly(i) ==
    /\ i \in Ids /\ running[i] \in Deciders \cup {"judge"}
    /\ recs' = [recs EXCEPT ![i].runs = @ + 1]
    /\ running' = [running EXCEPT ![i] = IF @ = "cli" THEN "executing cli" ELSE "executing"]
    /\ UNCHANGED <<turn, waiter, handoff, asked, disturbed>>

TurnRunning(i) == At("running") /\ turn.rec = i

\* The record ends without a run.
NotRun(i, to) ==
    /\ recs' = Transition(i, "approved", to, "none")
    /\ running' = [running EXCEPT ![i] = "nobody"]
    /\ turn' = IF TurnRunning(i) THEN Idle ELSE turn

\* _run_approved, up to the executor: the target must be what was asked about, and it
\* must be possible to tell (current_hash may raise).
Start(i) ==
    /\ i \in Ids /\ running[i] \in Deciders \cup {"judge"}
    /\ \/ NotRun(i, "failed")
       \/ recs[i].changed /\ NotRun(i, "stale")
       \/ /\ ~recs[i].changed
          /\ recs' = [recs EXCEPT ![i].runs = @ + 1]
          /\ running' = [running EXCEPT ![i] = IF @ = "cli" THEN "executing cli" ELSE "executing"]
          /\ UNCHANGED turn
    /\ UNCHANGED <<waiter, handoff, asked, disturbed>>

\* A bug: the executor's end is recorded whatever the housekeeping wrote meanwhile.
EndBlindly(i, result) ==
    /\ i \in Ids /\ running[i] \in {"executing", "executing cli"}
    /\ recs' = [recs EXCEPT ![i].status = result]
    /\ running' = [running EXCEPT ![i] = "nobody"]
    /\ turn' = IF TurnRunning(i) THEN Idle ELSE turn
    /\ UNCHANGED <<waiter, handoff, asked, disturbed>>

\* _run_approved, after the executor.
End(i, result) ==
    /\ i \in Ids /\ running[i] \in {"executing", "executing cli"}
    /\ recs' = Transition(i, "approved", result, "none")
    /\ running' = [running EXCEPT ![i] = "nobody"]
    /\ turn' = IF TurnRunning(i) THEN Idle ELSE turn
    /\ UNCHANGED <<waiter, handoff, asked, disturbed>>

---------------------------------------------------------------------------
(* The housekeeping, and what goes wrong                                   *)

\* A bug: only requests that nobody answered are cleaned up.
HousekeepPendingOnly(i) ==
    /\ i \in Ids /\ recs[i].status = "pending"
    /\ recs' = Transition(i, "pending", "expired", "none")
    /\ UNCHANGED <<running, turn, waiter, handoff, asked, disturbed>>

\* expire_and_prune: a request past its life is expired, one left approved for longer
\* than a run may take is closed as interrupted.
Housekeep(i) ==
    /\ i \in Ids
    /\ \/ recs[i].status = "pending" /\ recs' = Transition(i, "pending", "expired", "none")
       \/ recs[i].status = "approved" /\ recs' = Transition(i, "approved", "failed", "none")
    /\ UNCHANGED <<running, turn, waiter, handoff, asked, disturbed>>

\* The target of the request changes under it.
Change(i) ==
    /\ i \in Ids /\ Disturb("change") /\ ~recs[i].changed
    /\ recs' = [recs EXCEPT ![i].changed = TRUE]
    /\ UNCHANGED <<running, turn, waiter, handoff, asked>>

OfCli == {"cli", "executing cli"}

GatewayDies ==
    /\ Disturb("crash")
    /\ turn' = Idle /\ waiter' = "none"
    /\ handoff' = [i \in Ids |-> "none"]
    /\ running' = [i \in Ids |-> IF running[i] \in OfCli THEN running[i] ELSE "nobody"]
    /\ UNCHANGED <<recs, asked>>

CliDies(i) ==
    /\ i \in Ids /\ running[i] \in OfCli /\ Disturb("crash")
    /\ running' = [running EXCEPT ![i] = "nobody"]
    /\ UNCHANGED <<recs, turn, waiter, handoff, asked>>

---------------------------------------------------------------------------
Turn == AskApproval \/ FileOnly \/ JudgeClears \/ AskQuestion
Wait == Register \/ Pushed \/ TimesOut \/ WakeUp \/ Retaken \/ ActOnAnswer

Next ==
    \/ Turn \/ Wait \/ Stop \/ GatewayDies
    \/ \E text \in Verdicts \cup {"text", "media"} : Reply(text)
    \/ NobodyWatches
    \/ \E i \in Ids :
         \/ \E v \in Verdicts : Click(i, v) \/ CommandLine(i, v)
         \/ Start(i) \/ \E r \in {"applied", "failed"} : End(i, r)
         \/ Housekeep(i) \/ Change(i) \/ CliDies(i)

Spec == Init /\ [][Next]_vars

\* The loop runs the turn's steps and its timeout, and the housekeeping comes round;
\* nobody need ever answer, and an executor need not end.
FairSpec ==
    /\ Spec
    /\ WF_vars(Wait)
    /\ \A i \in 1..MaxRecords : WF_vars(Housekeep(i))

---------------------------------------------------------------------------
(* Properties                                                              *)

\* Every variable has its type.
TypeOK ==
    /\ recs \in Seq([status : Terminal \cup {"pending", "approved"},
                     by : Deciders \cup {"judge", "none"}, changed : BOOLEAN, runs : Nat])
    /\ running \in [Ids -> Deciders \cup {"judge", "nobody", "executing", "executing cli"}]
    /\ handoff \in [Ids -> Deciders \cup {"none"}]
    /\ turn.pc \in {"idle", "asking", "pushing", "waiting", "retaking", "answered", "running"}
    /\ turn.rec \in {0} \cup Ids /\ (turn.kind = "approval" => turn.rec \in Ids)
    /\ turn.fut \in {"none", "open", "cancelled", "fallback", "text"} \cup Verdicts
    /\ waiter \in {"none", "turn", "left"}

\* A request is carried out at most once, however many people decide it, from however
\* many processes, and whatever becomes of the run (approval.py: _run_approved).
RunsOnce == \A i \in Ids : recs[i].runs <= 1

\* What is carried out was approved, on the state it was approved for: neither a
\* rejected, nor an expired, nor a changed request runs.
RunsAsApproved(i) ==
    recs'[i].runs > recs[i].runs
      => recs[i].status \in {"approved", "failed"} /\ ~recs[i].changed
         /\ recs[i].by \in Deciders \cup {"judge"}

\* A settled record stays as it was settled, also when its run ends after that; and
\* who decided it is written once.
StaysSettled(i) ==
    /\ recs[i].status \in Terminal => recs'[i].status = recs[i].status
    /\ recs[i].by # "none" => recs'[i].by = recs[i].by

\* A decision holds: it alone lets a request run, and nothing writes over it, whoever
\* decides again, dies or finishes late.
DecisionsHold == [][\A i \in Ids : RunsAsApproved(i) /\ StaysSettled(i)]_vars

\* A verdict that a waiting turn was given is the one it goes on with, also when the
\* timeout strikes in the same turn of the loop (approval_prompt.py:124).
VerdictKept ==
    turn.kind = "approval" /\ turn.pc \in {"retaking", "answered"} /\ turn.reply \in Verdicts
      => turn.answer = turn.reply

\* A turn that waits can be reached: its future is open and in the table, or it has
\* been answered or cancelled and will wake up.
WaitingIsReachable == At("waiting") /\ turn.fut = "open" => waiter = "turn"

\* The turn, its future and the table agree.
WaitConsistent == TypeOK /\ WaitingIsReachable

\* No request stays approved for ever: it is settled by who carries it out, or by the
\* housekeeping when that process is gone or takes too long.
NoneStuck == \A i \in 1..MaxRecords :
    (i \in Ids /\ recs[i].status = "approved") ~> (i \in Ids /\ recs[i].status \in Terminal)

\* A turn that waits for a person goes on, answered or not.
TurnGoesOn == At("waiting") ~> ~At("waiting")

\* Neither a request nor a turn hangs.
NothingHangs == NoneStuck /\ TurnGoesOn
=============================================================================
