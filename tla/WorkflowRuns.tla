---------------------------- MODULE WorkflowRuns ----------------------------
(***************************************************************************)
(* The manifest of one workflow run (durin/workflow/run_log.py) and the    *)
(* calls that meet on it: an answer that resumes it (service/workflows.py),*)
(* the run_workflow tool that resumes it for an agent, cancel_run, a stop, *)
(* the sweep for runs of dead processes.  A call is made in one of several *)
(* processes that share the workspace; a resume hands its walk of the      *)
(* graph to a thread.  Each action is what happens between two places      *)
(* where another process or thread can come in; what is done under the     *)
(* lock of the run (run_lock_target) is one action.                        *)
(***************************************************************************)
EXTENDS Naturals, FiniteSets

CONSTANTS
    Procs,        \* processes that share the workspace
    NCalls,       \* bound: calls made on the run
    Kinds,        \* what the calls may be: "answer", "tool", "cancel", "stop"
    Nobody        \* the owner of a manifest that names none; no record

ASSUME NCallsAssumption  == NCalls \in Nat
ASSUME NobodyAssumption  == Nobody \notin Procs

Calls == 1..NCalls    \* in the order in which they begin
Asks  == {"question", "approval"}
Final == {"completed", "cancelled", "crashed"}

VARIABLES
    rec,          \* the manifest; walk says whose started_at it carries, 0 an earlier one's
    call,         \* where each call, and the thread it started, stands
    flags,        \* processes whose cancellation registry has the run
    sweep,        \* the record a sweep has read and is about to write, or Nobody
    alive,        \* processes that have not died
    taken,        \* history: by the walk that paused, how often that pause was acted on
                  \* under the lock of the run
    walked,       \* history: how often the agent's tool, which takes no lock, walked on from it
    raced,        \* history: a resume that claims nothing met another resume
    undercut      \* history: a resume that claims nothing met a cancel_run

vars == <<rec, call, flags, sweep, alive, taken, walked, raced, undercut>>

NoCall  == [pc |-> "idle", kind |-> "none", proc |-> Nobody, seen |-> Nobody,
            out |-> "none", attached |-> TRUE]
Over    == [NoCall EXCEPT !.pc = "done"]

At(c, pc)   == call[c].pc = pc
Goto(c, pc) == call' = [call EXCEPT ![c].pc = pc]
Done(c)     == call' = [call EXCEPT ![c] = Over]

Active(c)    == call[c].pc \notin {"idle", "done"}
Claims(c)    == call[c].kind = "answer"
Unclaimed(c) == call[c].kind \in {"retry", "tool"}
Resumes(c)   == Active(c) /\ (Claims(c) \/ Unclaimed(c))

Running == rec.status = "running"

Init ==
    /\ rec \in [status : {"needs_input"}, ask : Asks, owner : {Nobody}, walk : {0}]
               \cup [status : {"aborted"}, ask : {"none"}, owner : {Nobody}, walk : {0}]
    /\ call = [c \in Calls |-> NoCall]
    /\ flags = {} /\ sweep = Nobody /\ alive = Procs
    /\ taken = [w \in 0..NCalls |-> 0] /\ walked = [w \in 0..NCalls |-> 0]
    /\ raced = FALSE /\ undercut = FALSE

---------------------------------------------------------------------------
(* A call begins: it looks at the manifest, without the lock               *)

\* Bounds: calls begin in the order of their numbers, and since processes are alike the
\* first is made in a given one.
Comes(c, p) ==
    /\ \A d \in Calls : At(d, "idle") <=> d >= c
    /\ p \in alive
    /\ c = 1 => p = CHOOSE q \in Procs : TRUE

\* A tool goes on from the pause it read, whatever becomes of the manifest.
Begin(c, p, kind, pc) ==
    /\ Comes(c, p)
    /\ call' = [call EXCEPT ![c] =
                  [NoCall EXCEPT !.pc = pc, !.kind = kind, !.proc = p,
                                 !.seen = IF kind = "tool" /\ rec.status = "needs_input"
                                          THEN rec ELSE Nobody]]
    /\ UNCHANGED <<rec, flags, sweep, alive, taken, walked, undercut>>

\* A resume that claims nothing beside another one: what the claim is there to exclude.
Meets(kind) ==
    raced' = (raced \/ \E d \in Calls :
                          Resumes(d) /\ (kind \in {"retry", "tool"} \/ Unclaimed(d)))

\* execute(resume_run_id): a pause is looked at again under the lock; an aborted run,
\* which is retried at its failed node, is not.
LookToAnswer(c, p) ==
    /\ "answer" \in Kinds
    /\ \/ /\ rec.status = "needs_input"
          /\ Begin(c, p, "answer", "asked") /\ Meets("answer")
       \/ /\ rec.status = "aborted"
          /\ Begin(c, p, "retry", "waiting") /\ Meets("retry")

\* The run_workflow tool: a person's approval is refused, everything else goes on.
LookAsTool(c, p) ==
    /\ "tool" \in Kinds
    /\ rec.status = "aborted" \/ (rec.status = "needs_input" /\ rec.ask # "approval")
    /\ Begin(c, p, "tool", "waiting") /\ Meets("tool")

LookToStop(c, p) ==
    /\ "stop" \in Kinds
    /\ Running /\ rec.owner \in alive \cup {Nobody}
    /\ Begin(c, p, "stop", "stopping") /\ UNCHANGED raced

---------------------------------------------------------------------------
(* Under the lock of the run                                               *)

\* The thread is done with the run; a caller that still waits forgets the flag again.
Leave(c) ==
    /\ Done(c)
    /\ flags' = IF call[c].attached THEN flags \ {call[c].proc} ELSE flags

Decided(w)  == taken' = [taken EXCEPT ![w] = @ + 1]
Short(o)    == rec' = [rec EXCEPT !.status = o, !.ask = "none"]

\* claim_for_resume: everything stays as it was but the status and the owner.
Claimed(r, p) == [r EXCEPT !.status = "running", !.owner = p]
HasClaim(c)   == Claims(c) /\ rec = Claimed(call[c].seen, call[c].proc)

\* The answer is read: a rejection ends the run, and so does the approval of a last
\* node; anything else becomes a resume, if the run is still paused.
Answer(c) ==
    /\ At(c, "asked")
    /\ IF rec.status # "needs_input"
       THEN Done(c) /\ UNCHANGED <<rec, taken>>
       ELSE \/ /\ rec.ask = "approval"
               /\ \E o \in {"cancelled", "completed"} : Short(o)
               /\ Decided(rec.walk) /\ Done(c)
            \/ /\ call' = [call EXCEPT ![c].pc = "prepared", ![c].seen = rec]
               /\ UNCHANGED <<rec, taken>>
    /\ UNCHANGED <<flags, sweep, alive, raced, walked, undercut>>

\* A bug: the run is not compared with what was read before the engine was built.
ClaimUnchecked(c) ==
    /\ At(c, "prepared")
    /\ rec' = Claimed(call[c].seen, call[c].proc)
    /\ Decided(call[c].seen.walk) /\ Goto(c, "waiting")
    /\ UNCHANGED <<flags, sweep, alive, raced, walked, undercut>>

Claim(c) ==
    /\ At(c, "prepared")
    /\ IF rec = call[c].seen
       THEN /\ rec' = Claimed(rec, call[c].proc)
            /\ Decided(rec.walk) /\ Goto(c, "waiting")
       ELSE Done(c) /\ UNCHANGED <<rec, taken>>
    /\ UNCHANGED <<flags, sweep, alive, raced, walked, undercut>>

\* cancel_run, whose only look is the one under the lock.
Cancel(c, p) ==
    /\ "cancel" \in Kinds
    /\ Comes(c, p) /\ rec.status = "needs_input"
    /\ Short("cancelled") /\ Decided(rec.walk)
    /\ Done(c)
    /\ undercut' = (undercut \/ \E d \in Calls : Resumes(d) /\ Unclaimed(d))
    /\ UNCHANGED <<flags, sweep, alive, walked, raced>>

\* release_resume_claim: the pause is put back, unless the engine took the run over.
Release(c) ==
    /\ At(c, "releasing")
    /\ IF HasClaim(c)
       THEN /\ rec' = call[c].seen
            /\ taken' = [taken EXCEPT ![rec.walk] = @ - 1]
       ELSE UNCHANGED <<rec, taken>>
    /\ Leave(c)
    /\ UNCHANGED <<sweep, alive, raced, walked, undercut>>

---------------------------------------------------------------------------
(* The thread of a resume                                                  *)

AfterWalk(c) ==
    IF Claims(c)
    THEN call' = [call EXCEPT ![c].pc = "releasing", ![c].out = "none"] /\ UNCHANGED flags
    ELSE Leave(c)

\* A thread is free and takes the run over from the caller (`handoff`).
Enter(c) ==
    /\ At(c, "waiting")
    /\ Goto(c, "entered")
    /\ UNCHANGED <<rec, flags, sweep, alive, taken, raced, walked, undercut>>

\* engine.run returns or raises before its walk: an input, a script, a busy work_key.
Refuse(c) ==
    /\ At(c, "entered")
    /\ AfterWalk(c)
    /\ UNCHANGED <<rec, sweep, alive, taken, raced, walked, undercut>>

\* start_run writes the manifest anew; the pause a tool read is acted on by this.
Start(c) ==
    /\ At(c, "entered")
    /\ rec' = [status |-> "running", ask |-> "none", owner |-> call[c].proc, walk |-> c]
    /\ Goto(c, "walking")
    /\ walked' = IF Unclaimed(c) /\ call[c].seen # Nobody
                 THEN [walked EXCEPT ![call[c].seen.walk] = @ + 1] ELSE walked
    /\ UNCHANGED <<flags, sweep, alive, taken, raced, undercut>>

\* A node is over: update_run writes what the manifest says of the run, as running.
Node(c) ==
    /\ At(c, "walking") /\ call[c].proc \notin flags
    /\ rec' = [rec EXCEPT !.status = "running", !.ask = "none"]
    /\ UNCHANGED <<call, flags, sweep, alive, taken, raced, walked, undercut>>

\* The walk is over; on_run_end forgets a cancel before the manifest says so.
End(c, o) ==
    /\ At(c, "walking")
    /\ o = "cancelled" => call[c].proc \in flags
    /\ flags' = flags \ {call[c].proc}
    /\ call' = [call EXCEPT ![c].pc = "ending", ![c].out = o]
    /\ UNCHANGED <<rec, sweep, alive, taken, raced, walked, undercut>>

\* finalize_run: what ends a run names no owner.
Finalize(c) ==
    /\ At(c, "ending")
    /\ rec' = [status |-> IF call[c].out \in Asks THEN "needs_input" ELSE call[c].out,
               ask    |-> IF call[c].out \in Asks THEN call[c].out ELSE "none",
               owner  |-> Nobody, walk |-> c]
    /\ AfterWalk(c)
    /\ UNCHANGED <<sweep, alive, taken, raced, walked, undercut>>

---------------------------------------------------------------------------
(* The caller                                                              *)

\* A bug: the claim is released although the thread has the run.
AbandonAnyway(c) ==
    /\ call[c].kind \in {"answer", "retry"} /\ call[c].attached
    /\ At(c, "waiting") \/ At(c, "entered") \/ At(c, "walking")
    /\ flags' = flags \ {call[c].proc}
    /\ call' = [call EXCEPT ![c].pc = "releasing", ![c].attached = FALSE]
    /\ UNCHANGED <<rec, sweep, alive, taken, raced, walked, undercut>>

\* A bug: a caller that goes away before the thread begins just goes.
AbandonQuietly(c) ==
    /\ call[c].kind \in {"answer", "retry"} /\ call[c].attached
    /\ At(c, "waiting")
    /\ flags' = flags \ {call[c].proc}
    /\ Done(c)
    /\ UNCHANGED <<rec, sweep, alive, taken, raced, walked, undercut>>

\* The caller is cancelled: before the thread takes over it drops the run and its
\* claim, afterwards the walk goes on without it.  Either way the flag is forgotten.
Abandon(c) ==
    /\ call[c].kind \in {"answer", "retry"} /\ call[c].attached
    /\ \/ /\ At(c, "waiting")
          /\ IF Claims(c) THEN call' = [call EXCEPT ![c].pc = "releasing", ![c].attached = FALSE]
                          ELSE Done(c)
       \/ /\ At(c, "entered") \/ At(c, "walking") \/ At(c, "ending") \/ At(c, "releasing")
          /\ call' = [call EXCEPT ![c].attached = FALSE]
    /\ flags' = flags \ {call[c].proc}
    /\ UNCHANGED <<rec, sweep, alive, taken, raced, walked, undercut>>

\* request_cancel, in the registry of the process that was asked.
Stop(c) ==
    /\ At(c, "stopping")
    /\ flags' = flags \cup {call[c].proc}
    /\ Done(c)
    /\ UNCHANGED <<rec, sweep, alive, taken, raced, walked, undercut>>

---------------------------------------------------------------------------
(* Deaths and the sweep                                                    *)

Die(p) ==
    /\ p \in alive /\ alive # {p}
    /\ alive' = alive \ {p}
    /\ call' = [c \in Calls |->
                  IF Active(c) /\ call[c].proc = p THEN Over ELSE call[c]]
    /\ flags' = flags \ {p}
    /\ UNCHANGED <<rec, sweep, taken, raced, walked, undercut>>

\* A bug: a run is an orphan by its age alone.
OrphanByAge == Running

\* The owner is dead, or none is named and the run is old.
Orphan == Running /\ rec.owner \notin alive

\* reconcile_running and reconcile_one read, then write, without the lock.
SweepRead ==
    /\ sweep = Nobody /\ Orphan
    /\ sweep' = rec
    /\ UNCHANGED <<rec, call, flags, alive, taken, raced, walked, undercut>>

SweepWrite ==
    /\ sweep # Nobody
    /\ rec' = [sweep EXCEPT !.status = "crashed"]
    /\ sweep' = Nobody
    /\ UNCHANGED <<call, flags, alive, taken, raced, walked, undercut>>

---------------------------------------------------------------------------

Thread(c) == \/ Enter(c) \/ Refuse(c) \/ Start(c)
             \/ \E o \in Asks \cup {"completed", "cancelled", "aborted"} : End(c, o)
             \/ Finalize(c) \/ Release(c)

Next ==
    \/ \E c \in Calls, p \in Procs :
         LookToAnswer(c, p) \/ LookAsTool(c, p) \/ LookToStop(c, p) \/ Cancel(c, p)
    \/ \E c \in Calls : \/ Answer(c) \/ Claim(c) \/ Node(c) \/ Thread(c)
                        \/ Abandon(c) \/ Stop(c)
    \/ \E p \in Procs : Die(p)
    \/ SweepRead \/ SweepWrite

Spec == Init /\ [][Next]_vars

\* Threads become free, nodes end, and some process sweeps every ten minutes.
FairSpec ==
    /\ Spec
    /\ \A c \in Calls : WF_vars(Thread(c))
    /\ WF_vars(SweepRead \/ SweepWrite)

---------------------------------------------------------------------------

Record == [status : {"running", "needs_input", "aborted"} \cup Final, ask : Asks \cup {"none"},
           owner : Procs \cup {Nobody}, walk : 0..NCalls]

TypeOK ==
    /\ rec \in Record
    /\ sweep \in Record \cup {Nobody}
    /\ flags \subseteq alive /\ alive \subseteq Procs
    /\ \A c \in Calls : Active(c) => call[c].proc \in alive
    /\ taken \in [0..NCalls -> Nat] /\ walked \in [0..NCalls -> Nat]

\* A caller or its thread that has the run to itself, from the claim, or from the
\* start of its walk, to the manifest's last write.
Drives(c) ==
    \/ Claims(c) /\ (At(c, "waiting") \/ At(c, "entered"))
    \/ At(c, "walking") \/ At(c, "ending")

\* The manifest says "running" for as long as somebody drives the run, and names that
\* one's process: nothing cancels, rejects, crashes or resumes it under a driver, and no
\* claim outlives the call that took it.  So long as every resume claims.
InOneHand ==
    /\ TypeOK
    /\ ~raced =>
         /\ \A c \in Calls : Drives(c) => Running /\ rec.owner = call[c].proc
         /\ \A c, d \in Calls : Drives(c) /\ Drives(d) => c = d
         /\ Running /\ rec.owner \in alive
              => \E c \in Calls : Drives(c) \/ (At(c, "releasing") /\ HasClaim(c))

\* One of those who race for a pause under the lock of the run wins (run_log.py:21-24): it is
\* answered, rejected, approved or cancelled once, whatever else goes on, unless the claim is
\* given back.  The agent's tool, which answers a question without the lock, counts too, so
\* long as its resume did not meet another one or a cancel_run; then a pause may be acted on
\* twice.
OneWinner ==
    \A w \in 0..NCalls : /\ taken[w] <= 1
                         /\ ~raced /\ ~undercut => taken[w] + walked[w] <= 1

\* A run does not stay "running" for ever, whoever goes away or dies.
NoGhost == (Running /\ ~raced) ~> (~Running \/ raced)
=============================================================================
