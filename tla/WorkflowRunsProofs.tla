------------------------- MODULE WorkflowRunsProofs -------------------------
(***************************************************************************)
(* A pause of a workflow run is acted on once, for every number of calls   *)
(* and processes.                                                          *)
(***************************************************************************)
EXTENDS WorkflowRuns, TLAPS

Pcs == {"idle", "asked", "prepared", "waiting", "entered", "walking", "ending", "releasing",
        "stopping", "done"}

CallRec == [pc   : Pcs,
            kind : {"none", "answer", "retry", "tool", "stop"},
            proc : Procs \cup {Nobody}, seen : Record \cup {Nobody},
            out  : Asks \cup {"none", "completed", "cancelled", "aborted"},
            attached : BOOLEAN]

Typed ==
    /\ rec \in Record
    /\ sweep \in Record \cup {Nobody}
    /\ call \in [Calls -> CallRec]
    /\ taken \in [0..NCalls -> Nat]

\* The record of a pause, and a call whose walk has not put one in the manifest yet.
Paused(r) == r \in Record /\ r.status = "needs_input" /\ r.ask \in Asks
Early(c)  == call[c].pc \notin {"releasing", "done"}

\* The pause of an answer's claim is a pause.
SeenPaused ==
    \A c \in Calls : Claims(c) /\ call[c].pc \notin {"idle", "asked", "done"}
                       => Paused(call[c].seen)

\* What the manifest says of the pause it carries and how often that was acted on.
CountedRight ==
    /\ rec.status = "needs_input" => rec.ask \in Asks /\ taken[rec.walk] = 0
    /\ rec.status = "running" /\ rec.ask # "none" => taken[rec.walk] = 1

\* Nobody knows of a pause that its walk has yet to make.
NotBefore ==
    \A c \in Calls : Early(c) =>
        /\ taken[c] = 0
        /\ ~(rec.walk = c /\ rec.ask # "none")
        /\ sweep # Nobody => ~(sweep.walk = c /\ sweep.ask # "none")

\* A call that ends a walk knows how; one that prepares a walk is an answer.
StagesRight ==
    \A c \in Calls : /\ At(c, "ending") => call[c].out # "none"
                     /\ At(c, "asked") \/ At(c, "prepared") => Claims(c)

\* Under the lock a pause is acted on once.
ClaimedOnce == \A w \in 0..NCalls : taken[w] <= 1

Ind == Typed /\ StagesRight /\ SeenPaused /\ CountedRight /\ NotBefore /\ ClaimedOnce
---------------------------------------------------------------------------
(* What becomes of the calls                                               *)

\* The calls' part of the invariant holds after the step, and none is early again.
CallsKept ==
    /\ call' \in [Calls -> CallRec]
    /\ StagesRight' /\ SeenPaused'
    /\ \A c \in Calls : Early(c)' => Early(c)

\* The manifest, the sweep and the count stay.
LEMMA Quiet ==
    ASSUME Ind, CallsKept, UNCHANGED <<rec, sweep, taken>>
    PROVE  Ind'
  <1>1. Typed'
    BY DEF Ind, CallsKept, Typed
  <1>2. CountedRight' /\ ClaimedOnce'
    BY DEF Ind, CountedRight, ClaimedOnce
  <1>3. NotBefore'
    BY DEF Ind, NotBefore, CallsKept
  <1> QED
    BY <1>1, <1>2, <1>3 DEF Ind, CallsKept

\* One call takes a new record.
LEMMA OneMoves ==
    ASSUME Ind, NEW c \in Calls, NEW r \in CallRec,
           call' = [call EXCEPT ![c] = r],
           Early(c) \/ r.pc \in {"releasing", "done"},
           r.pc = "ending" => r.out # "none",
           r.pc \in {"asked", "prepared"} => r.kind = "answer",
           r.kind = "answer" /\ r.pc \notin {"idle", "asked", "done"} => Paused(r.seen)
    PROVE  CallsKept
  <1>1. call' \in [Calls -> CallRec] /\ call'[c] = r
        /\ \A d \in Calls : d # c => call'[d] = call[d]
    BY DEF Ind, Typed
  <1> QED
    BY <1>1 DEF CallsKept, Ind, StagesRight, SeenPaused, Early, At, Claims, Paused

\* A call goes on with the same record.
LEMMA OneGoesOn ==
    ASSUME Ind, NEW c \in Calls, NEW x \in Pcs,
           call' = [call EXCEPT ![c].pc = x],
           Early(c) \/ x \in {"releasing", "done"},
           x \notin {"asked", "prepared", "ending"},
           Claims(c) /\ x \notin {"idle", "asked", "done"} => Paused(call[c].seen)
    PROVE  CallsKept
  <1> DEFINE r == [call[c] EXCEPT !.pc = x]
  <1>1. call[c] \in CallRec
    BY DEF Ind, Typed
  <1>2. r \in CallRec /\ r.pc = x /\ r.out = call[c].out /\ r.kind = call[c].kind
        /\ r.seen = call[c].seen
    BY <1>1 DEF CallRec
  <1>3. call' = [call EXCEPT ![c] = r]
    OBVIOUS
  <1> HIDE DEF r
  <1> QED
    BY <1>2, <1>3, OneMoves DEF Claims

\* A call is over.
LEMMA OneIsOver ==
    ASSUME Ind, NEW c \in Calls, Done(c)
    PROVE  CallsKept
  <1>1. Over \in CallRec /\ Over.pc = "done"
    BY DEF Over, NoCall, CallRec, Pcs
  <1>2. call' = [call EXCEPT ![c] = Over]
    BY DEF Done
  <1> QED
    BY <1>1, <1>2, OneMoves

\* Whoever reaches the end of its walk's code lets go, or has its claim released.
LEMMA OneLetsGo ==
    ASSUME Ind, NEW c \in Calls, AfterWalk(c),
           Claims(c) => call[c].pc \notin {"idle", "asked", "done"}
    PROVE  CallsKept
  <1>1. CASE Claims(c)
    <2> DEFINE r == [call[c] EXCEPT !.pc = "releasing", !.out = "none"]
    <2>1. call[c] \in CallRec
      BY DEF Ind, Typed
    <2>2. r \in CallRec /\ r.pc = "releasing" /\ r.seen = call[c].seen
      BY <2>1 DEF CallRec, Pcs
    <2>3. call' = [call EXCEPT ![c] = r]
      BY <1>1 DEF AfterWalk
    <2>4. Paused(call[c].seen)
      BY <1>1 DEF Ind, SeenPaused
    <2> HIDE DEF r
    <2> QED
      BY <2>2, <2>3, <2>4, OneMoves
  <1>2. CASE ~Claims(c)
    BY <1>2, OneIsOver DEF AfterWalk, Leave
  <1> QED
    BY <1>1, <1>2

\* A call begins.
LEMMA OneBegins ==
    ASSUME Ind, NEW c \in Calls, NEW p \in Procs,
           NEW kind \in {"answer", "retry", "tool", "stop"},
           NEW pc \in {"asked", "waiting", "stopping"},
           kind = "answer" <=> pc = "asked", Begin(c, p, kind, pc)
    PROVE  Ind'
  <1> DEFINE r == [NoCall EXCEPT !.pc = pc, !.kind = kind, !.proc = p,
                    !.seen = IF kind = "tool" /\ rec.status = "needs_input" THEN rec ELSE Nobody]
  <1>1. r \in CallRec /\ r.pc = pc /\ r.kind = kind
    BY DEF NoCall, CallRec, Pcs, Ind, Typed
  <1>2. call' = [call EXCEPT ![c] = r]
    BY DEF Begin
  <1>3. c >= c
    BY DEF Calls
  <1>4. Early(c)
    BY <1>3 DEF Begin, Comes, At, Early
  <1> HIDE DEF r
  <1>5. CallsKept
    BY <1>1, <1>2, <1>4, OneMoves
  <1>6. UNCHANGED <<rec, sweep, taken>>
    BY DEF Begin
  <1> QED
    BY <1>5, <1>6, Quiet

---------------------------------------------------------------------------
(* What becomes of the pause                                               *)

\* A pause has a walk, and nobody early has acted on it.
LEMMA PauseIsNew ==
    ASSUME Ind, rec.status = "needs_input"
    PROVE  /\ rec.walk \in 0..NCalls /\ rec.ask \in Asks /\ taken[rec.walk] = 0
           /\ \A c \in Calls : Early(c) => rec.walk # c
  BY DEF Ind, Typed, Record, Asks, CountedRight, NotBefore

\* Acting on it counts one.
LEMMA CountedOnce ==
    ASSUME Ind, rec.status = "needs_input", Decided(rec.walk)
    PROVE  /\ taken' \in [0..NCalls -> Nat] /\ ClaimedOnce'
           /\ taken'[rec.walk] = 1
           /\ \A w \in 0..NCalls : w # rec.walk => taken'[w] = taken[w]
  BY PauseIsNew DEF Ind, Typed, Decided, ClaimedOnce

\* A pause is settled without a walk.
LEMMA PauseSettled ==
    ASSUME Ind, rec.status = "needs_input", NEW o \in {"cancelled", "completed"},
           Short(o), Decided(rec.walk), CallsKept, UNCHANGED sweep
    PROVE  Ind'
  <1>1. rec' \in Record /\ rec'.status = o /\ rec'.ask = "none"
    BY DEF Ind, Typed, Record, Short, Final
  <1>2. Typed' /\ ClaimedOnce'
    BY <1>1, CountedOnce DEF Ind, Typed, CallsKept
  <1>3. CountedRight'
    BY <1>1 DEF CountedRight
  <1>4. NotBefore'
    <2> SUFFICES ASSUME NEW c \in Calls, Early(c)'
                 PROVE  taken'[c] = 0 /\ (sweep # Nobody => ~(sweep.walk = c /\ sweep.ask # "none"))
      BY <1>1 DEF NotBefore
    <2>1. Early(c) /\ c # rec.walk /\ c \in 0..NCalls
      BY PauseIsNew, NCallsAssumption DEF CallsKept, Calls
    <2> QED
      BY <2>1, CountedOnce DEF Ind, NotBefore
  <1> QED
    BY <1>2, <1>3, <1>4 DEF Ind, CallsKept

\* A pause is claimed for a walk.
LEMMA PauseClaimed ==
    ASSUME Ind, rec.status = "needs_input", NEW p \in Procs \cup {Nobody},
           rec' = Claimed(rec, p), Decided(rec.walk), CallsKept, UNCHANGED sweep
    PROVE  Ind'
  <1>1. rec' \in Record /\ rec'.status = "running" /\ rec'.ask = rec.ask /\ rec'.walk = rec.walk
    BY DEF Ind, Typed, Record, Claimed
  <1>2. Typed' /\ ClaimedOnce'
    BY <1>1, CountedOnce DEF Ind, Typed, CallsKept
  <1>3. CountedRight'
    BY <1>1, CountedOnce DEF CountedRight
  <1>4. NotBefore'
    <2> SUFFICES ASSUME NEW c \in Calls, Early(c)'
                 PROVE  /\ taken'[c] = 0 /\ rec'.walk # c
                        /\ sweep # Nobody => ~(sweep.walk = c /\ sweep.ask # "none")
      BY DEF NotBefore
    <2>1. Early(c) /\ c # rec.walk /\ c \in 0..NCalls
      BY PauseIsNew, NCallsAssumption DEF CallsKept, Calls
    <2> QED
      BY <2>1, <1>1, CountedOnce DEF Ind, NotBefore
  <1> QED
    BY <1>2, <1>3, <1>4 DEF Ind, CallsKept

\* A manifest without a pause in it is harmless, and so is a walk's own pause when it ends.
LEMMA ManifestWritten ==
    ASSUME Ind, CallsKept, UNCHANGED <<sweep, taken>>,
           rec' \in Record, rec'.status = "needs_input" => rec'.ask \in Asks,
           rec'.ask # "none" => /\ rec'.status \notin {"running"}
                                /\ taken[rec'.walk] = 0 \/ rec'.status # "needs_input"
                                /\ \A c \in Calls : Early(c)' => rec'.walk # c
    PROVE  Ind'
  <1>1. Typed' /\ ClaimedOnce'
    BY DEF Ind, Typed, CallsKept, ClaimedOnce
  <1>2. CountedRight'
    BY DEF CountedRight, Asks
  <1>3. NotBefore'
    BY DEF Ind, NotBefore, CallsKept
  <1> QED
    BY <1>1, <1>2, <1>3 DEF Ind, CallsKept

---------------------------------------------------------------------------
(* The invariant                                                           *)

\* The manifest of a run that waits or failed begins with a pause nobody has acted on.
LEMMA IndInit == Init => Ind
  BY NCallsAssumption DEF Init, Ind, Typed, Record, CallRec, Pcs, Calls, NoCall, Asks, Final,
     SeenPaused, Paused, CountedRight, NotBefore, Early, ClaimedOnce, StagesRight, At, Claims

\* Every step of a call, a death and the sweep keep the invariant.
LEMMA IndStep == Ind /\ [Next]_vars => Ind'
  <1> SUFFICES ASSUME Ind, [Next]_vars PROVE Ind'
    OBVIOUS
  <1>1. ASSUME NEW c \in Calls, NEW p \in Procs, LookToAnswer(c, p) PROVE Ind'
    BY <1>1, OneBegins DEF LookToAnswer
  <1>2. ASSUME NEW c \in Calls, NEW p \in Procs, LookAsTool(c, p) PROVE Ind'
    BY <1>2, OneBegins DEF LookAsTool
  <1>3. ASSUME NEW c \in Calls, NEW p \in Procs, LookToStop(c, p) PROVE Ind'
    BY <1>3, OneBegins DEF LookToStop
  <1>4. ASSUME NEW c \in Calls, NEW p \in Procs, Cancel(c, p) PROVE Ind'
    <2>1. CallsKept
      BY <1>4, OneIsOver DEF Cancel
    <2> QED
      BY <1>4, <2>1, PauseSettled DEF Cancel
  <1>5. ASSUME NEW c \in Calls, Answer(c) PROVE Ind'
    <2>1. CASE rec.status # "needs_input"
      BY <1>5, <2>1, OneIsOver, Quiet DEF Answer
    <2>2. ASSUME rec.status = "needs_input", NEW o \in {"cancelled", "completed"}, Short(o),
                 Decided(rec.walk), Done(c)
          PROVE  Ind'
      BY <1>5, <2>2, OneIsOver, PauseSettled DEF Answer
    <2>3. ASSUME rec.status = "needs_input", UNCHANGED <<rec, taken>>,
                 call' = [call EXCEPT ![c].pc = "prepared", ![c].seen = rec]
          PROVE  Ind'
      <3> DEFINE r == [call[c] EXCEPT !.pc = "prepared", !.seen = rec]
      <3>1. call[c] \in CallRec /\ rec \in Record /\ Paused(rec)
        BY <2>3, PauseIsNew DEF Ind, Typed, Paused
      <3>2. r \in CallRec /\ r.pc = "prepared" /\ r.seen = rec /\ r.kind = "answer"
        BY <1>5, <3>1 DEF CallRec, Pcs, Answer, At, Claims, Ind, StagesRight
      <3>3. call' = [call EXCEPT ![c] = r]
        BY <2>3
      <3>4. Early(c)
        BY <1>5 DEF Answer, At, Early
      <3> HIDE DEF r
      <3>5. CallsKept
        BY <3>1, <3>2, <3>3, <3>4, OneMoves
      <3> QED
        BY <1>5, <2>3, <3>5, Quiet DEF Answer
    <2> QED
      BY <1>5, <2>1, <2>2, <2>3 DEF Answer
  <1>6. ASSUME NEW c \in Calls, Claim(c) PROVE Ind'
    <2>1. CASE rec # call[c].seen
      BY <1>6, <2>1, OneIsOver, Quiet DEF Claim
    <2>2. CASE rec = call[c].seen /\ Claims(c)
      <3>1. rec.status = "needs_input" /\ Paused(call[c].seen)
        BY <1>6, <2>2 DEF Claim, At, Ind, SeenPaused, Paused
      <3>2. call[c].proc \in Procs \cup {Nobody}
        BY DEF Ind, Typed, CallRec
      <3>3. CallsKept
        <4>1. call' = [call EXCEPT ![c].pc = "waiting"] /\ Early(c)
          BY <1>6, <2>2 DEF Claim, Goto, At, Early
        <4> QED
          BY <3>1, <4>1, OneGoesOn DEF Pcs
      <3> QED
        BY <1>6, <2>2, <3>1, <3>2, <3>3, PauseClaimed DEF Claim
    <2>3. Claims(c)
      BY <1>6 DEF Claim, At, Ind, StagesRight
    <2> QED
      BY <2>1, <2>2, <2>3
  <1>7. ASSUME NEW c \in Calls, Node(c) PROVE Ind'
    <2>1. rec' \in Record /\ rec'.status = "running" /\ rec'.ask = "none"
      BY <1>7 DEF Node, Ind, Typed, Record
    <2>2. CallsKept
      BY <1>7 DEF Node, CallsKept, Ind, Typed, StagesRight, SeenPaused, Early, At, Claims
    <2> QED
      BY <1>7, <2>1, <2>2, ManifestWritten DEF Node
  <1>8. ASSUME NEW c \in Calls, Enter(c) PROVE Ind'
    <2>1. Early(c) /\ (Claims(c) => Paused(call[c].seen))
      BY <1>8 DEF Enter, At, Early, Ind, SeenPaused
    <2>2. CallsKept
      BY <1>8, <2>1, OneGoesOn DEF Enter, Goto, Pcs
    <2> QED
      BY <1>8, <2>2, Quiet DEF Enter
  <1>9. ASSUME NEW c \in Calls, Refuse(c) PROVE Ind'
    BY <1>9, OneLetsGo, Quiet DEF Refuse, At
  <1>10. ASSUME NEW c \in Calls, Start(c) PROVE Ind'
    <2>1. Early(c) /\ (Claims(c) => Paused(call[c].seen))
      BY <1>10 DEF Start, At, Early, Ind, SeenPaused
    <2>2. CallsKept
      BY <1>10, <2>1, OneGoesOn DEF Start, Goto, Pcs
    <2>3. call[c].proc \in Procs \cup {Nobody} /\ c \in 0..NCalls
      BY NCallsAssumption DEF Ind, Typed, CallRec, Calls
    <2>4. rec' \in Record /\ rec'.status = "running" /\ rec'.ask = "none"
      BY <1>10, <2>3 DEF Start, Record
    <2> QED
      BY <1>10, <2>2, <2>4, ManifestWritten DEF Start
  <1>11. ASSUME NEW c \in Calls, NEW o \in Asks \cup {"completed", "cancelled", "aborted"}, End(c, o)
         PROVE  Ind'
    <2> DEFINE r == [call[c] EXCEPT !.pc = "ending", !.out = o]
    <2>1. call[c] \in CallRec
      BY DEF Ind, Typed
    <2>2. r \in CallRec /\ r.pc = "ending" /\ r.out = o /\ r.seen = call[c].seen
          /\ r.kind = call[c].kind
      BY <2>1 DEF CallRec, Pcs
    <2>3. call' = [call EXCEPT ![c] = r] /\ UNCHANGED <<rec, sweep, taken>>
      BY <1>11 DEF End
    <2>4. Early(c) /\ (Claims(c) => Paused(call[c].seen)) /\ o # "none"
      BY <1>11 DEF End, At, Early, Ind, SeenPaused, Asks
    <2> HIDE DEF r
    <2>5. CallsKept
      BY <2>2, <2>3, <2>4, OneMoves DEF Claims
    <2> QED
      BY <2>3, <2>5, Quiet
  <1>12. ASSUME NEW c \in Calls, Finalize(c) PROVE Ind'
    <2>1. CallsKept
      BY <1>12, OneLetsGo DEF Finalize, At
    <2>2. call[c] \in CallRec /\ call[c].out # "none" /\ Early(c) /\ c \in 0..NCalls
      BY <1>12, NCallsAssumption DEF Finalize, At, Early, Ind, Typed, StagesRight, Calls
    <2>3. taken[c] = 0
      BY <2>2 DEF Ind, NotBefore
    <2>4. rec' \in Record /\ rec'.walk = c
          /\ (rec'.ask # "none" => rec'.status = "needs_input")
          /\ (rec'.status = "needs_input" => rec'.ask \in Asks)
      BY <1>12, <2>2 DEF Finalize, Record, CallRec, Asks, Final
    <2>5. ~Early(c)'
      <3>1. CASE Claims(c)
        BY <1>12, <2>1, <3>1 DEF Finalize, AfterWalk, Early, Ind, Typed, CallRec
      <3>2. CASE ~Claims(c)
        BY <1>12, <2>1, <3>2 DEF Finalize, AfterWalk, Leave, Done, Over, NoCall, Early, Ind, Typed
      <3> QED
        BY <3>1, <3>2
    <2> QED
      BY <1>12, <2>1, <2>3, <2>4, <2>5, ManifestWritten DEF Finalize
  <1>13. ASSUME NEW c \in Calls, Release(c) PROVE Ind'
    <2>1. CallsKept /\ UNCHANGED sweep
      BY <1>13, OneIsOver DEF Release, Leave
    <2>2. CASE ~HasClaim(c)
      BY <1>13, <2>1, <2>2, Quiet DEF Release
    <2>3. CASE HasClaim(c)
      <3> DEFINE s == call[c].seen
      <3>1. Paused(s) /\ rec = Claimed(s, call[c].proc)
        BY <1>13, <2>3 DEF Release, HasClaim, At, Ind, SeenPaused
      <3>2. s \in Record /\ s.status = "needs_input" /\ s.ask \in Asks /\ s.ask # "none"
            /\ rec.status = "running" /\ rec.ask = s.ask /\ rec.walk = s.walk
            /\ rec.walk \in 0..NCalls
        BY <3>1 DEF Paused, Claimed, Record, Asks
      <3> HIDE DEF s
      <3>3. taken[rec.walk] = 1 /\ taken \in [0..NCalls -> Nat]
        BY <3>2 DEF Ind, Typed, CountedRight
      <3>4. rec' = s /\ taken' = [taken EXCEPT ![rec.walk] = @ - 1]
        BY <1>13, <2>3 DEF Release, s
      <3>5. taken' \in [0..NCalls -> Nat] /\ taken'[rec.walk] = 0
            /\ \A w \in 0..NCalls : w # rec.walk => taken'[w] = taken[w]
        BY <3>2, <3>3, <3>4
      <3>6. Typed' /\ ClaimedOnce' /\ CountedRight'
        BY <2>1, <3>2, <3>4, <3>5 DEF Ind, Typed, ClaimedOnce, CountedRight, CallsKept
      <3>7. NotBefore'
        BY <2>1, <3>2, <3>4, <3>5, NCallsAssumption DEF Ind, NotBefore, CallsKept, Calls
      <3> QED
        BY <2>1, <3>6, <3>7 DEF Ind, CallsKept
    <2> QED
      BY <2>2, <2>3
  <1>14. ASSUME NEW c \in Calls, Abandon(c) PROVE Ind'
    <2>1. UNCHANGED <<rec, sweep, taken>>
      BY <1>14 DEF Abandon
    <2>2. call[c] \in CallRec /\ (Claims(c) => Paused(call[c].seen))
      BY <1>14 DEF Abandon, At, Ind, Typed, SeenPaused
    <2>3. CASE Done(c)
      BY <2>1, <2>3, OneIsOver, Quiet
    <2>4. CASE call' = [call EXCEPT ![c].pc = "releasing", ![c].attached = FALSE]
      <3> DEFINE r == [call[c] EXCEPT !.pc = "releasing", !.attached = FALSE]
      <3>1. r \in CallRec /\ r.pc = "releasing" /\ r.kind = call[c].kind /\ r.seen = call[c].seen
        BY <2>2 DEF CallRec, Pcs
      <3>2. call' = [call EXCEPT ![c] = r]
        BY <2>4
      <3> HIDE DEF r
      <3>3. CallsKept
        BY <2>2, <3>1, <3>2, OneMoves DEF Claims
      <3> QED
        BY <2>1, <3>3, Quiet
    <2>5. CASE call' = [call EXCEPT ![c].attached = FALSE]
      <3> DEFINE r == [call[c] EXCEPT !.attached = FALSE]
      <3>1. r \in CallRec /\ r.pc = call[c].pc /\ r.kind = call[c].kind
            /\ r.seen = call[c].seen /\ r.out = call[c].out
        BY <2>2 DEF CallRec
      <3>2. call' = [call EXCEPT ![c] = r]
        BY <2>5
      <3>3. Early(c) \/ call[c].pc \in {"releasing", "done"}
        BY DEF Early
      <3>4. /\ call[c].pc = "ending" => call[c].out # "none"
            /\ call[c].pc \in {"asked", "prepared"} => Claims(c)
        BY DEF Ind, StagesRight, At
      <3> HIDE DEF r
      <3>5. CallsKept
        BY <2>2, <3>1, <3>2, <3>3, <3>4, OneMoves DEF Claims
      <3> QED
        BY <2>1, <3>5, Quiet
    <2> QED
      BY <1>14, <2>3, <2>4, <2>5 DEF Abandon
  <1>15. ASSUME NEW c \in Calls, Stop(c) PROVE Ind'
    BY <1>15, OneIsOver, Quiet DEF Stop
  <1>16. ASSUME NEW p \in Procs, Die(p) PROVE Ind'
    <2>1. Over \in CallRec /\ Over.pc = "done"
      BY DEF Over, NoCall, CallRec, Pcs
    <2>2. call' \in [Calls -> CallRec]
          /\ \A c \in Calls : call'[c] = Over \/ call'[c] = call[c]
      BY <1>16, <2>1 DEF Die, Ind, Typed
    <2>3. CallsKept
      BY <2>1, <2>2 DEF CallsKept, Ind, StagesRight, SeenPaused, Early, At, Claims
    <2> QED
      BY <1>16, <2>3, Quiet DEF Die
  <1>17. ASSUME SweepRead PROVE Ind'
    <2>1. Typed'
      BY <1>17 DEF SweepRead, Ind, Typed
    <2> QED
      BY <1>17, <2>1 DEF SweepRead, Ind, StagesRight, SeenPaused, CountedRight, NotBefore,
         ClaimedOnce, Early, At, Claims
  <1>18. ASSUME SweepWrite PROVE Ind'
    <2>1. sweep \in Record /\ sweep # Nobody
      BY <1>18 DEF SweepWrite, Ind, Typed
    <2>2. rec' \in Record /\ rec'.status = "crashed" /\ rec'.ask = sweep.ask
          /\ rec'.walk = sweep.walk
      BY <1>18, <2>1 DEF SweepWrite, Record, Final
    <2>3. Typed' /\ CountedRight'
      BY <1>18, <2>2 DEF SweepWrite, Ind, Typed, CountedRight
    <2>4. NotBefore'
      BY <1>18, <2>1, <2>2 DEF SweepWrite, Ind, NotBefore, Early
    <2> QED
      BY <1>18, <2>3, <2>4 DEF SweepWrite, Ind, StagesRight, SeenPaused, ClaimedOnce, At, Claims
  <1>19. CASE UNCHANGED vars
    BY <1>19 DEF vars, Ind, Typed, StagesRight, SeenPaused, CountedRight, NotBefore, ClaimedOnce,
       Early, At, Claims
  <1> QED
    BY <1>1, <1>2, <1>3, <1>4, <1>5, <1>6, <1>7, <1>8, <1>9, <1>10, <1>11, <1>12, <1>13,
       <1>14, <1>15, <1>16, <1>17, <1>18, <1>19 DEF Next, Thread

---------------------------------------------------------------------------
(* One hand at a time                                                      *)

\* A caller that gives a claim back, and has it still, holds the run too.
Returns(c) == At(c, "releasing") /\ HasClaim(c)
Holds(c)   == Drives(c) \/ Returns(c)

\* Whoever resumes the run, and where: only an answer has a claim to give back, and the
\* pause it saw is not that of a walk still to end.
RolesRight ==
    /\ flags \subseteq alive /\ alive \subseteq Procs
    /\ \A c \in Calls : Active(c) => call[c].proc \in alive
    /\ \A c \in Calls : /\ call[c].pc \in {"waiting", "entered", "walking", "ending"}
                            => Claims(c) \/ Unclaimed(c)
                        /\ At(c, "releasing") => Claims(c)
    /\ \A c, d \in Calls : Claims(c) /\ call[c].pc \notin {"idle", "asked", "done"} /\ Early(d)
                              => call[c].seen.walk # d

\* A resume that claims nothing is the only one.
Apart == \A c, d \in Calls : Resumes(c) /\ Resumes(d) /\ Unclaimed(d) => c = d

\* Before its walk a resume has the manifest as it claimed it, or finds it not running;
\* during the walk the manifest is its own; afterwards it is never as it was claimed.
Stands(c) ==
    /\ call[c].pc \in {"waiting", "entered"} =>
         IF Claims(c) THEN HasClaim(c) ELSE ~Running
    /\ call[c].pc \in {"walking", "ending"} => Running /\ rec.owner = call[c].proc
    /\ At(c, "releasing") => HasClaim(c) \/ rec.walk # call[c].seen.walk

OneHolder == \A c, d \in Calls : Holds(c) /\ Holds(d) => c = d
Held      == Running /\ rec.owner \in alive => \E c \in Calls : Holds(c)

\* What a sweep is about to write over is still what it read.
SweepFresh == sweep # Nobody => rec = sweep /\ Orphan

Alone == Apart /\ (\A c \in Calls : Stands(c)) /\ OneHolder /\ Held /\ SweepFresh

HandInd == RolesRight /\ (~raced => Alone)

\* The stages in which a resume may be driving the run.
Under == {"waiting", "entered", "walking", "ending"}

\* The claim of a pause carries its walk.
LEMMA ClaimOfPause ==
    ASSUME NEW s, Paused(s), NEW p
    PROVE  Claimed(s, p).walk = s.walk /\ Claimed(s, p).status = "running"
           /\ Claimed(s, p).owner = p /\ Claimed(s, p).ask = s.ask /\ s.ask # "none"
  BY DEF Paused, Claimed, Record, Asks

\* What is known of every call.
LEMMA CallFacts ==
    ASSUME Ind, RolesRight, NEW c \in Calls
    PROVE  /\ call[c] \in CallRec
           /\ Active(c) => call[c].proc \in alive /\ call[c].proc \in Procs
           /\ call[c].pc \in Under => Claims(c) \/ Unclaimed(c)
           /\ At(c, "releasing") => Claims(c)
           /\ Claims(c) /\ call[c].pc \notin {"idle", "asked", "done"} => Paused(call[c].seen)
           /\ ~(Claims(c) /\ Unclaimed(c))
  BY DEF Ind, Typed, RolesRight, SeenPaused, Claims, Unclaimed, Under

\* Who holds the run resumes it, in the process that the manifest names.
LEMMA HolderIs ==
    ASSUME Ind, HandInd, ~raced, NEW c \in Calls, Holds(c)
    PROVE  Running /\ rec.owner = call[c].proc /\ call[c].proc \in alive /\ Resumes(c)
           /\ ~Orphan /\ sweep = Nobody
  <1>1. Stands(c) /\ SweepFresh
    BY DEF HandInd, Alone
  <1>2. Resumes(c) /\ call[c].proc \in alive
    BY CallFacts DEF HandInd, Holds, Drives, Returns, Resumes, Active, At, Under
  <1>3. Running /\ rec.owner = call[c].proc
    <2>1. CASE call[c].pc \in {"walking", "ending"}
      BY <1>1, <2>1 DEF Stands
    <2>2. CASE call[c].pc \notin {"walking", "ending"}
      <3>1. HasClaim(c) /\ Claims(c) /\ call[c].pc \in {"waiting", "entered", "releasing"}
        BY <1>1, <2>2 DEF Stands, Holds, Drives, Returns, At, HasClaim
      <3>2. Paused(call[c].seen) /\ rec = Claimed(call[c].seen, call[c].proc)
        BY <3>1, CallFacts DEF HandInd, HasClaim
      <3> QED
        BY <3>2, ClaimOfPause DEF Running
    <2> QED
      BY <2>1, <2>2
  <1> QED
    BY <1>1, <1>2, <1>3 DEF Orphan, SweepFresh

\* Whoever is under way holds the run, or claims nothing and finds it not running.
LEMMA UnderIs ==
    ASSUME Ind, HandInd, ~raced, NEW c \in Calls, call[c].pc \in Under
    PROVE  Holds(c) \/ (Unclaimed(c) /\ Resumes(c) /\ ~Running)
  BY CallFacts DEF HandInd, Alone, Stands, Holds, Drives, At, Under, Resumes, Active

\* Beside the one that holds the run, or resumes it without a claim, nobody is under way.
LEMMA OthersAway ==
    ASSUME Ind, HandInd, ~raced, NEW c \in Calls,
           Holds(c) \/ (Resumes(c) /\ (Unclaimed(c) \/ ~Running)), NEW d \in Calls, d # c
    PROVE  /\ call[d].pc \notin Under
           /\ At(d, "releasing") => rec.walk # call[d].seen.walk
  <1>1. Apart /\ OneHolder /\ Stands(d) /\ Stands(c)
    BY DEF HandInd, Alone
  <1>2. ~Holds(d)
    <2>1. CASE Holds(c)
      BY <1>1, <2>1 DEF OneHolder
    <2>2. CASE Resumes(c) /\ Unclaimed(c)
      BY <1>1, <2>2, HolderIs DEF Apart
    <2>3. CASE ~Running
      BY <2>3, HolderIs
    <2> QED
      BY <2>1, <2>2, <2>3
  <1>3. Resumes(c)
    BY HolderIs
  <1>4. call[d].pc \notin Under
    BY <1>1, <1>2, <1>3, UnderIs DEF Apart
  <1>5. At(d, "releasing") => ~HasClaim(d)
    BY <1>2 DEF Holds, Returns
  <1> QED
    BY <1>1, <1>4, <1>5 DEF Stands

---------------------------------------------------------------------------
(* One call moves                                                          *)

\* A call that goes on keeps what it is.
LEMMA GoesTo ==
    ASSUME Ind, NEW c \in Calls, NEW x \in Pcs, call' = [call EXCEPT ![c].pc = x]
    PROVE  \E r \in CallRec : /\ call' = [call EXCEPT ![c] = r] /\ r.pc = x
                              /\ r.kind = call[c].kind /\ r.proc = call[c].proc
                              /\ r.seen = call[c].seen
  <1> DEFINE r == [call[c] EXCEPT !.pc = x]
  <1>1. call[c] \in CallRec
    BY DEF Ind, Typed
  <1>2. /\ r \in CallRec /\ r.pc = x /\ r.kind = call[c].kind /\ r.proc = call[c].proc
        /\ r.seen = call[c].seen
    BY <1>1 DEF CallRec
  <1>3. call' = [call EXCEPT ![c] = r]
    OBVIOUS
  <1> HIDE DEF r
  <1> QED
    BY <1>2, <1>3

LEMMA IsOver ==
    ASSUME NEW c \in Calls, Done(c)
    PROVE  \E r \in CallRec : call' = [call EXCEPT ![c] = r] /\ r.pc = "done" /\ r.kind = "none"
  <1>1. Over \in CallRec /\ Over.pc = "done" /\ Over.kind = "none"
    BY DEF Over, NoCall, CallRec, Pcs
  <1>2. call' = [call EXCEPT ![c] = Over]
    BY DEF Done
  <1> QED
    BY <1>1, <1>2

\* A call that is not over keeps its kind and its process; what it has seen is a pause.
Forward(c, r) ==
    \/ r.pc = "done" /\ r.kind = "none"
    \/ /\ Active(c) /\ r.pc # "idle"
       /\ r.kind = call[c].kind /\ r.proc = call[c].proc
       /\ At(c, "releasing") => r.pc = "releasing"
       /\ r.pc \in Under => call[c].pc \in Under \/ Claims(c)
       /\ r.pc = "releasing" => Claims(c)
       /\ \/ r.seen = call[c].seen /\ (At(c, "asked") => r.pc = "asked")
          \/ r.seen = rec /\ rec.status = "needs_input" /\ At(c, "asked")

LEMMA RolesStay ==
    ASSUME Ind, RolesRight, NEW c \in Calls, NEW r \in CallRec,
           call' = [call EXCEPT ![c] = r], Forward(c, r),
           UNCHANGED alive, flags' \subseteq alive
    PROVE  RolesRight'
  <1>1. call'[c] = r /\ \A d \in Calls : d # c => call'[d] = call[d]
    BY DEF Ind, Typed
  <1>2. \A d \in Calls : Active(d)' => call'[d].proc \in alive
    BY <1>1 DEF RolesRight, Active, Forward
  <1>3. \A d \in Calls : /\ call'[d].pc \in Under => (Claims(d) \/ Unclaimed(d))'
                         /\ At(d, "releasing")' => Claims(d)'
    BY <1>1 DEF RolesRight, Under, At, Claims, Unclaimed, Forward
  <1>4. \A d \in Calls : Early(d)' => Early(d)
    BY <1>1 DEF Early, Forward, At, Active
  <1>5. ASSUME NEW d \in Calls, NEW e \in Calls, Claims(d)',
               call'[d].pc \notin {"idle", "asked", "done"}, Early(e)'
        PROVE  call'[d].seen.walk # e
    <2>1. CASE d # c
      BY <1>1, <1>4, <1>5, <2>1 DEF RolesRight, Claims
    <2>2. CASE d = c /\ r.seen = rec /\ rec.status = "needs_input"
      BY <1>1, <1>4, <1>5, <2>2, PauseIsNew
    <2>3. CASE d = c /\ ~(r.seen = rec /\ rec.status = "needs_input")
      <3>1. Claims(c) /\ call[c].pc \notin {"idle", "asked", "done"} /\ r.seen = call[c].seen
        BY <1>1, <1>5, <2>3 DEF Forward, Claims, Active, At
      <3> QED
        BY <1>1, <1>4, <1>5, <2>3, <3>1 DEF RolesRight
    <2> QED
      BY <2>1, <2>2, <2>3
  <1>6. flags' \subseteq alive' /\ alive' \subseteq Procs
    BY DEF RolesRight
  <1>7. \A d \in Calls : /\ call'[d].pc \in {"waiting", "entered", "walking", "ending"}
                            => (Claims(d) \/ Unclaimed(d))'
                         /\ At(d, "releasing")' => Claims(d)'
    BY <1>3 DEF Under
  <1>8. \A d, e \in Calls :
          Claims(d)' /\ call'[d].pc \notin {"idle", "asked", "done"} /\ Early(e)'
            => call'[d].seen.walk # e
    BY <1>5
  <1> QED
    BY <1>2, <1>6, <1>7, <1>8 DEF RolesRight

\* What someone who does not move sees of an unchanged manifest.
LEMMA Unmoved ==
    ASSUME NEW d \in Calls, call'[d] = call[d], UNCHANGED rec
    PROVE  /\ Holds(d)' <=> Holds(d)
           /\ Stands(d)' <=> Stands(d)
           /\ Resumes(d)' <=> Resumes(d)
           /\ Unclaimed(d)' <=> Unclaimed(d)
  <1>1. /\ Claims(d)' <=> Claims(d)
        /\ Unclaimed(d)' <=> Unclaimed(d)
        /\ Active(d)' <=> Active(d)
        /\ HasClaim(d)' <=> HasClaim(d)
        /\ Running' <=> Running
    BY DEF Claims, Unclaimed, Active, HasClaim, Running
  <1> QED
    BY <1>1 DEF Holds, Drives, Returns, Stands, Resumes, At

\* A call moves and the manifest stays: it was not the holder and is over, or it holds the
\* run as before.
LEMMA HandStays ==
    ASSUME Ind, HandInd, NEW c \in Calls, NEW r \in CallRec,
           call' = [call EXCEPT ![c] = r], Forward(c, r),
           UNCHANGED <<rec, sweep, alive, raced>>, flags' \subseteq alive,
           ~raced => (Holds(c)' <=> Holds(c)) /\ Stands(c)'
    PROVE  HandInd'
  <1>1. RolesRight'
    BY RolesStay DEF HandInd
  <1>2. SUFFICES ASSUME ~raced PROVE Alone'
    BY <1>1 DEF HandInd
  <1>3. Alone
    BY <1>2 DEF HandInd
  <1>4. call'[c] = r /\ \A d \in Calls : d # c => call'[d] = call[d]
    BY DEF Ind, Typed
  <1>5. \A d \in Calls : (Holds(d)' <=> Holds(d)) /\ Stands(d)'
    <2> TAKE d \in Calls
    <2>1. CASE d = c
      BY <1>2, <2>1
    <2>2. CASE d # c
      BY <1>3, <1>4, <2>2, Unmoved DEF Alone
    <2> QED
      BY <2>1, <2>2
  <1>6. \A d \in Calls : (Resumes(d)' => Resumes(d)) /\ (Resumes(d)' /\ Unclaimed(d)' => Unclaimed(d))
    <2> TAKE d \in Calls
    <2>1. CASE d = c
      BY <1>4, <2>1 DEF Forward, Resumes, Active, Claims, Unclaimed
    <2>2. CASE d # c
      BY <1>4, <2>2, Unmoved
    <2> QED
      BY <2>1, <2>2
  <1>7. Apart'
    BY <1>3, <1>6 DEF Alone, Apart
  <1>8. OneHolder'
    BY <1>3, <1>5 DEF Alone, OneHolder
  <1>9. Held'
    BY <1>3, <1>5 DEF Alone, Held, Running
  <1>10. SweepFresh'
    BY <1>3 DEF Alone, SweepFresh, Orphan, Running
  <1> QED
    BY <1>5, <1>7, <1>8, <1>9, <1>10 DEF Alone

\* A call writes the manifest while nobody else is under way.
LEMMA HandWrites ==
    ASSUME Ind, HandInd, Ind', NEW c \in Calls, NEW r \in CallRec,
           call' = [call EXCEPT ![c] = r], Forward(c, r),
           UNCHANGED <<sweep, alive, raced>>, flags' \subseteq alive,
           ~raced =>
             /\ \A d \in Calls : d # c => /\ call[d].pc \notin Under
                                          /\ At(d, "releasing") => rec.walk # call[d].seen.walk
             /\ sweep = Nobody
             /\ rec'.walk = rec.walk \/ (rec'.walk = c /\ Early(c))
             /\ Stands(c)'
             /\ (Running /\ rec.owner \in alive)' => Holds(c)'
    PROVE  HandInd'
  <1>1. RolesRight'
    BY RolesStay DEF HandInd
  <1>2. SUFFICES ASSUME ~raced PROVE Alone'
    BY <1>1 DEF HandInd
  <1>3. Alone
    BY <1>2 DEF HandInd
  <1>4. call'[c] = r /\ \A d \in Calls : d # c => call'[d] = call[d]
    BY DEF Ind, Typed
  <1>5. ASSUME NEW d \in Calls, d # c PROVE ~Holds(d)' /\ Stands(d)'
    <2>1. call'[d] = call[d] /\ call'[d].pc \notin Under
      BY <1>2, <1>4, <1>5
    <2>2. CASE ~At(d, "releasing")
      <3>1. call'[d].pc \notin Under \cup {"releasing"}
        BY <2>1, <2>2 DEF At
      <3> QED
        BY <3>1 DEF Holds, Drives, Returns, Stands, At, Under
    <2>3. CASE At(d, "releasing")
      <3>1. Claims(d) /\ Paused(call[d].seen)
        BY <2>3, CallFacts DEF HandInd, At
      <3>2. rec.walk # call[d].seen.walk
        BY <1>2, <1>5, <2>3
      <3>3. Early(c) => call[d].seen.walk # c
        BY <2>3, <3>1 DEF HandInd, RolesRight, At
      <3>4. rec'.walk # call[d].seen.walk
        BY <1>2, <3>2, <3>3
      <3>5. ~HasClaim(d)'
        BY <2>1, <3>1, <3>4, ClaimOfPause DEF HasClaim
      <3>6. rec'.walk # call'[d].seen.walk /\ call'[d].pc = "releasing"
        BY <2>1, <2>3, <3>4 DEF At
      <3> QED
        BY <3>5, <3>6 DEF Holds, Drives, Returns, Stands, At
    <2> QED
      BY <2>2, <2>3
  <1>6. \A d \in Calls : (Resumes(d)' => Resumes(d)) /\ (Resumes(d)' /\ Unclaimed(d)' => Unclaimed(d))
    BY <1>4 DEF Forward, Resumes, Active, Claims, Unclaimed
  <1>7. Apart'
    BY <1>3, <1>6 DEF Alone, Apart
  <1>8. OneHolder'
    BY <1>5 DEF OneHolder
  <1>9. Held'
    BY <1>2 DEF Held
  <1>10. SweepFresh'
    BY <1>2 DEF SweepFresh
  <1> QED
    BY <1>2, <1>5, <1>7, <1>8, <1>9, <1>10 DEF Alone

---------------------------------------------------------------------------
(* The run is in one hand, after every step                                *)

\* A call that is not under way and gives nothing back can go.
LEMMA OneGoes ==
    ASSUME Ind, HandInd, NEW c \in Calls, Done(c), ~raced => ~Holds(c),
           UNCHANGED <<rec, sweep, alive, raced>>, flags' \subseteq alive
    PROVE  HandInd'
  <1>1. PICK r \in CallRec : call' = [call EXCEPT ![c] = r] /\ r.pc = "done" /\ r.kind = "none"
    BY IsOver
  <1>2. call'[c].pc = "done"
    BY <1>1 DEF Ind, Typed
  <1>3. ~Holds(c)' /\ Stands(c)'
    BY <1>2 DEF Holds, Drives, Returns, Stands, At
  <1> QED
    BY <1>1, <1>3, HandStays DEF Forward

\* A call begins.
LEMMA HandBegins ==
    ASSUME Ind, HandInd, NEW c \in Calls, NEW p \in Procs,
           NEW kind \in {"answer", "retry", "tool", "stop"},
           NEW pc \in {"asked", "waiting", "stopping"},
           kind = "answer" <=> pc = "asked",
           pc = "waiting" => kind \in {"retry", "tool"} /\ ~Running,
           Begin(c, p, kind, pc), IF kind = "stop" THEN UNCHANGED raced ELSE Meets(kind)
    PROVE  HandInd'
  <1> DEFINE r == [NoCall EXCEPT !.pc = pc, !.kind = kind, !.proc = p,
                    !.seen = IF kind = "tool" /\ rec.status = "needs_input" THEN rec ELSE Nobody]
  <1>1. r \in CallRec /\ r.pc = pc /\ r.kind = kind /\ r.proc = p
    BY DEF NoCall, CallRec, Pcs, Ind, Typed
  <1>2. /\ call' = [call EXCEPT ![c] = r] /\ UNCHANGED <<rec, flags, sweep, alive>>
        /\ p \in alive /\ At(c, "idle")
    <2>1. c >= c
      BY DEF Calls
    <2> QED
      BY <2>1 DEF Begin, Comes
  <1> HIDE DEF r
  <1>3. call'[c] = r /\ \A d \in Calls : d # c => call'[d] = call[d]
    BY <1>2 DEF Ind, Typed
  <1>4. \A d \in Calls : Early(d)' => Early(d)
    BY <1>2, <1>3 DEF Early, At
  <1>5. RolesRight'
    <2>1. \A d \in Calls : Active(d)' => call'[d].proc \in alive'
      BY <1>1, <1>2, <1>3 DEF HandInd, RolesRight, Active
    <2>2. \A d \in Calls : /\ call'[d].pc \in {"waiting", "entered", "walking", "ending"}
                              => (Claims(d) \/ Unclaimed(d))'
                           /\ At(d, "releasing")' => Claims(d)'
      BY <1>1, <1>3 DEF HandInd, RolesRight, At, Claims, Unclaimed
    <2>3. \A d, e \in Calls :
            Claims(d)' /\ call'[d].pc \notin {"idle", "asked", "done"} /\ Early(e)'
              => call'[d].seen.walk # e
      <3> TAKE d, e \in Calls
      <3>1. CASE d = c
        BY <1>1, <1>3, <3>1 DEF Claims
      <3>2. CASE d # c
        BY <1>3, <1>4, <3>2 DEF HandInd, RolesRight, Claims
      <3> QED
        BY <3>1, <3>2
    <2>4. flags' \subseteq alive' /\ alive' \subseteq Procs
      BY <1>2 DEF HandInd, RolesRight
    <2> QED
      BY <2>1, <2>2, <2>3, <2>4 DEF RolesRight
  <1>6. SUFFICES ASSUME ~raced' PROVE Alone'
    BY <1>5 DEF HandInd
  <1>7. ~raced /\ (kind # "stop" => \A d \in Calls : Resumes(d) => kind = "answer" /\ ~Unclaimed(d))
    BY <1>6 DEF Meets
  <1>8. Alone
    BY <1>7 DEF HandInd
  <1>9. ~Holds(c) /\ ~Resumes(c)
    BY <1>2 DEF Holds, Drives, Returns, Resumes, Active, At
  <1>10. ~Holds(c)' /\ Stands(c)'
    BY <1>1, <1>2, <1>3 DEF Holds, Drives, Returns, Stands, At, Claims, Running
  <1>11. \A d \in Calls : (Holds(d)' <=> Holds(d)) /\ Stands(d)'
    BY <1>2, <1>3, <1>8, <1>9, <1>10, Unmoved DEF Alone
  <1>12. Apart'
    <2> SUFFICES ASSUME NEW d \in Calls, NEW e \in Calls, Resumes(d)', Resumes(e)', Unclaimed(e)'
                 PROVE  d = e
      BY DEF Apart
    <2>1. CASE d # c /\ e # c
      BY <1>2, <1>3, <1>8, <2>1, Unmoved DEF Alone, Apart
    <2>2. CASE d = c /\ e # c
      <3>1. Resumes(e) /\ Unclaimed(e)
        BY <1>2, <1>3, <2>2, Unmoved
      <3>2. kind # "stop"
        BY <1>1, <1>3, <2>2 DEF Resumes, Claims, Unclaimed
      <3> QED
        BY <1>7, <3>1, <3>2
    <2>3. CASE d # c /\ e = c
      <3>1. Resumes(d)
        BY <1>2, <1>3, <2>3, Unmoved
      <3>2. kind \in {"retry", "tool"}
        BY <1>1, <1>3, <2>3 DEF Unclaimed
      <3> QED
        BY <1>7, <3>1, <3>2
    <2> QED
      BY <2>1, <2>2, <2>3
  <1>13. OneHolder' /\ Held' /\ SweepFresh'
    BY <1>2, <1>8, <1>11 DEF Alone, OneHolder, Held, SweepFresh, Orphan, Running
  <1> QED
    BY <1>11, <1>12, <1>13 DEF Alone

\* The run waits or failed, and nobody has called.
LEMMA HandInit == Init => HandInd
  <1> SUFFICES ASSUME Init PROVE HandInd
    OBVIOUS
  <1>1. \A c \in Calls : call[c].pc = "idle"
    BY DEF Init, NoCall
  <1>2. ~Running /\ sweep = Nobody /\ flags = {} /\ alive = Procs
    BY DEF Init, Running
  <1>3. RolesRight
    BY <1>1, <1>2 DEF RolesRight, Active, At
  <1>4. Alone
    BY <1>1, <1>2 DEF Alone, Apart, Resumes, Active, Stands, At, OneHolder, Holds, Drives,
       Returns, Held, SweepFresh
  <1> QED
    BY <1>3, <1>4 DEF HandInd

\* Every step of a call, a death and the sweep.
LEMMA HandStep == Ind /\ HandInd /\ [Next]_vars => HandInd'
  <1> SUFFICES ASSUME Ind, HandInd, [Next]_vars PROVE HandInd'
    OBVIOUS
  <1>i. Ind' /\ RolesRight /\ flags \subseteq alive
    BY IndStep DEF HandInd, RolesRight
  <1>1. ASSUME NEW c \in Calls, NEW p \in Procs, LookToAnswer(c, p) PROVE HandInd'
    BY <1>1, HandBegins DEF LookToAnswer, Running
  <1>2. ASSUME NEW c \in Calls, NEW p \in Procs, LookAsTool(c, p) PROVE HandInd'
    BY <1>2, HandBegins DEF LookAsTool, Running
  <1>3. ASSUME NEW c \in Calls, NEW p \in Procs, LookToStop(c, p) PROVE HandInd'
    BY <1>3, HandBegins DEF LookToStop
  <1>4. ASSUME NEW c \in Calls, NEW o \in {"cancelled", "completed"}, rec.status = "needs_input",
               Short(o), Done(c), At(c, "idle") \/ At(c, "asked"),
               UNCHANGED <<flags, sweep, alive, raced>>
        PROVE  HandInd'
    <2>1. PICK r \in CallRec : call' = [call EXCEPT ![c] = r] /\ r.pc = "done" /\ r.kind = "none"
      BY <1>4, IsOver
    <2>2. /\ rec'.walk = rec.walk /\ rec'.status = o
      BY <1>4 DEF Short, Ind, Typed, Record
    <2>3. ~Running /\ ~Running' /\ ~Orphan
      BY <1>4, <2>2 DEF Running, Orphan
    <2>4. call'[c] = r /\ \A d \in Calls : d # c => call'[d] = call[d]
      BY <2>1 DEF Ind, Typed
    <2>5. RolesRight'
      BY <1>4, <1>i, <2>1, RolesStay DEF Forward
    <2> SUFFICES ASSUME ~raced PROVE Alone'
      BY <1>4, <2>5 DEF HandInd
    <2>6. Alone
      BY DEF HandInd
    <2>7. ASSUME NEW d \in Calls PROVE ~Holds(d)' /\ Stands(d)'
      <3>1. CASE d = c
        BY <2>1, <2>4, <3>1 DEF Holds, Drives, Returns, Stands, At
      <3>2. CASE d # c
        <4>1. call'[d] = call[d] /\ ~Holds(d) /\ Stands(d)
          BY <2>3, <2>4, <2>6, <3>2, HolderIs DEF Alone
        <4>2. call[d].pc \in Under => Unclaimed(d) /\ ~Claims(d) /\ call[d].pc \in {"waiting", "entered"}
          BY <2>3, <4>1, UnderIs, CallFacts, <1>i DEF Stands, Under
        <4>3. At(d, "releasing") => rec'.walk # call[d].seen.walk
          BY <2>2, <4>1 DEF Stands, Holds, Returns
        <4>4. At(d, "releasing") => ~HasClaim(d)'
          BY <1>i, <4>1, <4>3, CallFacts, ClaimOfPause DEF HasClaim, At
        <4> QED
          BY <2>3, <4>1, <4>2, <4>3, <4>4 DEF Holds, Drives, Returns, Stands, At, Under, Claims
      <3> QED
        BY <3>1, <3>2
    <2>8. \A d \in Calls : (Resumes(d)' => Resumes(d)) /\ (Resumes(d)' /\ Unclaimed(d)' => Unclaimed(d))
      BY <2>1, <2>4 DEF Resumes, Active, Claims, Unclaimed
    <2>9. Apart'
      BY <2>6, <2>8 DEF Alone, Apart
    <2>10. OneHolder' /\ Held' /\ SweepFresh'
      BY <1>4, <2>3, <2>6, <2>7 DEF Alone, OneHolder, Held, SweepFresh
    <2> QED
      BY <2>7, <2>9, <2>10 DEF Alone
  <1>5. ASSUME NEW c \in Calls, NEW p \in Procs, Cancel(c, p) PROVE HandInd'
    <2>1. c >= c
      BY DEF Calls
    <2> QED
      BY <1>4, <1>5, <2>1 DEF Cancel, Comes
  <1>6. ASSUME NEW c \in Calls, Answer(c) PROVE HandInd'
    <2>1. CASE Done(c) /\ UNCHANGED rec
      BY <1>6, <1>i, <2>1, OneGoes DEF Answer, Holds, Drives, Returns, At
    <2>2. CASE rec.status = "needs_input" /\ Done(c) /\ \E o \in {"cancelled", "completed"} : Short(o)
      BY <1>4, <1>6, <2>2 DEF Answer
    <2>3. CASE rec.status = "needs_input" /\ UNCHANGED rec
               /\ call' = [call EXCEPT ![c].pc = "prepared", ![c].seen = rec]
      <3> DEFINE r == [call[c] EXCEPT !.pc = "prepared", !.seen = rec]
      <3>1. call[c] \in CallRec /\ rec \in Record
        BY DEF Ind, Typed
      <3>2. /\ r \in CallRec /\ r.pc = "prepared" /\ r.seen = rec /\ r.kind = call[c].kind
            /\ r.proc = call[c].proc
        BY <3>1 DEF CallRec, Pcs
      <3>3. call' = [call EXCEPT ![c] = r]
        BY <2>3
      <3>4. At(c, "asked") /\ Active(c)
        BY <1>6 DEF Answer, At, Active
      <3> HIDE DEF r
      <3>5. Forward(c, r)
        BY <2>3, <3>2, <3>4 DEF Forward, At, Under
      <3>6. call'[c].pc = "prepared"
        BY <3>2, <3>3 DEF Ind, Typed
      <3>7. ~Holds(c)' /\ ~Holds(c) /\ Stands(c)'
        BY <3>4, <3>6 DEF Holds, Drives, Returns, Stands, At
      <3> QED
        BY <1>6, <1>i, <2>3, <3>2, <3>3, <3>5, <3>7, HandStays DEF Answer
    <2> QED
      BY <1>6, <2>1, <2>2, <2>3 DEF Answer
  <1>7. ASSUME NEW c \in Calls, Claim(c) PROVE HandInd'
    <2>1. CASE rec # call[c].seen
      BY <1>7, <1>i, <2>1, OneGoes DEF Claim, Holds, Drives, Returns, At
    <2>2. CASE rec = call[c].seen
      <3>1. Claims(c) /\ At(c, "prepared") /\ Active(c)
        BY <1>7 DEF Claim, At, Active, Ind, StagesRight
      <3>2. Paused(rec) /\ call[c].proc \in Procs /\ Resumes(c)
        BY <1>i, <2>2, <3>1, CallFacts DEF At, Resumes
      <3>3. PICK r \in CallRec : /\ call' = [call EXCEPT ![c] = r] /\ r.pc = "waiting"
                                 /\ r.kind = call[c].kind /\ r.proc = call[c].proc
                                 /\ r.seen = call[c].seen
        BY <1>7, <2>2, GoesTo DEF Claim, Goto, Pcs
      <3>4. Forward(c, r)
        BY <3>1, <3>3 DEF Forward, At, Under
      <3>5. rec' = Claimed(rec, call[c].proc) /\ UNCHANGED <<flags, sweep, alive, raced>>
        BY <1>7, <2>2 DEF Claim
      <3>6. rec'.walk = rec.walk /\ ~Running /\ ~Orphan
        BY <3>2, <3>5, ClaimOfPause DEF Paused, Running, Orphan
      <3>7. call'[c] = r
        BY <3>3 DEF Ind, Typed
      <3>8. HasClaim(c)' /\ Claims(c)' /\ At(c, "waiting")'
        BY <2>2, <3>1, <3>3, <3>5, <3>7 DEF HasClaim, Claims, At
      <3>9. Stands(c)' /\ Holds(c)'
        BY <3>8 DEF Stands, Holds, Drives, At
      <3>10. ASSUME ~raced
             PROVE  /\ \A d \in Calls : d # c => /\ call[d].pc \notin Under
                                                 /\ At(d, "releasing") => rec.walk # call[d].seen.walk
                    /\ sweep = Nobody
        BY <3>2, <3>6, <3>10, OthersAway DEF HandInd, Alone, SweepFresh
      <3> QED
        BY <1>i, <3>3, <3>4, <3>5, <3>6, <3>9, <3>10, HandWrites
    <2> QED
      BY <2>1, <2>2
  <1>8. ASSUME NEW c \in Calls, Node(c) PROVE HandInd'
    <2> DEFINE r == call[c]
    <2>1. r \in CallRec /\ call' = [call EXCEPT ![c] = r] /\ call'[c] = call[c]
      BY <1>8 DEF Node, Ind, Typed
    <2>2. At(c, "walking") /\ Active(c) /\ Holds(c)
      BY <1>8 DEF Node, At, Active, Holds, Drives
    <2>3. Forward(c, r)
      BY <2>2 DEF Forward, At, Under
    <2> HIDE DEF r
    <2>4. rec'.walk = rec.walk /\ rec'.owner = rec.owner /\ rec'.status = "running"
      BY <1>8 DEF Node, Ind, Typed, Record
    <2>5. Holds(c)'
      BY <2>1, <2>2 DEF Holds, Drives, At
    <2>6. ASSUME ~raced PROVE Stands(c)' /\ sweep = Nobody
      <3>1. rec.owner = call[c].proc /\ sweep = Nobody
        BY <2>2, <2>6, HolderIs
      <3> QED
        BY <2>1, <2>2, <2>4, <3>1 DEF Stands, At, Running
    <2>7. UNCHANGED <<sweep, alive, raced, flags>>
      BY <1>8 DEF Node
    <2> QED
      BY <1>i, <2>1, <2>2, <2>3, <2>4, <2>5, <2>6, <2>7, OthersAway, HandWrites
  <1>9. ASSUME NEW c \in Calls, Enter(c) PROVE HandInd'
    <2>1. PICK r \in CallRec : /\ call' = [call EXCEPT ![c] = r] /\ r.pc = "entered"
                               /\ r.kind = call[c].kind /\ r.proc = call[c].proc
                               /\ r.seen = call[c].seen
      <3>1. call' = [call EXCEPT ![c].pc = "entered"] /\ "entered" \in Pcs
        BY <1>9 DEF Enter, Goto, Pcs
      <3> QED
        BY <3>1, GoesTo
    <2>2. At(c, "waiting") /\ Active(c) /\ UNCHANGED <<rec, flags, sweep, alive, raced>>
      BY <1>9 DEF Enter, At, Active
    <2>3. Forward(c, r)
      BY <2>1, <2>2 DEF Forward, At, Under
    <2>4. call'[c] = r
      BY <2>1 DEF Ind, Typed
    <2>5. (Claims(c)' <=> Claims(c)) /\ (HasClaim(c)' <=> HasClaim(c)) /\ (Running' <=> Running)
      BY <2>1, <2>2, <2>4 DEF Claims, HasClaim, Running
    <2>6. Holds(c)' <=> Holds(c)
      BY <2>1, <2>2, <2>4, <2>5 DEF Holds, Drives, Returns, At
    <2>7. ~raced => Stands(c)'
      BY <2>1, <2>2, <2>4, <2>5 DEF HandInd, Alone, Stands, At
    <2> QED
      BY <1>i, <2>1, <2>2, <2>3, <2>6, <2>7, HandStays
  <1>10. ASSUME NEW c \in Calls, Refuse(c) PROVE HandInd'
    <2>1. At(c, "entered") /\ Active(c) /\ AfterWalk(c) /\ UNCHANGED <<rec, sweep, alive, raced>>
      BY <1>10 DEF Refuse, At, Active
    <2>2. CASE ~Claims(c)
      BY <1>i, <2>1, <2>2, OneGoes DEF AfterWalk, Leave, Holds, Drives, Returns, At
    <2>3. CASE Claims(c)
      <3> DEFINE r == [call[c] EXCEPT !.pc = "releasing", !.out = "none"]
      <3>1. call[c] \in CallRec
        BY DEF Ind, Typed
      <3>2. /\ r \in CallRec /\ r.pc = "releasing" /\ r.seen = call[c].seen
            /\ r.kind = call[c].kind /\ r.proc = call[c].proc
        BY <3>1 DEF CallRec, Pcs
      <3>3. call' = [call EXCEPT ![c] = r] /\ UNCHANGED flags
        BY <2>1, <2>3 DEF AfterWalk
      <3> HIDE DEF r
      <3>4. call'[c] = r
        BY <3>3 DEF Ind, Typed
      <3>5. Forward(c, r)
        BY <2>1, <2>3, <3>2 DEF Forward, At, Under
      <3>6. ~raced => HasClaim(c)
        BY <2>1, <2>3 DEF HandInd, Alone, Stands, At
      <3>7. HasClaim(c) => HasClaim(c)'
        BY <2>1, <3>2, <3>4 DEF HasClaim, Claims
      <3>8. ~raced => Holds(c) /\ Holds(c)' /\ Stands(c)'
        BY <2>1, <2>3, <3>2, <3>4, <3>6, <3>7 DEF Holds, Drives, Returns, Stands, At
      <3> QED
        BY <1>i, <2>1, <3>2, <3>3, <3>5, <3>8, HandStays
    <2> QED
      BY <2>2, <2>3
  <1>11. ASSUME NEW c \in Calls, Start(c) PROVE HandInd'
    <2>1. PICK r \in CallRec : /\ call' = [call EXCEPT ![c] = r] /\ r.pc = "walking"
                               /\ r.kind = call[c].kind /\ r.proc = call[c].proc
                               /\ r.seen = call[c].seen
      <3>1. call' = [call EXCEPT ![c].pc = "walking"] /\ "walking" \in Pcs
        BY <1>11 DEF Start, Goto, Pcs
      <3> QED
        BY <3>1, GoesTo
    <2>2. /\ At(c, "entered") /\ Active(c) /\ Early(c) /\ UNCHANGED <<flags, sweep, alive, raced>>
          /\ rec'.walk = c /\ rec'.status = "running" /\ rec'.owner = call[c].proc
      BY <1>11 DEF Start, At, Active, Early
    <2>3. Forward(c, r)
      BY <2>1, <2>2 DEF Forward, At, Under
    <2>4. call'[c] = r
      BY <2>1 DEF Ind, Typed
    <2>5. Stands(c)' /\ Holds(c)'
      BY <2>1, <2>2, <2>4 DEF Stands, Holds, Drives, At, Running
    <2>6. ~raced => Holds(c) \/ (Unclaimed(c) /\ Resumes(c) /\ ~Running)
      BY <2>2, UnderIs DEF At, Under
    <2>7. ~raced => sweep = Nobody
      BY <2>6, HolderIs DEF HandInd, Alone, SweepFresh, Orphan
    <2>8. ASSUME ~raced
          PROVE  \A d \in Calls : d # c => /\ call[d].pc \notin Under
                                           /\ At(d, "releasing") => rec.walk # call[d].seen.walk
      BY <2>6, <2>8, OthersAway
    <2> QED
      BY <1>i, <2>1, <2>2, <2>3, <2>5, <2>7, <2>8, HandWrites
  <1>12. ASSUME NEW c \in Calls, NEW o \in Asks \cup {"completed", "cancelled", "aborted"}, End(c, o)
         PROVE  HandInd'
    <2> DEFINE r == [call[c] EXCEPT !.pc = "ending", !.out = o]
    <2>1. call[c] \in CallRec
      BY DEF Ind, Typed
    <2>2. /\ r \in CallRec /\ r.pc = "ending" /\ r.seen = call[c].seen
          /\ r.kind = call[c].kind /\ r.proc = call[c].proc
      BY <2>1 DEF CallRec, Pcs
    <2>3. call' = [call EXCEPT ![c] = r] /\ UNCHANGED <<rec, sweep, alive, raced>>
          /\ flags' \subseteq alive /\ At(c, "walking") /\ Active(c)
      BY <1>12, <1>i DEF End, At, Active
    <2> HIDE DEF r
    <2>4. call'[c] = r
      BY <2>3 DEF Ind, Typed
    <2>5. Forward(c, r)
      BY <2>2, <2>3 DEF Forward, At, Under
    <2>6. Holds(c) /\ Holds(c)'
      BY <2>2, <2>3, <2>4 DEF Holds, Drives, At
    <2>7. ~raced => Stands(c)'
      BY <2>2, <2>3, <2>4 DEF HandInd, Alone, Stands, At, Running
    <2> QED
      BY <2>2, <2>3, <2>5, <2>6, <2>7, HandStays
  <1>13. ASSUME NEW c \in Calls, Finalize(c) PROVE HandInd'
    <2>1. /\ At(c, "ending") /\ Active(c) /\ Early(c) /\ Holds(c) /\ AfterWalk(c)
          /\ UNCHANGED <<sweep, alive, raced>> /\ flags' \subseteq alive
      BY <1>13, <1>i DEF Finalize, At, Active, Early, Holds, Drives, AfterWalk, Leave
    <2>2. rec'.walk = c /\ ~Running'
      <3>1. call[c].out # "running"
        BY DEF Ind, Typed, CallRec, Asks
      <3> QED
        BY <1>13, <3>1 DEF Finalize, Running
    <2>3. \E r \in CallRec : call' = [call EXCEPT ![c] = r] /\ Forward(c, r) /\ Stands(c)'
      <3>1. CASE ~Claims(c)
        <4>1. PICK r \in CallRec : call' = [call EXCEPT ![c] = r] /\ r.pc = "done" /\ r.kind = "none"
          BY <2>1, <3>1, IsOver DEF AfterWalk, Leave
        <4>2. call'[c].pc = "done"
          BY <4>1 DEF Ind, Typed
        <4> QED
          BY <4>1, <4>2 DEF Forward, Stands, At
      <3>2. CASE Claims(c)
        <4> DEFINE r == [call[c] EXCEPT !.pc = "releasing", !.out = "none"]
        <4>1. call[c] \in CallRec
          BY DEF Ind, Typed
        <4>2. /\ r \in CallRec /\ r.pc = "releasing" /\ r.seen = call[c].seen
              /\ r.kind = call[c].kind /\ r.proc = call[c].proc
          BY <4>1 DEF CallRec, Pcs
        <4>3. call' = [call EXCEPT ![c] = r]
          BY <2>1, <3>2 DEF AfterWalk
        <4> HIDE DEF r
        <4>4. call'[c] = r
          BY <4>3 DEF Ind, Typed
        <4>5. Forward(c, r)
          BY <2>1, <3>2, <4>2 DEF Forward, At, Under
        <4>6. call[c].seen.walk # c
          BY <1>i, <2>1, <3>2 DEF RolesRight, At
        <4> QED
          BY <2>2, <4>2, <4>3, <4>4, <4>5, <4>6 DEF Stands, At
      <3> QED
        BY <3>1, <3>2
    <2>4. PICK r \in CallRec : call' = [call EXCEPT ![c] = r] /\ Forward(c, r) /\ Stands(c)'
      BY <2>3
    <2>5. ~raced => sweep = Nobody
      BY <2>1, HolderIs
    <2> QED
      BY <1>i, <2>1, <2>2, <2>4, <2>5, OthersAway, HandWrites
  <1>14. ASSUME NEW c \in Calls, Release(c) PROVE HandInd'
    <2>1. At(c, "releasing") /\ Done(c) /\ UNCHANGED <<sweep, alive, raced>> /\ flags' \subseteq alive
      BY <1>14, <1>i DEF Release, Leave
    <2>2. CASE ~HasClaim(c)
      BY <1>14, <2>1, <2>2, OneGoes DEF Release, Holds, Drives, Returns, At
    <2>3. CASE HasClaim(c)
      <3>1. Holds(c) /\ Paused(call[c].seen) /\ rec' = call[c].seen
            /\ rec = Claimed(call[c].seen, call[c].proc)
        BY <1>14, <1>i, <2>1, <2>3, CallFacts DEF Release, Holds, Returns, HasClaim, At
      <3>2. rec'.walk = rec.walk /\ ~Running'
        BY <3>1, ClaimOfPause DEF Paused, Running
      <3>3. PICK r \in CallRec : call' = [call EXCEPT ![c] = r] /\ r.pc = "done" /\ r.kind = "none"
        BY <2>1, IsOver
      <3>4. call'[c].pc = "done" /\ Forward(c, r)
        BY <3>3 DEF Ind, Typed, Forward
      <3>5. Stands(c)'
        BY <3>4 DEF Stands, At
      <3>6. ~raced => sweep = Nobody
        BY <3>1, HolderIs
      <3> QED
        BY <1>i, <2>1, <3>1, <3>2, <3>3, <3>4, <3>5, <3>6, OthersAway, HandWrites
    <2> QED
      BY <2>2, <2>3
  <1>15. ASSUME NEW c \in Calls, Abandon(c) PROVE HandInd'
    <2>1. UNCHANGED <<rec, sweep, alive, raced>> /\ flags' \subseteq alive /\ call[c] \in CallRec
      BY <1>15, <1>i DEF Abandon, Ind, Typed
    <2>2. CASE At(c, "waiting") /\ ~Claims(c) /\ Done(c)
      BY <2>1, <2>2, OneGoes DEF Holds, Drives, Returns, At
    <2>3. CASE At(c, "waiting") /\ Claims(c)
               /\ call' = [call EXCEPT ![c].pc = "releasing", ![c].attached = FALSE]
      <3> DEFINE r == [call[c] EXCEPT !.pc = "releasing", !.attached = FALSE]
      <3>2. /\ r \in CallRec /\ r.pc = "releasing" /\ r.seen = call[c].seen
            /\ r.kind = call[c].kind /\ r.proc = call[c].proc
        BY <2>1 DEF CallRec, Pcs
      <3>3. call' = [call EXCEPT ![c] = r]
        BY <2>3
      <3> HIDE DEF r
      <3>4. call'[c] = r
        BY <3>3 DEF Ind, Typed
      <3>5. Forward(c, r)
        BY <2>3, <3>2 DEF Forward, At, Under, Active
      <3>6. ~raced => HasClaim(c)
        BY <2>3 DEF HandInd, Alone, Stands, At
      <3>7. HasClaim(c) => HasClaim(c)'
        BY <2>1, <3>2, <3>4 DEF HasClaim, Claims
      <3>8. ~raced => Holds(c) /\ Holds(c)' /\ Stands(c)'
        BY <2>3, <3>2, <3>4, <3>6, <3>7 DEF Holds, Drives, Returns, Stands, At
      <3> QED
        BY <2>1, <3>2, <3>3, <3>5, <3>8, HandStays
    <2>4. CASE /\ call[c].pc \in {"entered", "walking", "ending", "releasing"}
               /\ call' = [call EXCEPT ![c].attached = FALSE]
      <3> DEFINE r == [call[c] EXCEPT !.attached = FALSE]
      <3>2. /\ r \in CallRec /\ r.pc = call[c].pc /\ r.seen = call[c].seen
            /\ r.kind = call[c].kind /\ r.proc = call[c].proc
        BY <2>1 DEF CallRec
      <3>3. call' = [call EXCEPT ![c] = r]
        BY <2>4
      <3> HIDE DEF r
      <3>4. call'[c] = r
        BY <3>3 DEF Ind, Typed
      <3>5. Forward(c, r)
        BY <1>i, <2>4, <3>2, CallFacts DEF Forward, At, Under, Active
      <3>6. (HasClaim(c)' <=> HasClaim(c)) /\ (Claims(c)' <=> Claims(c)) /\ (Running' <=> Running)
        BY <2>1, <3>2, <3>4 DEF HasClaim, Claims, Running
      <3>7. Holds(c)' <=> Holds(c)
        BY <3>2, <3>4, <3>6 DEF Holds, Drives, Returns, At
      <3>8. ~raced => Stands(c)'
        BY <2>1, <3>2, <3>4, <3>6 DEF HandInd, Alone, Stands, At
      <3> QED
        BY <2>1, <3>2, <3>3, <3>5, <3>7, <3>8, HandStays
    <2> QED
      BY <1>15, <2>2, <2>3, <2>4 DEF Abandon, At
  <1>16. ASSUME NEW c \in Calls, Stop(c) PROVE HandInd'
    <2>1. At(c, "stopping") /\ Done(c) /\ UNCHANGED <<rec, sweep, alive, raced>>
          /\ flags' = flags \cup {call[c].proc}
      BY <1>16 DEF Stop
    <2>2. flags' \subseteq alive
      BY <1>i, <2>1, CallFacts DEF Active, At
    <2> QED
      BY <2>1, <2>2, OneGoes DEF Holds, Drives, Returns, At
  <1>17. ASSUME NEW p \in Procs, Die(p) PROVE HandInd'
    <2>1. /\ alive' = alive \ {p} /\ flags' = flags \ {p} /\ UNCHANGED <<rec, sweep, raced>>
          /\ \A d \in Calls : IF Active(d) /\ call[d].proc = p
                              THEN call'[d] = Over ELSE call'[d] = call[d]
      BY <1>17 DEF Die
    <2>2. Over.pc = "done" /\ Over.kind = "none"
      BY DEF Over, NoCall
    <2>3. RolesRight'
      <3>1. \A d \in Calls : Active(d)' => call'[d] = call[d] /\ call'[d].proc \in alive'
        BY <1>i, <2>1, <2>2 DEF RolesRight, Active
      <3>2. \A d \in Calls : /\ call'[d].pc \in {"waiting", "entered", "walking", "ending"}
                                => (Claims(d) \/ Unclaimed(d))'
                             /\ At(d, "releasing")' => Claims(d)'
        BY <1>i, <2>1, <2>2 DEF RolesRight, At, Claims, Unclaimed
      <3>3. \A d \in Calls : Early(d)' => Early(d)
        BY <2>1, <2>2 DEF Early
      <3>4. \A d, e \in Calls :
              Claims(d)' /\ call'[d].pc \notin {"idle", "asked", "done"} /\ Early(e)'
                => call'[d].seen.walk # e
        BY <1>i, <2>1, <2>2, <3>3 DEF RolesRight, Claims
      <3>5. flags' \subseteq alive' /\ alive' \subseteq Procs
        BY <1>i, <2>1 DEF RolesRight
      <3> QED
        BY <3>1, <3>2, <3>4, <3>5 DEF RolesRight
    <2> SUFFICES ASSUME ~raced PROVE Alone'
      BY <2>1, <2>3 DEF HandInd
    <2>4. Alone
      BY DEF HandInd
    <2>5. ASSUME NEW d \in Calls, call'[d] # call[d]
          PROVE  ~Holds(d)' /\ Stands(d)' /\ ~Resumes(d)' /\ call[d].proc = p
      <3>1. call'[d].pc = "done" /\ call[d].proc = p
        BY <2>1, <2>2, <2>5
      <3> QED
        BY <3>1 DEF Holds, Drives, Returns, Stands, Resumes, Active, At
    <2>6. \A d \in Calls : (Holds(d)' => Holds(d)) /\ Stands(d)'
      BY <2>1, <2>4, <2>5, Unmoved DEF Alone
    <2>7. Apart' /\ OneHolder'
      BY <2>1, <2>4, <2>5, <2>6, Unmoved DEF Alone, Apart, OneHolder
    <2>8. Held'
      <3> SUFFICES ASSUME Running, rec.owner \in alive, rec.owner # p PROVE \E d \in Calls : Holds(d)'
        BY <2>1 DEF Held, Running
      <3>1. PICK d \in Calls : Holds(d)
        BY <2>4 DEF Alone, Held
      <3>2. call[d].proc # p
        BY <3>1, HolderIs
      <3> QED
        BY <2>1, <2>5, <3>1, <3>2, Unmoved
    <2>9. SweepFresh'
      BY <2>1, <2>4 DEF Alone, SweepFresh, Orphan, Running
    <2> QED
      BY <2>6, <2>7, <2>8, <2>9 DEF Alone
  <1>18. CASE SweepRead \/ UNCHANGED vars
    <2>1. /\ UNCHANGED <<rec, call, flags, alive, raced>>
          /\ (sweep' = rec /\ Orphan) \/ sweep' = sweep
      BY <1>18 DEF SweepRead, vars
    <2>2. RolesRight'
      BY <1>i, <2>1 DEF RolesRight, Active, At, Claims, Unclaimed, Early
    <2> SUFFICES ASSUME ~raced PROVE Alone'
      BY <2>1, <2>2 DEF HandInd
    <2>3. Alone
      BY DEF HandInd
    <2>4. \A d \in Calls : /\ Holds(d)' <=> Holds(d)
                           /\ Stands(d)'
                           /\ Resumes(d)' <=> Resumes(d)
                           /\ Unclaimed(d)' <=> Unclaimed(d)
      BY <2>1, <2>3, Unmoved DEF Alone
    <2>5. Apart' /\ OneHolder' /\ Held'
      BY <2>1, <2>3, <2>4 DEF Alone, Apart, OneHolder, Held, Running
    <2>6. SweepFresh'
      BY <2>1, <2>3 DEF Alone, SweepFresh, Orphan, Running
    <2> QED
      BY <2>4, <2>5, <2>6 DEF Alone
  <1>19. CASE SweepWrite
    <2>1. /\ sweep # Nobody /\ UNCHANGED <<call, flags, alive, raced>> /\ sweep' = Nobody
          /\ rec' = [sweep EXCEPT !.status = "crashed"]
      BY <1>19 DEF SweepWrite
    <2>2. RolesRight'
      BY <1>i, <2>1 DEF RolesRight, Active, At, Claims, Unclaimed, Early
    <2> SUFFICES ASSUME ~raced PROVE Alone'
      BY <2>1, <2>2 DEF HandInd
    <2>3. Alone /\ rec = sweep /\ Orphan /\ Running
      BY <2>1 DEF HandInd, Alone, SweepFresh, Orphan
    <2>4. rec'.walk = rec.walk /\ ~Running'
      BY <2>1, <2>3 DEF Ind, Typed, Record, Running
    <2>5. ASSUME NEW d \in Calls PROVE ~Holds(d)' /\ Stands(d)'
      <3>1. ~Holds(d) /\ call[d].pc \notin Under /\ Stands(d)
        BY <2>3, HolderIs, UnderIs DEF Alone
      <3>2. At(d, "releasing") => rec'.walk # call'[d].seen.walk
        BY <2>1, <2>4, <3>1 DEF Stands, Holds, Returns
      <3>3. At(d, "releasing") => ~HasClaim(d)'
        <4> SUFFICES ASSUME At(d, "releasing") PROVE ~HasClaim(d)'
          OBVIOUS
        <4>1. Paused(call[d].seen) /\ call'[d] = call[d]
          BY <1>i, <2>1, CallFacts DEF At
        <4>2. rec' # Claimed(call[d].seen, call[d].proc)
          BY <3>2, <4>1, ClaimOfPause
        <4> QED
          BY <4>1, <4>2 DEF HasClaim
      <3> QED
        BY <2>1, <3>1, <3>2, <3>3 DEF Holds, Drives, Returns, Stands, At, Under
    <2>6. Apart'
      BY <2>1, <2>3 DEF Alone, Apart, Resumes, Active, Claims, Unclaimed
    <2>7. OneHolder' /\ Held' /\ SweepFresh'
      BY <2>1, <2>4, <2>5 DEF OneHolder, Held, SweepFresh
    <2> QED
      BY <2>5, <2>6, <2>7 DEF Alone
  <1> QED
    BY <1>1, <1>2, <1>3, <1>5, <1>6, <1>7, <1>8, <1>9, <1>10, <1>11, <1>12, <1>13, <1>14,
       <1>15, <1>16, <1>17, <1>18, <1>19 DEF Next, Thread

---------------------------------------------------------------------------
(* The resumes without a claim                                             *)

\* A tool that is to walk on from the pause it read.
Ahead(c) == Unclaimed(c) /\ call[c].pc \in {"waiting", "entered"} /\ call[c].seen # Nobody

\* A pause that the manifest shows, or that a claim still has, no tool walked on from; nor did
\* one from a pause that its walk has yet to make.
ToolsRight ==
    /\ walked \in [0..NCalls -> Nat]
    /\ \A c \in Calls : Ahead(c) => Paused(call[c].seen)
    /\ rec.status \in {"needs_input", "running"} /\ rec.ask # "none" => walked[rec.walk] = 0
    /\ \A c \in Calls : Early(c) => walked[c] = 0
    /\ \A c, d \in Calls : Ahead(c) /\ Early(d) => call[c].seen.walk # d

\* So long as nobody met a resume without a claim, what a tool read is still to be acted on.
ToolsAlone ==
    /\ \A c \in Calls : Ahead(c) => /\ taken[call[c].seen.walk] = 0
                                    /\ walked[call[c].seen.walk] = 0
    /\ \A w \in 0..NCalls : taken[w] + walked[w] <= 1

ToolInd == ToolsRight /\ (~raced /\ ~undercut => ToolsAlone)

\* What the calls of a step are: nobody comes to be ahead, or early, by it.
Onwards ==
    /\ \A d \in Calls : Ahead(d)' => Ahead(d) /\ call'[d].seen = call[d].seen
    /\ \A d \in Calls : Early(d)' => Early(d)

\* Steps that act on no pause.
LEMMA ToolsStay ==
    ASSUME Ind, ToolInd, Onwards, walked' = walked,
           \A w \in 0..NCalls : taken'[w] \in Nat /\ taken'[w] <= taken[w],
           raced' = raced, undercut' = undercut,
           rec'.status \in {"needs_input", "running"} /\ rec'.ask # "none"
             => walked[rec'.walk] = 0
    PROVE  ToolInd'
  <1>1. ToolsRight'
    BY DEF ToolInd, ToolsRight, Onwards
  <1>2. ASSUME ~raced, ~undercut PROVE ToolsAlone'
    <2>1. ToolsAlone /\ taken \in [0..NCalls -> Nat] /\ walked \in [0..NCalls -> Nat]
      BY <1>2 DEF ToolInd, ToolsRight, Ind, Typed
    <2>2. \A c \in Calls : Ahead(c) => call[c].seen.walk \in 0..NCalls
      BY DEF ToolInd, ToolsRight, Paused, Record
    <2>3. ASSUME NEW c \in Calls, Ahead(c)'
          PROVE  taken'[call'[c].seen.walk] = 0 /\ walked'[call'[c].seen.walk] = 0
      <3> DEFINE w == call[c].seen.walk
      <3>1. Ahead(c) /\ call'[c].seen.walk = w
        BY <2>3 DEF Onwards
      <3>2. w \in 0..NCalls /\ taken[w] = 0 /\ walked[w] = 0
        BY <2>1, <2>2, <3>1 DEF ToolsAlone
      <3> HIDE DEF w
      <3>3. taken'[w] \in Nat /\ taken'[w] <= taken[w]
        BY <3>2
      <3> QED
        BY <3>1, <3>2, <3>3
    <2>4. \A w \in 0..NCalls : taken'[w] + walked'[w] <= 1
      BY <2>1 DEF ToolsAlone
    <2> QED
      BY <2>3, <2>4 DEF ToolsAlone
  <1> QED
    BY <1>1, <1>2 DEF ToolInd

\* A pause is acted on under the lock, beside no resume without a claim.
LEMMA ToolsSee ==
    ASSUME Ind, ToolInd, Onwards, walked' = walked,
           rec.status = "needs_input", Decided(rec.walk),
           ~raced' => ~raced, ~undercut' => ~undercut,
           ~raced' /\ ~undercut' => \A d \in Calls : ~Ahead(d),
           rec'.status \in {"needs_input", "running"} /\ rec'.ask # "none"
             => rec'.walk = rec.walk
    PROVE  ToolInd'
  <1>1. walked[rec.walk] = 0 /\ rec.walk \in 0..NCalls /\ taken[rec.walk] = 0
    BY PauseIsNew DEF ToolInd, ToolsRight, Asks
  <1>2. ToolsRight'
    BY <1>1 DEF ToolInd, ToolsRight, Onwards
  <1>3. ASSUME ~raced', ~undercut' PROVE ToolsAlone'
    <2>1. ToolsAlone /\ taken \in [0..NCalls -> Nat] /\ walked \in [0..NCalls -> Nat]
      BY <1>3 DEF ToolInd, ToolsRight, Ind, Typed
    <2>2. taken'[rec.walk] = 1 /\ \A w \in 0..NCalls : w # rec.walk => taken'[w] = taken[w]
      BY CountedOnce
    <2>3. \A d \in Calls : ~Ahead(d)'
      BY <1>3 DEF Onwards
    <2>4. ASSUME NEW w \in 0..NCalls PROVE taken'[w] + walked'[w] <= 1
      <3>1. taken[w] + walked[w] <= 1 /\ walked'[w] = walked[w]
        BY <2>1 DEF ToolsAlone
      <3>2. CASE w = rec.walk
        BY <1>1, <2>2, <3>1, <3>2
      <3>3. CASE w # rec.walk
        BY <2>2, <3>1, <3>3
      <3> QED
        BY <3>2, <3>3
    <2> QED
      BY <2>3, <2>4 DEF ToolsAlone
  <1> QED
    BY <1>2, <1>3 DEF ToolInd

\* A call begins.
LEMMA ToolsBegin ==
    ASSUME Ind, ToolInd, NEW c \in Calls, NEW p \in Procs,
           NEW kind \in {"answer", "retry", "tool", "stop"}, NEW pc \in Pcs,
           Begin(c, p, kind, pc), ~raced' => ~raced
    PROVE  ToolInd'
  <1> DEFINE s == IF kind = "tool" /\ rec.status = "needs_input" THEN rec ELSE Nobody
             r == [NoCall EXCEPT !.pc = pc, !.kind = kind, !.proc = p, !.seen = s]
  <1>1. r.kind = kind /\ r.pc = pc /\ r.seen = s
    BY DEF NoCall
  <1>2. /\ call' = [call EXCEPT ![c] = r]
        /\ UNCHANGED <<rec, flags, sweep, alive, taken, walked, undercut>>
    BY DEF Begin
  <1>3. c >= c
    BY DEF Calls
  <1>4. Early(c)
    BY <1>3 DEF Begin, Comes, At, Early
  <1> HIDE DEF r
  <1>5. call'[c].seen = s /\ \A d \in Calls \ {c} : call'[d] = call[d]
    BY <1>1, <1>2 DEF Ind, Typed
  <1>6. s # Nobody => s = rec /\ rec.status = "needs_input"
    OBVIOUS
  <1> HIDE DEF s
  <1>7. /\ \A d \in Calls \ {c} : (Ahead(d)' <=> Ahead(d)) /\ call'[d].seen = call[d].seen
        /\ \A d \in Calls : Early(d)' => Early(d)
        /\ Ahead(c)' => call'[c].seen = rec /\ rec.status = "needs_input"
    BY <1>4, <1>5, <1>6 DEF Ahead, Early, Unclaimed
  <1>8. rec.status = "needs_input" => /\ Paused(rec) /\ taken[rec.walk] = 0 /\ walked[rec.walk] = 0
                                      /\ \A d \in Calls : Early(d) => rec.walk # d
    BY PauseIsNew DEF ToolInd, ToolsRight, Paused, Ind, Typed, Asks
  <1>9. ToolsRight'
    <2>1. \A d \in Calls : Ahead(d)' => Paused(call'[d].seen)
      BY <1>7, <1>8 DEF ToolInd, ToolsRight
    <2>2. \A d, e \in Calls : Ahead(d)' /\ Early(e)' => call'[d].seen.walk # e
      BY <1>7, <1>8 DEF ToolInd, ToolsRight
    <2> QED
      BY <1>2, <1>7, <2>1, <2>2 DEF ToolInd, ToolsRight
  <1>10. ASSUME ~raced', ~undercut' PROVE ToolsAlone'
    <2>1. ToolsAlone
      BY <1>2, <1>10 DEF ToolInd
    <2>2. \A d \in Calls : Ahead(d)' => taken[call'[d].seen.walk] = 0 /\ walked[call'[d].seen.walk] = 0
      BY <1>7, <1>8, <2>1 DEF ToolsAlone
    <2> QED
      BY <1>2, <2>1, <2>2 DEF ToolsAlone
  <1> QED
    BY <1>9, <1>10 DEF ToolInd

LEMMA ToolInit == Init => ToolInd
  <1> SUFFICES ASSUME Init PROVE ToolInd
    OBVIOUS
  <1>1. \A c \in Calls : call[c] = NoCall
    BY DEF Init
  <1>2. \A c \in Calls : ~Ahead(c)
    BY <1>1 DEF Ahead, NoCall
  <1>3. Calls \subseteq 0..NCalls
    BY NCallsAssumption DEF Calls
  <1>4. /\ walked = [w \in 0..NCalls |-> 0] /\ taken = [w \in 0..NCalls |-> 0]
        /\ rec.walk = 0 /\ 0 \in 0..NCalls
    BY NCallsAssumption DEF Init
  <1>5. \A w \in 0..NCalls : taken[w] = 0 /\ walked[w] = 0
    BY <1>4
  <1>6. ToolsRight
    BY <1>2, <1>3, <1>4, <1>5 DEF ToolsRight
  <1>7. ToolsAlone
    BY <1>2, <1>5 DEF ToolsAlone
  <1> QED
    BY <1>6, <1>7 DEF ToolInd

\* Beside a resume that claims, none is ahead.
LEMMA NoneAhead ==
    ASSUME HandInd, ~raced, NEW c \in Calls, Claims(c), Active(c)
    PROVE  \A d \in Calls : ~Ahead(d)
  BY DEF HandInd, Alone, Apart, Resumes, Ahead, Claims, Unclaimed, Active

\* What one call's step is to the others.
LEMMA OneOnwards ==
    ASSUME Ind, NEW c \in Calls, \A d \in Calls \ {c} : call'[d] = call[d],
           call'[c].pc \in {"releasing", "done"} \/ Early(c),
           call'[c].pc \in {"waiting", "entered"} /\ Unclaimed(c)'
             => /\ call[c].pc \in {"waiting", "entered"}
                /\ Unclaimed(c) /\ call'[c].seen = call[c].seen
    PROVE  Onwards
  BY DEF Onwards, Ahead, Early, Unclaimed

LEMMA DoneIs ==
    ASSUME Ind, NEW c \in Calls, Done(c)
    PROVE  Onwards
  <1>1. call'[c].pc = "done" /\ \A d \in Calls \ {c} : call'[d] = call[d]
    BY DEF Done, Over, NoCall, Ind, Typed
  <1> QED
    BY <1>1, OneOnwards

LEMMA LetsGoIs ==
    ASSUME Ind, NEW c \in Calls, AfterWalk(c)
    PROVE  Onwards /\ ~Early(c)'
  <1>1. CASE Claims(c)
    <2>1. call'[c].pc = "releasing" /\ \A d \in Calls \ {c} : call'[d] = call[d]
      BY <1>1 DEF AfterWalk, Ind, Typed, CallRec
    <2> QED
      BY <2>1, OneOnwards DEF Early
  <1>2. CASE ~Claims(c)
    <2>1. Done(c) /\ call'[c].pc = "done"
      BY <1>2 DEF AfterWalk, Leave, Done, Over, NoCall, Ind, Typed
    <2> QED
      BY <2>1, DoneIs DEF Early
  <1> QED
    BY <1>1, <1>2

\* Every step keeps what is known of the tools.
LEMMA ToolStep == Ind /\ HandInd /\ ToolInd /\ [Next]_vars => ToolInd'
  <1> SUFFICES ASSUME Ind, HandInd, ToolInd, [Next]_vars PROVE ToolInd'
    OBVIOUS
  <1>t. /\ taken \in [0..NCalls -> Nat] /\ call \in [Calls -> CallRec]
        /\ walked \in [0..NCalls -> Nat]
    BY DEF Ind, Typed, ToolInd, ToolsRight
  <1>q. \A w \in 0..NCalls : taken[w] \in Nat /\ taken[w] <= taken[w]
    BY <1>t
  <1>r. rec.status \in {"needs_input", "running"} /\ rec.ask # "none" => walked[rec.walk] = 0
    BY DEF ToolInd, ToolsRight
  <1>0. ASSUME Onwards, UNCHANGED <<rec, taken, walked, raced, undercut>> PROVE ToolInd'
    BY <1>0, <1>q, <1>r, ToolsStay
  <1>1. ASSUME NEW c \in Calls, NEW p \in Procs,
               LookToAnswer(c, p) \/ LookAsTool(c, p) \/ LookToStop(c, p)
        PROVE  ToolInd'
    <2>1. PICK kind \in {"answer", "retry", "tool", "stop"}, pc \in Pcs : Begin(c, p, kind, pc)
      BY <1>1 DEF LookToAnswer, LookAsTool, LookToStop, Pcs
    <2>2. ~raced' => ~raced
      <3>1. ASSUME NEW k, Meets(k) PROVE ~raced' => ~raced
        BY <3>1, Zenon DEF Meets
      <3>2. (\E k : Meets(k)) \/ raced' = raced
        BY <1>1 DEF LookToAnswer, LookAsTool, LookToStop
      <3> QED
        BY <3>1, <3>2
    <2> QED
      BY <2>1, <2>2, ToolsBegin
  <1>2. ASSUME NEW c \in Calls, NEW p \in Procs, Cancel(c, p) PROVE ToolInd'
    <2>1. Onwards
      BY <1>2, DoneIs DEF Cancel
    <2>2. /\ rec.status = "needs_input" /\ Decided(rec.walk) /\ rec'.ask = "none"
          /\ walked' = walked /\ raced' = raced
      BY <1>2 DEF Cancel, Short, Ind, Typed, Record
    <2>3. ~undercut' => ~undercut /\ \A d \in Calls : ~Ahead(d)
      BY <1>2 DEF Cancel, Ahead, Resumes, Active
    <2> QED
      BY <2>1, <2>2, <2>3, ToolsSee
  <1>3. ASSUME NEW c \in Calls, Answer(c) PROVE ToolInd'
    <2>1. Claims(c) /\ Active(c) /\ UNCHANGED <<walked, raced, undercut>> /\ Early(c)
      BY <1>3 DEF Answer, Ind, StagesRight, At, Active, Early
    <2>2. CASE UNCHANGED <<rec, taken>> /\ Done(c)
      BY <1>0, <2>1, <2>2, DoneIs
    <2>3. CASE UNCHANGED <<rec, taken>> /\ call' = [call EXCEPT ![c].pc = "prepared", ![c].seen = rec]
      <3>1. call'[c].pc = "prepared" /\ \A d \in Calls \ {c} : call'[d] = call[d]
        BY <1>t, <2>3 DEF CallRec
      <3> QED
        BY <1>0, <2>1, <2>3, <3>1, OneOnwards
    <2>4. ASSUME NEW o \in {"cancelled", "completed"}, Short(o), Decided(rec.walk), Done(c),
                 rec.status = "needs_input"
          PROVE  ToolInd'
      <3>1. rec'.ask = "none"
        BY <2>4 DEF Short, Ind, Typed, Record
      <3> QED
        BY <2>1, <2>4, <3>1, DoneIs, NoneAhead, ToolsSee
    <2> QED
      BY <1>3, <2>2, <2>3, <2>4 DEF Answer
  <1>4. ASSUME NEW c \in Calls, Claim(c) PROVE ToolInd'
    <2>1. Claims(c) /\ Active(c) /\ UNCHANGED <<walked, raced, undercut>> /\ Early(c)
      BY <1>4 DEF Claim, Ind, StagesRight, At, Active, Early
    <2>2. CASE UNCHANGED <<rec, taken>> /\ Done(c)
      BY <1>0, <2>1, <2>2, DoneIs
    <2>3. CASE rec = call[c].seen /\ rec' = Claimed(rec, call[c].proc) /\ Decided(rec.walk)
               /\ Goto(c, "waiting")
      <3>1. /\ call'[c].pc = "waiting" /\ call'[c].kind = "answer"
            /\ \A d \in Calls \ {c} : call'[d] = call[d]
        BY <1>t, <2>1, <2>3 DEF CallRec, Goto, Claims
      <3>2. Onwards
        BY <2>1, <3>1, OneOnwards DEF Unclaimed
      <3>3. rec.status = "needs_input" /\ rec'.walk = rec.walk
        BY <1>4, <2>1, <2>3 DEF Claim, At, Ind, Typed, SeenPaused, Paused, Claimed, Record
      <3> QED
        BY <2>1, <2>3, <3>2, <3>3, NoneAhead, ToolsSee
    <2> QED
      BY <1>4, <2>2, <2>3 DEF Claim
  <1>5. ASSUME NEW c \in Calls, Node(c) PROVE ToolInd'
    <2>1. UNCHANGED <<call, taken, walked, raced, undercut>> /\ rec'.ask = "none"
      BY <1>5 DEF Node, Ind, Typed, Record
    <2>2. Onwards
      BY <2>1 DEF Onwards, Ahead, Early, Unclaimed
    <2> QED
      BY <1>q, <2>1, <2>2, ToolsStay
  <1>6. ASSUME NEW c \in Calls, Enter(c) PROVE ToolInd'
    <2>1. /\ call'[c].pc = "entered" /\ call'[c].kind = call[c].kind /\ call'[c].seen = call[c].seen
          /\ \A d \in Calls \ {c} : call'[d] = call[d]
      BY <1>6, <1>t DEF Enter, Goto, CallRec
    <2>2. call[c].pc = "waiting" /\ UNCHANGED <<rec, taken, walked, raced, undercut>>
      BY <1>6 DEF Enter, At
    <2> QED
      BY <1>0, <2>1, <2>2, OneOnwards DEF Early, Unclaimed
  <1>7. ASSUME NEW c \in Calls, Refuse(c) PROVE ToolInd'
    BY <1>0, <1>7, LetsGoIs DEF Refuse
  <1>8. ASSUME NEW c \in Calls, Start(c) PROVE ToolInd'
    <2>1. /\ call'[c].pc = "walking" /\ call'[c].kind = call[c].kind /\ call'[c].seen = call[c].seen
          /\ \A d \in Calls \ {c} : call'[d] = call[d]
      BY <1>8, <1>t DEF Start, Goto, CallRec
    <2>2. /\ call[c].pc = "entered" /\ Early(c) /\ UNCHANGED <<taken, raced, undercut>>
          /\ rec'.ask = "none"
      BY <1>8 DEF Start, At, Early
    <2>3. Onwards
      BY <2>1, <2>2, OneOnwards
    <2>4. CASE ~Ahead(c)
      <3>1. walked' = walked
        BY <1>8, <2>2, <2>4 DEF Start, Ahead
      <3> QED
        BY <1>q, <2>2, <2>3, <3>1, ToolsStay
    <2>5. CASE Ahead(c)
      <3> DEFINE w == call[c].seen.walk
      <3>1. walked' = [walked EXCEPT ![w] = @ + 1] /\ w \in 0..NCalls
        BY <1>8, <2>5 DEF Start, Ahead, ToolInd, ToolsRight, Paused, Record
      <3>2. \A d \in Calls : Early(d) => w # d
        BY <2>5 DEF ToolInd, ToolsRight
      <3> HIDE DEF w
      <3>3. /\ walked' \in [0..NCalls -> Nat] /\ walked'[w] = walked[w] + 1
            /\ \A v \in 0..NCalls : v # w => walked'[v] = walked[v]
        BY <1>t, <3>1
      <3>4. Calls \subseteq 0..NCalls
        BY NCallsAssumption DEF Calls
      <3>5. ToolsRight'
        BY <2>2, <2>3, <3>2, <3>3, <3>4 DEF ToolInd, ToolsRight, Onwards
      <3>6. ASSUME ~raced, ~undercut PROVE ToolsAlone'
        <4>1. ToolsAlone /\ taken[w] = 0 /\ walked[w] = 0
          BY <2>5, <3>6 DEF ToolInd, ToolsAlone, w
        <4>2. \A d \in Calls : Ahead(d) => d = c
          BY <2>5, <3>6 DEF HandInd, Alone, Apart, Resumes, Ahead, Active
        <4>3. \A d \in Calls : ~Ahead(d)'
          BY <2>1, <2>3, <4>2 DEF Onwards, Ahead
        <4> QED
          BY <1>t, <2>2, <3>3, <4>1, <4>3 DEF ToolsAlone
      <3> QED
        BY <2>2, <3>5, <3>6 DEF ToolInd
    <2> QED
      BY <2>4, <2>5
  <1>9. ASSUME NEW c \in Calls, NEW o \in Asks \cup {"completed", "cancelled", "aborted"}, End(c, o)
        PROVE  ToolInd'
    <2>1. call'[c].pc = "ending" /\ \A d \in Calls \ {c} : call'[d] = call[d]
      BY <1>9, <1>t DEF End, CallRec
    <2>2. Early(c) /\ UNCHANGED <<rec, taken, walked, raced, undercut>>
      BY <1>9 DEF End, At, Early
    <2> QED
      BY <1>0, <2>1, <2>2, OneOnwards
  <1>10. ASSUME NEW c \in Calls, Finalize(c) PROVE ToolInd'
    <2>1. Onwards /\ UNCHANGED <<taken, walked, raced, undercut>>
      BY <1>10, LetsGoIs DEF Finalize
    <2>2. rec'.walk = c /\ walked[c] = 0
      BY <1>10 DEF Finalize, At, Early, ToolInd, ToolsRight
    <2> QED
      BY <1>q, <2>1, <2>2, ToolsStay
  <1>11. ASSUME NEW c \in Calls, Release(c) PROVE ToolInd'
    <2>1. Onwards /\ UNCHANGED <<walked, raced, undercut>>
      BY <1>11, DoneIs DEF Release, Leave
    <2>2. CASE ~HasClaim(c)
      BY <1>0, <1>11, <2>1, <2>2 DEF Release
    <2>3. CASE HasClaim(c)
      <3>1. Paused(call[c].seen) /\ rec = Claimed(call[c].seen, call[c].proc)
        BY <1>11, <2>3 DEF Release, HasClaim, At, Ind, SeenPaused
      <3>2. rec.walk = call[c].seen.walk /\ rec.status = "running" /\ rec.ask # "none"
        BY <3>1, ClaimOfPause
      <3>3. rec' = call[c].seen /\ taken' = [taken EXCEPT ![rec.walk] = @ - 1]
        BY <1>11, <2>3 DEF Release
      <3>4. taken[rec.walk] = 1 /\ rec.walk \in 0..NCalls
        BY <3>2 DEF Ind, Typed, CountedRight, Record
      <3>5. \A w \in 0..NCalls : taken'[w] \in Nat /\ taken'[w] <= taken[w]
        BY <1>t, <3>3, <3>4
      <3> QED
        BY <1>r, <2>1, <3>2, <3>3, <3>5, ToolsStay
    <2> QED
      BY <2>2, <2>3
  <1>12. ASSUME NEW c \in Calls, Abandon(c) PROVE ToolInd'
    <2>1. UNCHANGED <<rec, taken, walked, raced, undercut>> /\ Active(c)
      BY <1>12 DEF Abandon, At, Active
    <2>2. CASE Done(c)
      BY <1>0, <2>1, <2>2, DoneIs
    <2>3. CASE call' = [call EXCEPT ![c].pc = "releasing", ![c].attached = FALSE]
      <3>1. call'[c].pc = "releasing" /\ \A d \in Calls \ {c} : call'[d] = call[d]
        BY <1>t, <2>3 DEF CallRec
      <3> QED
        BY <1>0, <2>1, <3>1, OneOnwards
    <2>4. CASE call' = [call EXCEPT ![c].attached = FALSE]
      <3>1. /\ call'[c].pc = call[c].pc /\ call'[c].kind = call[c].kind
            /\ call'[c].seen = call[c].seen /\ \A d \in Calls \ {c} : call'[d] = call[d]
        BY <1>t, <2>4 DEF CallRec
      <3> QED
        BY <1>0, <2>1, <3>1, OneOnwards DEF Early, Unclaimed
    <2> QED
      BY <1>12, <2>2, <2>3, <2>4 DEF Abandon
  <1>13. ASSUME NEW c \in Calls, Stop(c) PROVE ToolInd'
    BY <1>0, <1>13, DoneIs DEF Stop
  <1>14. ASSUME NEW p \in Procs, Die(p) PROVE ToolInd'
    <2>1. \A d \in Calls : call'[d] = Over \/ call'[d] = call[d]
      BY <1>14 DEF Die
    <2>2. Onwards
      BY <2>1 DEF Onwards, Ahead, Early, Unclaimed, Over, NoCall
    <2> QED
      BY <1>0, <1>14, <2>2 DEF Die
  <1>15. ASSUME SweepRead \/ UNCHANGED vars PROVE ToolInd'
    <2>1. UNCHANGED <<rec, call, taken, walked, raced, undercut>>
      BY <1>15 DEF SweepRead, vars
    <2>2. Onwards
      BY <2>1 DEF Onwards, Ahead, Early, Unclaimed
    <2> QED
      BY <1>0, <2>1, <2>2
  <1>16. ASSUME SweepWrite PROVE ToolInd'
    <2>1. UNCHANGED <<call, taken, walked, raced, undercut>> /\ rec'.status = "crashed"
      BY <1>16 DEF SweepWrite, Ind, Typed, Record
    <2>2. Onwards
      BY <2>1 DEF Onwards, Ahead, Early, Unclaimed
    <2> QED
      BY <1>q, <2>1, <2>2, ToolsStay
  <1> QED
    BY <1>1, <1>2, <1>3, <1>4, <1>5, <1>6, <1>7, <1>8, <1>9, <1>10, <1>11, <1>12, <1>13,
       <1>14, <1>15, <1>16 DEF Next, Thread

\* Of those who act on a pause under the lock of the run one wins (run_log.py:21-24,
\* claim_for_resume, finalize_short_circuit), and the agent's tool does not act on it a second
\* time unless its resume, which takes no lock (run_workflow.py:444), met another one or a
\* cancel: OneWinner, for any number of calls and processes, however many of them die.
THEOREM PauseActedOnOnce == Spec => []OneWinner
  <1>1. Ind /\ ToolInd => OneWinner
    BY DEF Ind, ClaimedOnce, ToolInd, ToolsAlone, OneWinner
  <1> QED
    BY <1>1, IndInit, IndStep, HandInit, HandStep, ToolInit, ToolStep, PTL DEF Spec

---------------------------------------------------------------------------
(* What the run checks of the hands                                        *)

\* The manifest says "running" exactly as long as one caller or thread has the run, or a dead
\* process's run waits for the sweep (run_log.py: claim_for_resume, release_resume_claim),
\* so long as every resume claims: InOneHand, for any number of calls and processes.
THEOREM RunInOneHand == Spec => []InOneHand
  <1>1. Ind /\ HandInd /\ ToolInd => InOneHand
    <2> SUFFICES ASSUME Ind, HandInd, ToolInd PROVE InOneHand
      OBVIOUS
    <2>1. TypeOK
      BY DEF Ind, HandInd, RolesRight, ToolInd, ToolsRight, Typed, TypeOK
    <2>2. ASSUME ~raced
          PROVE  /\ \A c \in Calls : Drives(c) => Running /\ rec.owner = call[c].proc
                 /\ \A c, d \in Calls : Drives(c) /\ Drives(d) => c = d
                 /\ Running /\ rec.owner \in alive
                      => \E c \in Calls : Drives(c) \/ (At(c, "releasing") /\ HasClaim(c))
      <3>1. \A c \in Calls : Drives(c) => Holds(c)
        BY DEF Holds
      <3>2. \A c \in Calls : Drives(c) => Running /\ rec.owner = call[c].proc
        BY <2>2, <3>1, HolderIs
      <3>3. OneHolder /\ Held
        BY <2>2 DEF HandInd, Alone
      <3> QED
        BY <3>1, <3>2, <3>3 DEF OneHolder, Held, Holds, Returns
    <2> QED
      BY <2>1, <2>2 DEF InOneHand
  <1> QED
    BY <1>1, IndInit, IndStep, HandInit, HandStep, ToolInit, ToolStep, PTL DEF Spec
=============================================================================
