-------------------------- MODULE ApprovalsProofs --------------------------
(***************************************************************************)
(* What was asked for is carried out at most once, and a decision holds,    *)
(* for any number of requests, of turns that ask and of people who decide.  *)
(***************************************************************************)
EXTENDS Approvals, SequenceTheorems, TLAPS

Owners == Deciders \cup {"judge"}
Runner == Owners \cup {"nobody", "executing", "executing cli"}
Rec    == [status : Terminal \cup {"pending", "approved"}, by : Owners \cup {"none"},
           changed : BOOLEAN, runs : Nat]
Pcs    == {"idle", "asking", "pushing", "waiting", "retaking", "answered", "running"}
Futs   == {"none", "open", "cancelled", "fallback", "text", "approve", "reject"}
TurnRec == [pc : Pcs, kind : {"none", "approval", "question"}, rec : Nat, fut : Futs,
            reply : Futs, late : BOOLEAN, answer : Futs]

\* One record and who is about to carry it out.
Good(r, who) ==
    /\ r \in Rec /\ who \in Runner
    /\ r.status = "pending" => who = "nobody" /\ r.runs = 0 /\ r.by = "none"
    /\ who \in Owners => r.runs = 0 /\ r.status \in {"approved", "failed"} /\ r.by \in Owners
    /\ r.runs <= 1

RecordsGood ==
    /\ recs \in Seq(Rec) /\ running \in Seq(Runner) /\ Len(running) = Len(recs)
    /\ \A i \in 1..Len(recs) : Good(recs[i], running[i])

HandoffTyped == handoff \in Seq(Deciders \cup {"none"}) /\ Len(handoff) = Len(recs)

TurnGood ==
    /\ turn \in TurnRec
    /\ turn.kind = "approval" => turn.rec \in 1..Len(recs)
    /\ turn.pc = "running" => turn.kind = "approval"

Ind == RecordsGood /\ HandoffTyped /\ TurnGood

\* What a step may do to one record.
Lawful(r, s) ==
    /\ s.runs > r.runs => /\ r.status \in {"approved", "failed"} /\ ~r.changed
                          /\ r.by \in Owners
    /\ r.status \in Terminal => s.status = r.status
    /\ r.by # "none" => s.by = r.by

\* A step that leaves the records' part of the invariant true and is lawful.
RecordsStep == RecordsGood' /\ Len(recs') >= Len(recs)
               /\ \A i \in 1..Len(recs) : Lawful(recs[i], recs'[i])

---------------------------------------------------------------------------
(* What becomes of the records                                             *)

\* Nothing does.
LEMMA RecordsStay ==
    ASSUME Ind, UNCHANGED <<recs, running>>
    PROVE  RecordsStep /\ Len(recs') = Len(recs)
  <1>1. \A i \in 1..Len(recs) : recs[i].runs \in Nat
    BY DEF Ind, RecordsGood, Good, Rec
  <1> QED
    BY <1>1 DEF Ind, RecordsGood, RecordsStep, Lawful

\* One record and its runner change.
LEMMA OneChanges ==
    ASSUME Ind, NEW i \in 1..Len(recs), NEW r, NEW who,
           Good(r, who), Lawful(recs[i], r),
           recs' = [recs EXCEPT ![i] = r], running' = [running EXCEPT ![i] = who]
    PROVE  RecordsStep /\ Len(recs') = Len(recs)
  <1>1. r \in Rec /\ who \in Runner
    BY DEF Good
  <1>2. /\ recs' \in Seq(Rec) /\ Len(recs') = Len(recs) /\ recs'[i] = r
        /\ \A j \in 1..Len(recs) : j # i => recs'[j] = recs[j]
    BY <1>1, ExceptSeq DEF Ind, RecordsGood
  <1>3. /\ running' \in Seq(Runner) /\ Len(running') = Len(running) /\ running'[i] = who
        /\ \A j \in 1..Len(recs) : j # i => running'[j] = running[j]
    BY <1>1, ExceptSeq DEF Ind, RecordsGood
  <1>4. \A j \in 1..Len(recs) : recs[j].runs \in Nat /\ Good(recs[j], running[j])
    BY DEF Ind, RecordsGood, Good, Rec
  <1>5. \A j \in 1..Len(recs) : Good(recs'[j], running'[j])
    BY <1>2, <1>3, <1>4
  <1>6. \A j \in 1..Len(recs) : Lawful(recs[j], recs'[j])
    BY <1>2, <1>4 DEF Lawful
  <1> QED
    BY <1>2, <1>3, <1>5, <1>6 DEF Ind, RecordsGood, RecordsStep

\* A record is filed, undecided or cleared by the judge.
LEMMA OneIsFiled ==
    ASSUME Ind, NEW status, NEW by, Filed(status, by),
           <<status, by>> \in {<<"pending", "none">>, <<"approved", "judge">>}
    PROVE  RecordsStep /\ HandoffTyped' /\ Len(recs') = Len(recs) + 1
  <1> DEFINE r == NewRecord(status, by)
             who == IF status = "approved" THEN by ELSE "nobody"
  <1>11. /\ r \in Rec /\ r.runs = 0 /\ r.status = status /\ r.by = by
    BY DEF NewRecord, Rec, Owners, Deciders, Terminal
  <1>1. Good(r, who)
    <2>1. CASE status = "pending"
      <3>1. who = "nobody" /\ by = "none"
        BY <2>1
      <3> HIDE DEF r, who
      <3> QED
        BY <1>11, <2>1, <3>1 DEF Good, Runner, Owners, Deciders
    <2>2. CASE status = "approved"
      <3>1. who = "judge" /\ by = "judge"
        BY <2>2
      <3> HIDE DEF r, who
      <3> QED
        BY <1>11, <2>2, <3>1 DEF Good, Runner, Owners
    <2> QED
      BY <2>1, <2>2
  <1>2. r \in Rec /\ who \in Runner
    BY <1>1 DEF Good
  <1>3. recs' = Append(recs, r) /\ running' = Append(running, who)
        /\ handoff' = Append(handoff, "none")
    BY DEF Filed
  <1> HIDE DEF r, who
  <1>4. /\ recs' \in Seq(Rec) /\ Len(recs') = Len(recs) + 1 /\ recs'[Len(recs) + 1] = r
        /\ \A j \in 1..Len(recs) : recs'[j] = recs[j]
    BY <1>2, <1>3, AppendProperties DEF Ind, RecordsGood
  <1>5. /\ running' \in Seq(Runner) /\ Len(running') = Len(recs) + 1
        /\ running'[Len(recs) + 1] = who
        /\ \A j \in 1..Len(recs) : running'[j] = running[j]
    BY <1>2, <1>3, AppendProperties DEF Ind, RecordsGood
  <1>6. handoff' \in Seq(Deciders \cup {"none"}) /\ Len(handoff') = Len(recs) + 1
    BY <1>3, AppendProperties DEF Ind, HandoffTyped
  <1>7. Len(recs) \in Nat
    BY DEF Ind, RecordsGood
  <1>8. \A j \in 1..Len(recs') : Good(recs'[j], running'[j])
    BY <1>1, <1>4, <1>5, <1>7 DEF Ind, RecordsGood
  <1>9. \A j \in 1..Len(recs) : recs[j].runs \in Nat
    BY DEF Ind, RecordsGood, Good, Rec
  <1>10. \A j \in 1..Len(recs) : Lawful(recs[j], recs'[j])
    BY <1>4, <1>9 DEF Lawful
  <1> QED
    BY <1>4, <1>5, <1>6, <1>7, <1>8, <1>10 DEF RecordsGood, RecordsStep, HandoffTyped

\* A decision changes only an undecided record.
LEMMA OneIsDecided ==
    ASSUME Ind, NEW i \in 1..Len(recs), NEW verdict, NEW by \in Owners,
           Decided(i, verdict, by)
    PROVE  RecordsStep /\ Len(recs') = Len(recs)
  <1>1. recs[i] \in Rec /\ Good(recs[i], running[i])
    BY DEF Ind, RecordsGood, Good
  <1>2. CASE recs[i].status # "pending"
    BY <1>2, RecordsStay DEF Decided, Transition
  <1>3. CASE recs[i].status = "pending" /\ verdict = "approve"
    <2> DEFINE r == [recs[i] EXCEPT !.status = "approved", !.by = by]
    <2>1. recs' = [recs EXCEPT ![i] = r] /\ running' = [running EXCEPT ![i] = by]
      BY <1>3 DEF Decided, Transition, Owners, Deciders
    <2>2. r \in Rec /\ r.runs = recs[i].runs /\ r.status = "approved" /\ r.by = by
      BY <1>1 DEF Rec, Terminal
    <2>3. recs[i].runs = 0 /\ recs[i].by = "none" /\ running[i] = "nobody"
      BY <1>1, <1>3 DEF Good
    <2>4. Good(r, by)
      <3> HIDE DEF r
      <3>1. r.runs = 0 /\ r.status # "pending" /\ by \in Runner
        BY <2>2, <2>3 DEF Runner
      <3> QED
        BY <2>2, <3>1 DEF Good
    <2>5. Lawful(recs[i], r)
      BY <1>3, <2>2, <2>3 DEF Lawful, Terminal
    <2> HIDE DEF r
    <2> QED
      BY <2>1, <2>4, <2>5, OneChanges
  <1>4. CASE recs[i].status = "pending" /\ verdict # "approve"
    <2> DEFINE r == [recs[i] EXCEPT !.status = "rejected", !.by = by]
    <2>1. recs' = [recs EXCEPT ![i] = r] /\ running' = [running EXCEPT ![i] = running[i]]
      <3>1. UNCHANGED running
        BY <1>4 DEF Decided
      <3>2. running = [running EXCEPT ![i] = running[i]]
        BY DEF Ind, RecordsGood
      <3>3. recs' = Transition(i, "pending", "rejected", by)
        BY <1>4 DEF Decided
      <3>4. recs' = [recs EXCEPT ![i] = r]
        BY <1>4, <3>3 DEF Transition, Owners, Deciders
      <3> QED
        BY <3>1, <3>2, <3>4
    <2>2. r \in Rec /\ r.runs = recs[i].runs /\ r.status = "rejected" /\ r.by = by
      BY <1>1 DEF Rec, Terminal
    <2>3. recs[i].runs = 0 /\ recs[i].by = "none" /\ running[i] = "nobody"
      BY <1>1, <1>4 DEF Good
    <2>4. Good(r, running[i])
      BY <2>2, <2>3 DEF Good, Runner, Owners, Deciders
    <2>5. Lawful(recs[i], r)
      BY <1>4, <2>2, <2>3 DEF Lawful, Terminal
    <2> HIDE DEF r
    <2> QED
      BY <2>1, <2>4, <2>5, OneChanges
  <1> QED
    BY <1>2, <1>3, <1>4

\* A record that is as expected is settled; who carries it out stays or lets go.
LEMMA OneIsSettled ==
    ASSUME Ind, NEW i \in 1..Len(recs), NEW expect \in {"pending", "approved"},
           NEW to \in Terminal, NEW who \in {running[i], "nobody"},
           expect = "approved" /\ who \in Owners => to = "failed",
           recs' = Transition(i, expect, to, "none"), running' = [running EXCEPT ![i] = who]
    PROVE  RecordsStep /\ Len(recs') = Len(recs)
  <1> DEFINE r == [recs[i] EXCEPT !.status = IF @ = expect THEN to ELSE @]
  <1>1. recs[i] \in Rec /\ Good(recs[i], running[i])
    BY DEF Ind, RecordsGood, Good
  <1>2. recs' = [recs EXCEPT ![i] = r]
    <2>1. CASE recs[i].status = expect
      <3>1. r = [recs[i] EXCEPT !.status = to, !.by = recs[i].by]
        BY <1>1, <2>1 DEF Rec
      <3>2. recs' = [recs EXCEPT ![i] = [recs[i] EXCEPT !.status = to, !.by = recs[i].by]]
        BY <2>1 DEF Transition
      <3> QED
        BY <3>1, <3>2
    <2>2. CASE recs[i].status # expect
      <3>1. r = recs[i]
        BY <1>1, <2>2 DEF Rec
      <3>2. recs' = recs
        BY <2>2 DEF Transition
      <3> QED
        BY <3>1, <3>2 DEF Ind, RecordsGood
    <2> QED
      BY <2>1, <2>2
  <1>3. /\ r \in Rec /\ r.runs = recs[i].runs /\ r.by = recs[i].by
        /\ r.changed = recs[i].changed
        /\ r.status = IF recs[i].status = expect THEN to ELSE recs[i].status
    BY <1>1 DEF Rec
  <1> HIDE DEF r
  <1>4. to \notin {"pending", "approved"} /\ expect \notin Terminal
    BY DEF Terminal
  <1>5. Good(r, who)
    BY <1>1, <1>3, <1>4 DEF Good, Runner, Owners, Deciders
  <1>6. Lawful(recs[i], r)
    <2>1. recs[i].runs \in Nat
      BY <1>1 DEF Rec
    <2> QED
      BY <1>3, <1>4, <2>1 DEF Lawful
  <1> QED
    BY <1>2, <1>5, <1>6, OneChanges
---------------------------------------------------------------------------
(* The invariant                                                           *)

\* The turn, in a step of it or of someone else.
LEMMA TurnStays ==
    ASSUME Ind, UNCHANGED turn, Len(recs') >= Len(recs), Len(recs') \in Nat
    PROVE  TurnGood'
  BY DEF Ind, TurnGood, RecordsGood

LEMMA TurnIsIdle == ASSUME turn' = Idle PROVE TurnGood'
  BY DEF TurnGood, TurnRec, Pcs, Futs, Idle

LEMMA TurnIsAbout ==
    ASSUME NEW x \in Pcs, NEW i \in 1..Len(recs'), Len(recs') \in Nat,
           turn' = [Idle EXCEPT !.pc = x, !.kind = "approval", !.rec = i]
    PROVE  TurnGood'
  <1>1. turn' = [pc |-> x, kind |-> "approval", rec |-> i, fut |-> "none", reply |-> "none",
                 late |-> FALSE, answer |-> "none"]
    BY DEF Idle
  <1>2. turn' \in TurnRec
    <2> DEFINE t == [pc |-> x, kind |-> "approval", rec |-> i, fut |-> "none", reply |-> "none",
                     late |-> FALSE, answer |-> "none"]
    <2>1. i \in Nat
      OBVIOUS
    <2>2. "none" \in Futs
      BY DEF Futs
    <2>3. t \in TurnRec
      BY <2>1, <2>2 DEF TurnRec
    <2> QED
      BY <1>1, <2>3
  <1> QED
    BY <1>1, <1>2 DEF TurnGood

LEMMA HandoffStays ==
    ASSUME Ind, UNCHANGED handoff, Len(recs') = Len(recs)
    PROVE  HandoffTyped'
  BY DEF Ind, HandoffTyped

\* Nothing is filed when a gateway starts anew.
LEMMA IndInit == Init => Ind
  <1> SUFFICES ASSUME Init PROVE Ind
    OBVIOUS
  <1>1. recs \in Seq(Rec) /\ running \in Seq(Runner) /\ handoff \in Seq(Deciders \cup {"none"})
        /\ Len(recs) = 0 /\ Len(running) = 0 /\ Len(handoff) = 0
    BY EmptySeq DEF Init
  <1>2. TurnGood
    BY DEF Init, TurnGood, TurnRec, Pcs, Futs, Idle
  <1> QED
    BY <1>1, <1>2 DEF Ind, RecordsGood, HandoffTyped

\* Steps of the turn, the person and the loop that leave the records alone.
LEMMA OnlyTheTurn ==
    ASSUME Ind, UNCHANGED <<recs, running>>, HandoffTyped', TurnGood'
    PROVE  Ind' /\ RecordsStep
  BY RecordsStay DEF Ind, RecordsStep

\* What every step is: the invariant again, and lawful for every record.
LEMMA IndStep == Ind /\ [Next]_vars => Ind' /\ RecordsStep
  <1> SUFFICES ASSUME Ind, [Next]_vars PROVE Ind' /\ RecordsStep
    OBVIOUS
  <1>ids. Ids = 1..Len(recs) /\ Len(recs) \in Nat /\ Len(running) = Len(recs)
    BY DEF Ind, RecordsGood, Ids
  <1>1. CASE AskApproval
    <2>1. ASSUME NEW i \in Pending, turn' = [Idle EXCEPT !.pc = "asking", !.kind = "approval", !.rec = i],
                 UNCHANGED <<recs, running, handoff>>
          PROVE  Ind' /\ RecordsStep
      <3>1. TurnGood'
        BY <1>ids, <2>1, TurnIsAbout DEF Pcs, Pending
      <3> QED
        BY <2>1, <3>1, HandoffStays, OnlyTheTurn
    <2>2. ASSUME Filed("pending", "none"),
                 turn' = [Idle EXCEPT !.pc = "asking", !.kind = "approval", !.rec = Len(recs) + 1]
          PROVE  Ind' /\ RecordsStep
      <3>1. RecordsStep /\ HandoffTyped' /\ Len(recs') = Len(recs) + 1
        BY <2>2, OneIsFiled
      <3>2. TurnGood'
        <4>1. Len(recs) + 1 \in 1..Len(recs') /\ Len(recs') \in Nat
          BY <1>ids, <3>1
        <4> QED
          BY <2>2, <4>1, TurnIsAbout DEF Pcs
      <3> QED
        BY <3>1, <3>2 DEF Ind, RecordsStep
    <2> QED
      BY <1>1, <2>1, <2>2 DEF AskApproval
  <1>2. CASE FileOnly
    <2>1. RecordsStep /\ HandoffTyped' /\ Len(recs') = Len(recs) + 1
      BY <1>2, OneIsFiled DEF FileOnly
    <2> QED
      BY <1>2, <1>ids, <2>1, TurnStays DEF FileOnly, Ind, RecordsStep
  <1>3. CASE JudgeClears
    <2>1. ASSUME NEW i \in Pending, Decided(i, "approve", "judge"), UNCHANGED handoff,
                 turn' = [Idle EXCEPT !.pc = "running", !.kind = "approval", !.rec = i]
          PROVE  Ind' /\ RecordsStep
      <3>1. RecordsStep /\ Len(recs') = Len(recs)
        BY <1>ids, <2>1, OneIsDecided DEF Pending, Owners
      <3>2. TurnGood'
        BY <1>ids, <2>1, <3>1, TurnIsAbout DEF Pcs, Pending
      <3> QED
        BY <2>1, <3>1, <3>2, HandoffStays DEF Ind, RecordsStep
    <2>2. ASSUME Filed("approved", "judge"),
                 turn' = [Idle EXCEPT !.pc = "running", !.kind = "approval", !.rec = Len(recs) + 1]
          PROVE  Ind' /\ RecordsStep
      <3>1. RecordsStep /\ HandoffTyped' /\ Len(recs') = Len(recs) + 1
        BY <2>2, OneIsFiled
      <3>2. TurnGood'
        <4>1. Len(recs) + 1 \in 1..Len(recs') /\ Len(recs') \in Nat
          BY <1>ids, <3>1
        <4> QED
          BY <2>2, <4>1, TurnIsAbout DEF Pcs
      <3> QED
        BY <3>1, <3>2 DEF Ind, RecordsStep
    <2> QED
      BY <1>3, <2>1, <2>2 DEF JudgeClears
  <1>4. CASE AskQuestion
    <2>1. TurnGood'
      BY <1>4 DEF AskQuestion, TurnGood, TurnRec, Pcs, Futs, Idle
    <2> QED
      BY <1>4, <2>1, HandoffStays, OnlyTheTurn DEF AskQuestion
  <1>5. CASE Register \/ Pushed \/ TimesOut \/ WakeUp \/ Retaken
    <2>1. /\ UNCHANGED <<recs, running, handoff>>
          /\ turn' \in TurnRec /\ turn'.kind = turn.kind /\ turn'.rec = turn.rec
          /\ turn'.pc # "running"
      <3>1. turn \in TurnRec
        BY DEF Ind, TurnGood
      <3>2. Answer \in Futs
        BY <3>1 DEF Answer, TurnRec, Pcs, Futs
      <3>3. CASE Register
        BY <3>1, <3>3 DEF Register, TurnRec, Pcs, Futs
      <3>4. CASE Pushed
        BY <3>1, <3>4 DEF Pushed, TurnRec, Pcs, Futs
      <3>5. CASE TimesOut
        BY <3>1, <3>5 DEF TimesOut, At, TurnRec, Pcs, Futs
      <3>6. CASE WakeUp
        BY <3>1, <3>2, <3>6 DEF WakeUp, TurnRec, Pcs, Futs
      <3>7. CASE Retaken
        BY <3>1, <3>7 DEF Retaken, TurnRec, Pcs, Futs
      <3> QED
        BY <1>5, <3>3, <3>4, <3>5, <3>6, <3>7
    <2>2. TurnGood'
      BY <2>1 DEF Ind, TurnGood
    <2> QED
      BY <2>1, <2>2, HandoffStays, OnlyTheTurn
  <1>6. CASE ActOnAnswer
    <2>1. CASE turn.kind = "approval" /\ turn.answer \in Verdicts
      <3> DEFINE i  == turn.rec
                 by == IF handoff[i] = "none" THEN "chat" ELSE handoff[i]
      <3>1. i \in 1..Len(recs)
        BY <2>1 DEF Ind, TurnGood
      <3>2. by \in Owners
        BY <3>1 DEF Ind, HandoffTyped, Owners, Deciders
      <3>3. Decided(i, turn.answer, by) /\ handoff' = [handoff EXCEPT ![i] = "none"]
            /\ (turn' = [turn EXCEPT !.pc = "running"] \/ turn' = Idle)
        BY <1>6, <2>1 DEF ActOnAnswer
      <3> HIDE DEF by
      <3>4. RecordsStep /\ Len(recs') = Len(recs)
        BY <3>1, <3>2, <3>3, OneIsDecided
      <3>5. HandoffTyped'
        BY <3>1, <3>3, <3>4, ExceptSeq DEF Ind, HandoffTyped
      <3>6. TurnGood'
        BY <2>1, <3>3, <3>4, TurnIsIdle DEF Ind, TurnGood, TurnRec, Pcs, Futs
      <3> QED
        BY <3>4, <3>5, <3>6 DEF Ind, RecordsStep
    <2>2. CASE ~(turn.kind = "approval" /\ turn.answer \in Verdicts)
      BY <1>6, <2>2, TurnIsIdle, HandoffStays, OnlyTheTurn DEF ActOnAnswer
    <2> QED
      BY <2>1, <2>2
  <1>7. CASE Stop
    <2>1. turn' = Idle /\ UNCHANGED handoff
      BY <1>7 DEF Stop
    <2>2. CASE At("running")
      <3>1. turn.rec \in 1..Len(recs)
        BY <2>2 DEF Ind, TurnGood, At
      <3>2. recs' = Transition(turn.rec, "approved", "failed", "none")
            /\ running' = [running EXCEPT ![turn.rec] = "nobody"]
        BY <1>7, <2>2 DEF Stop
      <3>3. RecordsStep /\ Len(recs') = Len(recs)
        BY <3>1, <3>2, OneIsSettled DEF Terminal
      <3> QED
        BY <2>1, <3>3, TurnIsIdle, HandoffStays DEF Ind, RecordsStep
    <2>3. CASE ~At("running")
      BY <1>7, <2>1, <2>3, TurnIsIdle, HandoffStays, OnlyTheTurn DEF Stop
    <2> QED
      BY <2>2, <2>3
  <1>8. CASE GatewayDies
    <2>1. turn' = Idle /\ UNCHANGED recs
          /\ handoff' = [i \in 1..Len(recs) |-> "none"]
          /\ running' = [i \in 1..Len(recs) |-> IF running[i] \in OfCli THEN running[i] ELSE "nobody"]
      BY <1>8, <1>ids DEF GatewayDies
    <2>2. running' \in Seq(Runner) /\ Len(running') = Len(recs)
          /\ \A i \in 1..Len(recs) : running'[i] \in {running[i], "nobody"}
      <3>1. \A i \in 1..Len(recs) : running[i] \in Runner /\ "nobody" \in Runner
        BY DEF Ind, RecordsGood, Good, Runner
      <3>2. running' \in [1..Len(recs) -> Runner]
            /\ \A i \in 1..Len(recs) : running'[i] \in {running[i], "nobody"}
        BY <2>1, <3>1
      <3> QED
        BY <1>ids, <2>1, <3>1, <3>2
    <2>3. HandoffTyped'
      BY <1>ids, <2>1 DEF HandoffTyped
    <2>4. \A i \in 1..Len(recs) : Good(recs[i], running'[i]) /\ recs[i].runs \in Nat
      BY <2>2 DEF Ind, RecordsGood, Good, Rec, Runner, Owners, Deciders
    <2>5. RecordsStep
      BY <1>ids, <2>1, <2>2, <2>4, SMTT(30) DEF RecordsStep, RecordsGood, Lawful, Ind
    <2> QED
      BY <2>1, <2>3, <2>5, TurnIsIdle DEF Ind, RecordsStep
  <1>9. ASSUME NEW text \in Verdicts \cup {"text", "media"}, Reply(text) PROVE Ind' /\ RecordsStep
    <2>1. UNCHANGED <<recs, running, handoff>>
          /\ (turn' = turn \/ \E w \in Verdicts \cup {"text", "fallback"} : Put(w))
      BY <1>9 DEF Reply
    <2>2. TurnGood'
      BY <1>ids, <2>1 DEF Put, Ind, TurnGood, TurnRec, Pcs, Futs, Verdicts
    <2> QED
      BY <2>1, <2>2, HandoffStays, OnlyTheTurn
  <1>10. CASE NobodyWatches
    <2>1. TurnGood'
      BY <1>10 DEF NobodyWatches, Put, Ind, TurnGood, TurnRec, Pcs, Futs
    <2> QED
      BY <1>10, <2>1, HandoffStays, OnlyTheTurn DEF NobodyWatches
  <1>11. ASSUME NEW i \in Ids, NEW v \in Verdicts, Click(i, v) PROVE Ind' /\ RecordsStep
    <2>1. CASE Open /\ turn.kind = "approval" /\ turn.rec = i
      <3>1. TurnGood'
        BY <1>11, <2>1 DEF Click, Put, Ind, TurnGood, TurnRec, Pcs, Futs, Verdicts
      <3>2. HandoffTyped'
        BY <1>11, <1>ids, <2>1, ExceptSeq DEF Click, Ind, HandoffTyped, Deciders
      <3> QED
        BY <1>11, <2>1, <3>1, <3>2, OnlyTheTurn DEF Click
    <2>2. CASE ~(Open /\ turn.kind = "approval" /\ turn.rec = i)
      <3>1. Decided(i, v, "web") /\ UNCHANGED <<handoff, turn>>
        BY <1>11, <2>2 DEF Click
      <3>2. RecordsStep /\ Len(recs') = Len(recs)
        BY <1>ids, <3>1, OneIsDecided DEF Owners, Deciders
      <3> QED
        BY <1>ids, <3>1, <3>2, HandoffStays, TurnStays DEF Ind, RecordsStep
    <2> QED
      BY <2>1, <2>2
  <1>12. ASSUME NEW i \in Ids, NEW v \in Verdicts, CommandLine(i, v) PROVE Ind' /\ RecordsStep
    <2>1. RecordsStep /\ Len(recs') = Len(recs)
      BY <1>12, <1>ids, OneIsDecided DEF CommandLine, Owners, Deciders
    <2> QED
      BY <1>12, <1>ids, <2>1, HandoffStays, TurnStays DEF CommandLine, Ind, RecordsStep
  <1>13. ASSUME NEW i \in Ids, Start(i) PROVE Ind' /\ RecordsStep
    <2>1. recs[i] \in Rec /\ Good(recs[i], running[i]) /\ running[i] \in Owners
      BY <1>13, <1>ids DEF Start, Ind, RecordsGood, Good, Owners
    <2>2. RecordsStep /\ Len(recs') = Len(recs)
      <3>1. ASSUME NEW to \in {"failed", "stale"}, NotRun(i, to)
            PROVE  RecordsStep /\ Len(recs') = Len(recs)
        BY <1>13, <1>ids, <3>1, OneIsSettled DEF Start, NotRun, Terminal, Owners, Deciders
      <3>2. CASE ~(\E to \in {"failed", "stale"} : NotRun(i, to))
        <4> DEFINE r   == [recs[i] EXCEPT !.runs = @ + 1]
                   who == IF running[i] = "cli" THEN "executing cli" ELSE "executing"
        <4>1. /\ recs' = [recs EXCEPT ![i] = r] /\ running' = [running EXCEPT ![i] = who]
              /\ ~recs[i].changed
          BY <1>13, <3>2 DEF Start
        <4>2. /\ r \in Rec /\ r.runs = recs[i].runs + 1 /\ r.status = recs[i].status
              /\ r.by = recs[i].by /\ who \in {"executing", "executing cli"}
          BY <2>1 DEF Rec
        <4> HIDE DEF r, who
        <4>3. recs[i].runs = 0 /\ recs[i].status \in {"approved", "failed"} /\ recs[i].by \in Owners
          BY <2>1 DEF Good
        <4>6. who \in Runner \ Owners
          BY <4>2 DEF Runner, Owners, Deciders
        <4>7. r.runs = 1
          <5>1. \A n \in Nat : n = 0 => n + 1 = 1
            OBVIOUS
          <5>2. recs[i].runs \in Nat
            BY <2>1 DEF Rec
          <5> QED
            BY <4>2, <4>3, <5>1, <5>2
        <4>8. r.status # "pending"
          BY <4>2, <4>3
        <4>9. r.runs <= 1
          BY <4>7
        <4>4. Good(r, who)
          BY <4>2, <4>6, <4>8, <4>9, Zenon DEF Good
        <4>5. Lawful(recs[i], r)
          BY <4>1, <4>2, <4>3 DEF Lawful
        <4> QED
          BY <1>ids, <4>1, <4>4, <4>5, OneChanges
      <3> QED
        BY <3>1, <3>2
    <2>3. turn' = Idle \/ turn' = turn
      BY <1>13 DEF Start, NotRun
    <2> QED
      BY <1>13, <1>ids, <2>2, <2>3, HandoffStays, TurnStays, TurnIsIdle DEF Start, Ind, RecordsStep
  <1>14. ASSUME NEW i \in Ids, NEW r \in {"applied", "failed"}, End(i, r) PROVE Ind' /\ RecordsStep
    <2>1. RecordsStep /\ Len(recs') = Len(recs)
      BY <1>14, <1>ids, OneIsSettled DEF End, Terminal, Owners, Deciders
    <2>2. turn' = Idle \/ turn' = turn
      BY <1>14 DEF End
    <2> QED
      BY <1>14, <1>ids, <2>1, <2>2, HandoffStays, TurnStays, TurnIsIdle DEF End, Ind, RecordsStep
  <1>15. ASSUME NEW i \in Ids, Housekeep(i) PROVE Ind' /\ RecordsStep
    <2>1. running' = [running EXCEPT ![i] = running[i]]
      BY <1>15, <1>ids DEF Housekeep, Ind, RecordsGood
    <2>2. recs[i].status = "pending" => running[i] \notin Owners
      BY <1>ids DEF Ind, RecordsGood, Good, Owners, Deciders
    <2>3. RecordsStep /\ Len(recs') = Len(recs)
      BY <1>15, <1>ids, <2>1, <2>2, OneIsSettled DEF Housekeep, Terminal
    <2> QED
      BY <1>15, <1>ids, <2>3, HandoffStays, TurnStays DEF Housekeep, Ind, RecordsStep
  <1>16. ASSUME NEW i \in Ids, Change(i) PROVE Ind' /\ RecordsStep
    <2> DEFINE r == [recs[i] EXCEPT !.changed = TRUE]
    <2>1. recs' = [recs EXCEPT ![i] = r] /\ running' = [running EXCEPT ![i] = running[i]]
      BY <1>16, <1>ids DEF Change, Ind, RecordsGood
    <2>2. recs[i] \in Rec /\ Good(recs[i], running[i])
      BY <1>ids DEF Ind, RecordsGood, Good
    <2>3. r \in Rec /\ r.runs = recs[i].runs /\ r.status = recs[i].status /\ r.by = recs[i].by
          /\ recs[i].runs \in Nat
      BY <2>2 DEF Rec
    <2> HIDE DEF r
    <2>4. Good(r, running[i]) /\ Lawful(recs[i], r)
      BY <2>2, <2>3 DEF Good, Lawful
    <2>5. RecordsStep /\ Len(recs') = Len(recs)
      BY <1>ids, <2>1, <2>4, OneChanges
    <2> QED
      BY <1>16, <1>ids, <2>5, HandoffStays, TurnStays DEF Change, Ind, RecordsStep
  <1>17. ASSUME NEW i \in Ids, CliDies(i) PROVE Ind' /\ RecordsStep
    <2>1. recs' = [recs EXCEPT ![i] = recs[i]] /\ running' = [running EXCEPT ![i] = "nobody"]
      BY <1>17, <1>ids DEF CliDies, Ind, RecordsGood
    <2>2. recs[i] \in Rec /\ Good(recs[i], running[i]) /\ recs[i].runs \in Nat
      BY <1>ids DEF Ind, RecordsGood, Good, Rec
    <2>5. "nobody" \in Runner /\ "nobody" \notin Owners
      BY DEF Runner, Owners, Deciders
    <2>3. Good(recs[i], "nobody") /\ Lawful(recs[i], recs[i])
      BY <2>2, <2>5 DEF Good, Lawful
    <2>4. RecordsStep /\ Len(recs') = Len(recs)
      BY <1>ids, <2>1, <2>3, OneChanges
    <2> QED
      BY <1>17, <1>ids, <2>4, HandoffStays, TurnStays DEF CliDies, Ind, RecordsStep
  <1>18. CASE UNCHANGED vars
    BY <1>18, <1>ids, HandoffStays, TurnStays, OnlyTheTurn DEF vars
  <1> QED
    BY <1>1, <1>2, <1>3, <1>4, <1>5, <1>6, <1>7, <1>8, <1>9, <1>10, <1>11, <1>12, <1>13,
       <1>14, <1>15, <1>16, <1>17, <1>18 DEF Next, Turn, Wait

---------------------------------------------------------------------------

\* A request is carried out at most once (approval.py: _run_approved), however many people
\* decide it from the chat, the web and the command line, and whatever dies: RunsOnce.
THEOREM CarriedOutOnce == Spec => []RunsOnce
  <1>1. Ind => RunsOnce
    BY DEF Ind, RecordsGood, Good, RunsOnce, Ids
  <1> QED
    BY <1>1, IndInit, IndStep, PTL DEF Spec

\* Nothing writes over a decision, and nothing runs without one (approval_store.py:
\* transition): DecisionsHold, for every step of every behaviour.
THEOREM DecisionsAreKept == Spec => DecisionsHold
  <1>1. Ind /\ [Next]_vars => [\A i \in Ids : RunsAsApproved(i) /\ StaysSettled(i)]_vars
    <2> SUFFICES ASSUME Ind, [Next]_vars
                 PROVE  \A i \in Ids : RunsAsApproved(i) /\ StaysSettled(i)
      OBVIOUS
    <2>1. Ids = 1..Len(recs)
      BY DEF Ind, RecordsGood, Ids
    <2> QED
      BY <2>1, IndStep DEF RecordsStep, Lawful, RunsAsApproved, StaysSettled, Owners
  <1> QED
    BY <1>1, IndInit, IndStep, PTL DEF Spec, DecisionsHold

---------------------------------------------------------------------------
(* The wait for a person                                                   *)

\* A verdict that was given is in the future until the turn has seen it.
Heard == turn.kind = "approval" /\ turn.reply \in Verdicts

\* The turn's future is registered as long as it is open; what is put into it stays there,
\* and the turn takes it along when it wakes.
WaitGood ==
    /\ waiter \in {"none", "turn", "left"}
    /\ turn.fut = "open" => waiter = "turn"
    /\ turn.rec \in {0} \cup Ids
    /\ At("asking") => turn.fut = "none" /\ turn.reply = "none"
    /\ At("pushing") => turn.kind = "question"
    /\ At("waiting") /\ Heard => turn.fut = turn.reply
    /\ turn.pc \in {"retaking", "answered"} => turn.fut # "open" /\ (Heard => turn.answer = turn.reply)

\* A turn that begins or is over waits for nothing.
LEMMA FreshTurn ==
    ASSUME NEW x \in {"idle", "asking", "running"}, NEW k, NEW i \in {0} \cup Ids',
           turn' = [Idle EXCEPT !.pc = x, !.kind = k, !.rec = i],
           waiter' \in {"none", "turn", "left"}
    PROVE  WaitGood'
  <1> DEFINE t == [pc |-> x, kind |-> k, rec |-> i, fut |-> "none", reply |-> "none",
                   late |-> FALSE, answer |-> "none"]
  <1>1. turn' = t
    BY DEF Idle
  <1>3. t.pc = x /\ t.fut = "none" /\ t.reply = "none" /\ t.rec = i
    OBVIOUS
  <1> HIDE DEF t
  <1>2. /\ turn'.pc = x /\ turn'.fut = "none" /\ turn'.reply = "none" /\ turn'.rec = i
    BY <1>1, <1>3, Zenon
  <1> QED
    BY <1>2 DEF WaitGood, At

LEMMA OverAndDone ==
    ASSUME turn' = Idle, waiter' \in {"none", "turn", "left"}
    PROVE  WaitGood'
  <1>1. turn'.pc = "idle" /\ turn'.fut = "none" /\ turn'.rec = 0
    BY DEF Idle
  <1> QED
    BY <1>1 DEF WaitGood, At

\* Someone else's step.
LEMMA WaitStays ==
    ASSUME WaitGood, UNCHANGED <<turn, waiter>>, Ids \subseteq Ids'
    PROVE  WaitGood'
  BY DEF WaitGood, At, Heard

\* An answer is put into an open future, which leaves the table.
LEMMA WaitPut ==
    ASSUME WaitGood, turn \in TurnRec, Open, NEW what \in Verdicts \cup {"text", "fallback"},
           Put(what), UNCHANGED recs, waiter' = "none"
    PROVE  WaitGood'
  <1>1. /\ turn'.pc = turn.pc /\ turn'.kind = turn.kind /\ turn'.rec = turn.rec
        /\ turn'.fut = what /\ turn'.reply = what /\ turn.fut = "open"
    BY DEF Put, TurnRec, Open
  <1>2. turn.pc \notin {"asking", "retaking", "answered"}
    BY <1>1 DEF WaitGood, At
  <1>3. what # "open" /\ Ids' = Ids
    BY DEF Verdicts, Ids
  <1> QED
    BY <1>1, <1>2, <1>3 DEF WaitGood, At, Heard

\* Nobody waits when a gateway starts anew.
LEMMA WaitInit == Init => WaitGood
  BY DEF Init, WaitGood, Idle, At, Ids

\* What the wait is, after every step.
LEMMA WaitStep == Ind /\ WaitGood /\ [Next]_vars => WaitGood'
  <1> SUFFICES ASSUME Ind, WaitGood, [Next]_vars PROVE WaitGood'
    OBVIOUS
  <1>t. turn \in TurnRec /\ waiter \in {"none", "turn", "left"}
    BY DEF Ind, TurnGood, WaitGood
  <1>i. /\ Ids = 1..Len(recs) /\ Ids' = 1..Len(recs') /\ Ids \subseteq Ids'
        /\ Len(recs) \in Nat /\ Len(recs') \in Nat
    BY IndStep DEF Ind, RecordsGood, RecordsStep, Ids
  <1>1. CASE AskApproval
    <2>1. UNCHANGED waiter
      BY <1>1 DEF AskApproval
    <2>2. \E j \in {0} \cup Ids' : turn' = [Idle EXCEPT !.pc = "asking", !.kind = "approval", !.rec = j]
      <3>1. ASSUME NEW j \in Pending, UNCHANGED recs
            PROVE  j \in Ids'
        BY <3>1 DEF Pending, Ids
      <3>2. ASSUME Filed("pending", "none") PROVE Len(recs) + 1 \in Ids'
        BY <1>i, <3>2, OneIsFiled
      <3> QED
        BY <1>1, <3>1, <3>2 DEF AskApproval
    <2> QED
      BY <1>t, <2>1, <2>2, FreshTurn
  <1>2. CASE FileOnly
    BY <1>2, <1>i, WaitStays DEF FileOnly
  <1>3. CASE JudgeClears
    <2>1. UNCHANGED waiter
      BY <1>3 DEF JudgeClears
    <2>2. \E j \in {0} \cup Ids' : turn' = [Idle EXCEPT !.pc = "running", !.kind = "approval", !.rec = j]
      <3>1. \A j \in Pending : j \in Ids'
        BY <1>i DEF Pending
      <3>2. ASSUME Filed("approved", "judge") PROVE Len(recs) + 1 \in Ids'
        BY <1>i, <3>2, OneIsFiled
      <3> QED
        BY <1>3, <3>1, <3>2 DEF JudgeClears
    <2> QED
      BY <1>t, <2>1, <2>2, FreshTurn
  <1>4. CASE Register
    <2>1. /\ turn'.pc = "waiting" /\ turn'.fut = "open" /\ turn'.reply = turn.reply
          /\ turn'.rec = turn.rec /\ waiter' = "turn"
      BY <1>4, <1>t DEF Register, TurnRec
    <2>2. turn.reply = "none"
      BY <1>4 DEF Register, WaitGood
    <2> QED
      BY <1>i, <2>1, <2>2 DEF WaitGood, At, Heard, Verdicts
  <1>5. CASE AskQuestion
    <2>1. turn' = [pc |-> "pushing", kind |-> "question", rec |-> 0, fut |-> "open",
                   reply |-> "none", late |-> FALSE, answer |-> "none"]
          /\ waiter' = "turn"
      BY <1>5 DEF AskQuestion, Idle
    <2>2. turn'.pc = "pushing" /\ turn'.kind = "question" /\ turn'.rec = 0
      BY <2>1
    <2> QED
      BY <2>1, <2>2 DEF WaitGood, At
  <1>6. CASE Pushed
    <2>1. /\ turn'.pc = "waiting" /\ turn'.fut = turn.fut /\ turn'.kind = turn.kind
          /\ turn'.rec = turn.rec /\ UNCHANGED waiter
      BY <1>6, <1>t DEF Pushed, TurnRec
    <2>2. turn.kind = "question"
      BY <1>6 DEF Pushed, WaitGood
    <2> QED
      BY <1>i, <2>1, <2>2 DEF WaitGood, At, Heard
  <1>7. CASE TimesOut
    <2>1. /\ turn'.pc = "waiting" /\ turn'.kind = turn.kind /\ turn'.reply = turn.reply
          /\ turn'.rec = turn.rec /\ UNCHANGED waiter /\ turn.pc = "waiting"
          /\ turn'.fut = IF turn.fut = "open" THEN "cancelled" ELSE turn.fut
      BY <1>7, <1>t DEF TimesOut, TurnRec, At
    <2>2. Heard => turn.fut # "open"
      BY <2>1 DEF WaitGood, At, Heard, Verdicts
    <2> QED
      BY <1>i, <2>1, <2>2 DEF WaitGood, At, Heard
  <1>8. CASE WakeUp
    <2>1. /\ turn'.pc = "retaking" /\ turn'.kind = turn.kind /\ turn'.reply = turn.reply
          /\ turn'.rec = turn.rec /\ UNCHANGED waiter /\ turn.pc = "waiting"
          /\ turn'.fut = turn.fut /\ turn.fut # "open" /\ turn'.answer = Answer
      BY <1>8, <1>t DEF WakeUp, TurnRec, At
    <2>2. Heard => Answer = turn.reply
      BY <2>1 DEF WaitGood, At, Heard, Verdicts, Answer
    <2> QED
      BY <1>i, <2>1, <2>2 DEF WaitGood, At, Heard
  <1>9. CASE Retaken
    <2>1. /\ turn'.pc = "answered" /\ turn'.kind = turn.kind /\ turn'.reply = turn.reply
          /\ turn'.rec = turn.rec /\ turn.pc = "retaking" /\ turn'.answer = turn.answer
          /\ turn'.fut = turn.fut /\ waiter' \in {"none", "turn", "left"}
      BY <1>9, <1>t DEF Retaken, TurnRec, At
    <2> QED
      BY <1>i, <2>1 DEF WaitGood, At, Heard
  <1>10. CASE ActOnAnswer
    <2>1. UNCHANGED waiter /\ turn.pc = "answered"
          /\ (turn' = Idle \/ turn' = [turn EXCEPT !.pc = "running"])
      BY <1>10 DEF ActOnAnswer, At
    <2>2. CASE turn' = [turn EXCEPT !.pc = "running"]
      <3>1. turn'.pc = "running" /\ turn'.rec = turn.rec /\ turn'.fut = turn.fut
        BY <1>t, <2>2 DEF TurnRec
      <3> QED
        BY <1>i, <2>1, <3>1 DEF WaitGood, At
    <2> QED
      BY <1>t, <2>1, <2>2, OverAndDone
  <1>11. CASE Stop
    BY <1>11, <1>t, OverAndDone DEF Stop
  <1>12. CASE GatewayDies
    BY <1>12, OverAndDone DEF GatewayDies
  <1>13. ASSUME NEW text \in Verdicts \cup {"text", "media"}, Reply(text) PROVE WaitGood'
    <2>1. CASE waiter = "left" /\ UNCHANGED turn
      BY <1>13, <2>1 DEF Reply, WaitGood, At, Heard, Ids
    <2>2. CASE Open /\ \E w \in Verdicts \cup {"text", "fallback"} : Put(w)
      BY <1>13, <1>t, <2>2, WaitPut DEF Reply
    <2> QED
      BY <1>13, <2>1, <2>2 DEF Reply
  <1>14. CASE NobodyWatches
    BY <1>14, <1>t, WaitPut DEF NobodyWatches
  <1>15. ASSUME NEW i \in Ids, NEW v \in Verdicts, Click(i, v) PROVE WaitGood'
    <2>1. CASE Open /\ turn.kind = "approval" /\ turn.rec = i
      BY <1>15, <1>t, <2>1, WaitPut DEF Click
    <2>2. CASE ~(Open /\ turn.kind = "approval" /\ turn.rec = i)
      BY <1>15, <1>i, <2>2, WaitStays DEF Click
    <2> QED
      BY <2>1, <2>2
  <1>16. ASSUME NEW i \in Ids, NEW v \in Verdicts, CommandLine(i, v) PROVE WaitGood'
    BY <1>16, <1>i, WaitStays DEF CommandLine
  <1>17. ASSUME NEW i \in Ids, Start(i) PROVE WaitGood'
    BY <1>17, <1>i, <1>t, WaitStays, OverAndDone DEF Start, NotRun
  <1>18. ASSUME NEW i \in Ids, NEW r \in {"applied", "failed"}, End(i, r) PROVE WaitGood'
    BY <1>18, <1>i, <1>t, WaitStays, OverAndDone DEF End
  <1>19. ASSUME NEW i \in Ids, Housekeep(i) \/ Change(i) \/ CliDies(i) PROVE WaitGood'
    BY <1>19, <1>i, WaitStays DEF Housekeep, Change, CliDies
  <1>20. CASE UNCHANGED vars
    BY <1>20, <1>i, WaitStays DEF vars
  <1> QED
    BY <1>1, <1>2, <1>3, <1>4, <1>5, <1>6, <1>7, <1>8, <1>9, <1>10, <1>11, <1>12, <1>13,
       <1>14, <1>15, <1>16, <1>17, <1>18, <1>19, <1>20 DEF Next, Turn, Wait

\* A turn that waits can be reached (pending_answers.py: resolve), for any number of requests
\* and turns, and every variable has its type: WaitConsistent.
THEOREM WaitingCanBeAnswered == Spec => []WaitConsistent
  <1>1. Ind /\ WaitGood => WaitConsistent
    <2> SUFFICES ASSUME Ind, WaitGood PROVE WaitConsistent
      OBVIOUS
    <2>1. Ids = 1..Len(recs)
      BY DEF Ind, RecordsGood, Ids
    <2>2. recs \in Seq([status : Terminal \cup {"pending", "approved"},
                        by : Deciders \cup {"judge", "none"}, changed : BOOLEAN, runs : Nat])
      <3>1. Owners \cup {"none"} = Deciders \cup {"judge", "none"}
        BY DEF Owners
      <3> QED
        BY <3>1 DEF Ind, RecordsGood, Rec
    <2>3. running \in [Ids -> Deciders \cup {"judge", "nobody", "executing", "executing cli"}]
      <3>1. Runner = Deciders \cup {"judge", "nobody", "executing", "executing cli"}
        BY DEF Runner, Owners
      <3>2. running \in [1..Len(running) -> Runner] /\ Len(running) = Len(recs)
        BY DEF Ind, RecordsGood
      <3> QED
        BY <2>1, <3>1, <3>2
    <2>4. handoff \in [Ids -> Deciders \cup {"none"}]
      BY <2>1 DEF Ind, HandoffTyped
    <2>5. /\ turn.pc \in Pcs /\ turn.fut \in Futs
          /\ (turn.kind = "approval" => turn.rec \in Ids)
      BY <2>1 DEF Ind, TurnGood, TurnRec
    <2>6. WaitingIsReachable
      BY DEF WaitGood, WaitingIsReachable
    <2> QED
      BY <2>2, <2>3, <2>4, <2>5, <2>6 DEF WaitConsistent, TypeOK, WaitGood, Pcs, Futs, Verdicts
  <1> QED
    BY <1>1, IndInit, IndStep, WaitInit, WaitStep, PTL DEF Spec

\* The verdict a waiting turn was given is the one it goes on with, also when the timeout
\* strikes in the same turn of the loop (approval_prompt.py:124): VerdictKept.
THEOREM VerdictIsKept == Spec => []VerdictKept
  <1>1. WaitGood => VerdictKept
    BY DEF WaitGood, Heard, VerdictKept
  <1> QED
    BY <1>1, IndInit, IndStep, WaitInit, WaitStep, PTL DEF Spec
=============================================================================
