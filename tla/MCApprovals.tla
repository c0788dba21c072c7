---------------------------- MODULE MCApprovals ----------------------------
(* TLC instances of Approvals. *)
EXTENDS Approvals

---------------------------------------------------------------------------
(* What the repository's docs say and the code does not do; the README tells  *)
(* the behaviour that TLC finds for each when it is made a property of a run. *)

\* "Each entry is popped on every path ... so nothing leaks" (approval.py:107-114): a
\* name left for a record is left for a turn that is still to take it.
NoNameLeaks ==
    \A i \in Ids :
        handoff[i] # "none" =>
            turn.rec = i /\ turn.kind = "approval" /\ turn.pc \in {"waiting", "retaking", "answered"}

\* An answer given to ask_user before its wait ended is the one it returns
\* (tools/ask_user.py: _await_answer).
AnswerKept ==
    turn.kind = "question" /\ turn.pc \in {"retaking", "answered"} /\ turn.reply = "text"
      => turn.answer = "text"

\* No future stays in the table after its turn: the next message would be taken for
\* its answer (pending_answers.py: discard).
NothingSwallowed == waiter # "left"
=============================================================================
