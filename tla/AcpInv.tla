------------------------------- MODULE AcpInv -------------------------------
(***************************************************************************)
(* The inductive invariant of AcpTurn, in named parts.                     *)
(***************************************************************************)
EXTENDS AcpTurn

Cleanup == {"eof", "term", "kill", "drain", "done"}

\* How late each part of the turn may be.
Latest(at) == IF at = "eof" THEN Total + Grace
              ELSE IF at = "term" THEN Total + 2 * Grace
              ELSE IF at = "kill" THEN Total + 3 * Grace
              ELSE IF at \in {"drain", "done"} THEN Total + 5 * Grace
              ELSE Total

\* The clock and the bound of every wait respect that.
OnTime == now <= Latest(pc) /\ until <= Latest(pc)

\* There is a process exactly from the launch on.
Launched == /\ pc = "launch" => proc = "absent"
            /\ proc = "absent" => /\ pc \in {"launch", "done"}
                                   /\ helpers = "none" /\ ~timedOut /\ ~uncertain
            /\ pc = "done" /\ proc = "absent" => verdict = "protocol"

\* Every answer to the prompt on its way is one the server gave.
Terminal(f) == f.kind = "response" /\ f.id = Prompt /\ f.good
Given(s, given) == \A n \in 1..Len(s) : Terminal(s[n]) => given
AnswersAreTrue ==
  /\ Given(pipe, answered) /\ Given(buffer, answered)
  /\ reply = "good" => answered

\* The windows after the prompt are entered only with the prompt.
PromptSent ==
  pc \in {"cancel", "cancelEnter", "cancelWait", "close", "closeWait", "watch"}
    => step = Prompt

\* The answer, the deadline and the cancellation are settled once, in that order; the
\* requests are counted from the launch on.
SettledOnce ==
  /\ proc = "absent" => step = 1
  /\ pc \in {"launch", "send", "enter", "wait"} => reply = "none" /\ ~timedOut /\ ~cancelSent
  /\ pc = "cancel" => reply = "none" /\ timedOut /\ ~cancelSent
  /\ pc \in {"cancelEnter", "cancelWait"} => reply = "none" /\ timedOut

\* A failure is kept until the assessment: only a turn that got past the
\* prompt's answer without a refusal has none.
FailureIsKept == pc = "watch" \/ (pc \in Cleanup /\ ~failed) => ~refused

\* The assessment is the last step, and it is true of what is left.
Assessed == /\ verdict = "none" <=> pc # "done"
            /\ pc = "done" /\ proc # "absent" => verdict = Assess

Inv == /\ TypeOK
       /\ OnTime
       /\ Launched
       /\ CertainMeansGone
       /\ PromptSent
       /\ AnswersAreTrue
       /\ SettledOnce
       /\ FailureIsKept
       /\ Assessed
=============================================================================
