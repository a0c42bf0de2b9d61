---------------------------- MODULE TurnPromise ----------------------------
(***************************************************************************)
(* What an ACP turn promises to the scheduler: the requests go out in      *)
(* order, one at a time, the prompt last and only while nothing is wrong;  *)
(* the prompt has one answer, or none, and one that comes after its time   *)
(* does not count; the turn is cancelled only when its time is over and    *)
(* the answer is missing; and the verdict, given once, is a success only   *)
(* for a prompt that was answered in time, of a process tree that is gone. *)
(***************************************************************************)
EXTENDS Integers

CONSTANT Requests   \* how many requests a turn has; the last is the prompt

VARIABLES
  stage,      \* the request the turn has got to, 0 before it has a process
  refused,    \* a request of the server was refused
  complaint,  \* the server has reported an error while it worked
  given,      \* the server has written end_turn under the prompt's id
  answer,     \* what the client holds for the answer: none, good or bad
  over,       \* the time of the turn was over
  cancelled,  \* the server was asked to stop
  left,       \* something of the process tree is left
  verdict

vars == <<stage, refused, complaint, given, answer, over, cancelled, left, verdict>>

Verdicts == {"success", "provider", "protocol", "local_error", "host_timeout"}

Init == /\ stage = 0 /\ answer = "none" /\ verdict = "none"
        /\ ~refused /\ ~complaint /\ ~given /\ ~over /\ ~cancelled /\ ~left

Open == verdict = "none"
Started == Open /\ stage > 0
InTime == Started /\ ~over
Unanswered == Started /\ answer = "none"

Start == /\ Open /\ stage = 0
         /\ stage' = 1 /\ left' = TRUE
         /\ UNCHANGED <<refused, complaint, given, answer, over, cancelled, verdict>>

\* The next request follows an answer, and no refusal.
Advance == /\ InTime /\ ~refused /\ stage < Requests
           /\ stage' = stage + 1
           /\ UNCHANGED <<refused, complaint, given, answer, over, cancelled, left, verdict>>

Refuse == /\ Started /\ refused' = TRUE
          /\ UNCHANGED <<stage, complaint, given, answer, over, cancelled, left, verdict>>

\* An error counts only while the server works on the prompt.
Complain == /\ Started /\ stage = Requests
            /\ complaint' = TRUE
            /\ UNCHANGED <<stage, refused, given, answer, over, cancelled, left, verdict>>

\* The ids of the requests are foreseeable: the answer may be there before the prompt.
Give == /\ Started /\ given' = TRUE
        /\ UNCHANGED <<stage, refused, complaint, answer, over, cancelled, left, verdict>>

\* The answer is taken once, a good one only if it was given, and after a refusal
\* only when it does not count any more.
Take == /\ Unanswered /\ stage = Requests
        /\ refused => over
        /\ answer' \in {"bad"} \cup (IF given THEN {"good"} ELSE {})
        /\ UNCHANGED <<stage, refused, complaint, given, over, cancelled, left, verdict>>

Expire == /\ Unanswered /\ InTime
          /\ over' = TRUE
          /\ UNCHANGED <<stage, refused, complaint, given, answer, cancelled, left, verdict>>

Cancel == /\ Unanswered /\ over /\ stage = Requests /\ ~cancelled
          /\ cancelled' = TRUE
          /\ UNCHANGED <<stage, refused, complaint, given, answer, over, left, verdict>>

Vanish == /\ left /\ left' = FALSE
          /\ UNCHANGED <<stage, refused, complaint, given, answer, over, cancelled, verdict>>

\* The verdicts the facts allow; local_error may be about what the facts here do not show.
Earned(v) ==
  \/ v = "local_error" /\ stage > 0
  \/ v = "host_timeout" /\ stage > 0 /\ ~left
  \/ v = "protocol" /\ ~over /\ ~left
  \/ v = "provider" /\ complaint /\ answer = "good" /\ ~refused /\ ~over /\ ~left
  \/ v = "success" /\ ~complaint /\ answer = "good" /\ ~refused /\ ~over /\ ~left

Decide == /\ Open
          /\ \E v \in Verdicts : Earned(v) /\ verdict' = v
          /\ UNCHANGED <<stage, refused, complaint, given, answer, over, cancelled, left>>

Next == \/ Start \/ Advance \/ Refuse \/ Complain \/ Give \/ Take \/ Expire \/ Cancel
        \/ Vanish \/ Decide

Spec == Init /\ [][Next]_vars
=============================================================================
