----------------------------- MODULE TaskBoard -----------------------------
(***************************************************************************)
(* What Neocortex promises about the status of tasks, whoever acts and     *)
(* whatever crashes: which status may follow which, and on what condition. *)
(* The lifecycle of module Lifecycle implements this board.                *)
(***************************************************************************)
CONSTANTS Tasks, Deps

VARIABLES
  status,    \* task.status
  recorded   \* whether task.merge_commit is set

board == <<status, recorded>>

Active == {"in_progress", "in_review", "blocked"}

Init ==
  /\ status = [t \in Tasks |-> "absent"]
  /\ recorded = [t \in Tasks |-> FALSE]

Move(t, from, to) ==
  /\ status[t] \in from
  /\ status' = [status EXCEPT ![t] = to]

Add(t) == Move(t, {"absent"}, "queued") /\ UNCHANGED recorded

\* A task is claimed once everything it builds on is accepted.
Claim(t) ==
  /\ Move(t, {"queued"}, "in_progress")
  /\ \A d \in Deps[t] : status[d] = "done"
  /\ UNCHANGED recorded

\* The review loop moves a claimed task about, or accepts it with its merge.
Review(t) == (\E s \in Active : Move(t, Active, s)) /\ UNCHANGED recorded
Accept(t) == Move(t, Active, "done") /\ recorded' = [recorded EXCEPT ![t] = TRUE]

\* Only the owner takes a task back: an accepted one by rollback, any other by
\* requeue, which is also the one way out of cancellation.
Rollback(t) == Move(t, {"done"}, "blocked") /\ recorded[t] /\ UNCHANGED recorded
Requeue(t) == Move(t, Active \cup {"queued", "cancelled"}, "queued") /\ UNCHANGED recorded
Cancel(t) == Move(t, {"queued", "blocked"}, "cancelled") /\ UNCHANGED recorded

\* resume --retry takes up every blocked task at once.
Retry ==
  /\ status' = [t \in Tasks |-> IF status[t] = "blocked" THEN "in_progress" ELSE status[t]]
  /\ UNCHANGED recorded

Next ==
  \/ \E t \in Tasks :
       \/ Add(t) \/ Claim(t) \/ Review(t) \/ Accept(t)
       \/ Rollback(t) \/ Requeue(t) \/ Cancel(t)
  \/ Retry

Spec == Init /\ [][Next]_board
=============================================================================
