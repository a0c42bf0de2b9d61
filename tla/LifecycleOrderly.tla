-------------------------- MODULE LifecycleOrderly --------------------------
(***************************************************************************)
(* The inductive invariant of the lifecycle under an orderly owner: no     *)
(* process dies inside a handler and resume --retry is not used.  A task   *)
(* that no handler is working on is settled; the commits that a handler    *)
(* has still to make settle the task it works on.                          *)
(* The last section is the weaker invariant that is left when resume       *)
(* --retry is used as well: what is claimed can go on.                     *)
(***************************************************************************)
EXTENDS LifecycleInv

Orderly == ~CrashPossible /\ "retry" \notin OwnerOps

\* No agent of task t outside A waits for the scheduler.
Calm(t, A) == \A a \in AgentsOf(t) : agent[a] = "runnable" => a \in A

NoQuestions(t) == \A a \in AgentsOf(t) : questions[a] = 0

\* If a is a critic it has a checked branch to review, and the worker is suspended.
Checked(a) ==
  IsCritic(a) => ahead[TaskOf(a)] /\ verified[TaskOf(a)] /\ agent[WorkerOf(TaskOf(a))] = "blocked"

\* Task t is in the hands of a alone, or will be when a is woken.
InHands(t, s, n, a) ==
  /\ s \in {"in_progress", "in_review"} /\ n < MaxAttempts
  /\ s = "in_review" => IsCritic(a)
  /\ Checked(a)

\* The one question of a blocked task, whose answer would put a in charge.
Asked(t, a) ==
  /\ status[t] = "blocked" /\ attempts[t] < MaxAttempts
  /\ questions[a] = 1 /\ \A b \in AgentsOf(t) : b # a => questions[b] = 0
  /\ Checked(a)

\* What holds of a task between two turns.
Settled(t) ==
  /\ \A a \in AgentsOf(t) : agent[a] = "runnable" =>
       Calm(t, {a}) /\ InHands(t, status[t], attempts[t], a)
  /\ status[t] \in {"in_progress", "in_review"} => \E a \in AgentsOf(t) : agent[a] = "runnable"
  /\ \A a \in AgentsOf(t) : questions[a] > 0 /\ status[t] # "cancelled" => Asked(t, a)
  /\ attempts[t] >= MaxAttempts => status[t] \in {"blocked", "cancelled"}
  /\ status[t] = "done" => base[t] \in {"merged", "partial"} /\ ~ahead[t]
----------------------------------------------------------------------------
(* What the commits in todo will come to, for the task t of the turn.      *)

\* Commit w wakes nobody and asks nothing.
Quiet(w) ==
  \/ w.op = "task"
  \/ w.op = "agent" /\ w.who = cur /\ w.state # "runnable"

\* The task gets blocked, whatever is written before.
ToBlock(t) ==
  LET k == Len(todo) IN
  /\ Calm(t, {cur}) /\ NoQuestions(t)
  /\ k > 0 /\ todo[k] = SetAgent(cur, "blocked")
  /\ IF k = 1 THEN status[t] = "blocked"
     ELSE todo[k - 1].op = "task" /\ todo[k - 1].status = "blocked"
  /\ \A i \in 1..k : Quiet(todo[i])

\* It gets blocked with a question of cur, if the question is for the owner.
ToAsk(t) ==
  LET done == SetTask("blocked", attempts[t]) IN
  /\ Calm(t, {cur}) /\ attempts[t] < MaxAttempts /\ Checked(cur)
  /\ questions[cur] <= 1 /\ \A b \in AgentsOf(t) : b # cur => questions[b] = 0
  /\ \/ todo = <<SendQuestion, SetAgent(cur, "blocked"), done>> /\ questions[cur] = 0
     \/ todo = <<SetAgent(cur, "blocked"), done>>
     \/ todo = <<done>> /\ Calm(t, {})

\* Agent a is woken to go on with it.
ToRun(t, a) ==
  LET wake == SetAgent(a, "runnable") IN
  /\ NoQuestions(t)
  /\ \/ Len(todo) = 1 /\ todo[1] = wake /\ Calm(t, {a}) /\ InHands(t, status[t], attempts[t], a)
     \/ /\ Len(todo) = 2 /\ todo[1].op = "task" /\ todo[2] = wake
        /\ Calm(t, {a}) /\ InHands(t, todo[1].status, todo[1].attempts, a)
     \/ /\ Len(todo) = 3 /\ todo[1] = SetAgent(cur, "done") /\ todo[2].op = "task" /\ todo[3] = wake
        /\ todo[2].status = "in_progress" /\ todo[2].attempts < MaxAttempts
        /\ IsCritic(cur) /\ a = WorkerOf(t) /\ Calm(t, {cur})

\* Critic c reviews what the worker cur has done.
ToReview(t, c) ==
  LET done == SetTask("in_review", attempts[t]) IN
  /\ cur = WorkerOf(t) /\ IsCritic(c)
  /\ NoQuestions(t) /\ attempts[t] < MaxAttempts /\ ahead[t] /\ verified[t]
  /\ \/ todo = <<SetAgent(c, "runnable"), SetAgent(cur, "blocked"), done>> /\ Calm(t, {cur})
     \/ /\ todo = <<SetAgent(cur, "blocked"), done>>
        /\ agent[c] = "runnable" /\ Calm(t, {c, cur})
     \/ /\ todo = <<done>>
        /\ agent[c] = "runnable" /\ agent[cur] = "blocked" /\ Calm(t, {c})

\* What the critic cur has passed is merged ...
ToMerge(t) ==
  /\ IsCritic(cur) /\ Checked(cur) /\ NoQuestions(t) /\ attempts[t] < MaxAttempts
  /\ \/ todo = <<SetAgent(cur, "done"), Integrate>> /\ Calm(t, {cur})
     \/ todo = <<Integrate>> /\ Calm(t, {})

\* ... and accepted.
ToAccept(t) ==
  /\ Calm(t, {}) /\ NoQuestions(t) /\ attempts[t] < MaxAttempts
  /\ base[t] \in {"merged", "partial"} /\ ~ahead[t]
  /\ \/ todo = <<Accept, SetAgent(WorkerOf(t), "done")>>
     \/ todo = <<SetAgent(WorkerOf(t), "done")>> /\ status[t] = "done"

Settling(t) ==
  \/ ToBlock(t) \/ ToAsk(t) \/ ToMerge(t) \/ ToAccept(t)
  \/ \E a \in AgentsOf(t) : ToRun(t, a) \/ ToReview(t, a)
----------------------------------------------------------------------------
\* Rollback waits for its commit: nothing of the task is alive.
Reverting(t) ==
  /\ Calm(t, {}) /\ NoQuestions(t) /\ status[t] = "done" /\ attempts[t] < MaxAttempts

OrderlyInv ==
  /\ LockFree => NoUnfinishedRun
  /\ phase \in TurnPhases => agent[cur] = "runnable"
  /\ \A t \in Tasks :
       IF t # TaskOf(cur) \/ phase \in TurnPhases
       THEN Settled(t)
       ELSE (phase = "writing" => Settling(t)) /\ (phase = "reverting" => Reverting(t))
-----------------------------------------------------------------------------
(* Without crashes, but whatever the owner does, resume --retry included:  *)
(* what keeps a claimed task going.                                        *)

\* Task t can go on: it has an agent to schedule, in review a critic with a checked
\* branch, its worker suspended.
Going(t) ==
  /\ status[t] = "in_progress" => \E a \in AgentsOf(t) : agent[a] = "runnable"
  /\ status[t] = "in_review" =>
       /\ ahead[t] /\ verified[t] /\ agent[WorkerOf(t)] = "blocked"
       /\ \E a \in AgentsOf(t) : IsCritic(a) /\ agent[a] = "runnable"

\* The commits in todo leave task t with status s; the k-th is the last that writes it.
Leaves(t, k, s) ==
  /\ IF k = 0 THEN status[t] = s ELSE todo[k].op = "task" /\ todo[k].status = s
  /\ \A i \in 1..Len(todo) : /\ todo[i].op \in {"task", "agent", "question"}
                             /\ i > k => todo[i].op # "task"

WillBlock(t) == \E k \in 0..Len(todo) : Leaves(t, k, "blocked")

WillRun(t) ==
  /\ \E k \in 0..Len(todo) : Leaves(t, k, "in_progress")
  /\ \E a \in AgentsOf(t) : todo[Len(todo)] = SetAgent(a, "runnable")

\* The turn is repeated: its agent stays runnable, its task what it is.
WillStay(t) ==
  /\ Going(t) /\ agent[cur] = "runnable"
  /\ \A i \in 1..Len(todo) :
       \/ todo[i] = SetAgent(cur, "runnable")
       \/ todo[i].op = "task" /\ todo[i].status = status[t]

WillReview(t, c) ==
  /\ cur = WorkerOf(t) /\ IsCritic(c) /\ ahead[t] /\ verified[t]
  /\ \E n \in Nat :
       LET done == SetTask("in_review", n) IN
       \/ todo = <<SetAgent(c, "runnable"), SetAgent(cur, "blocked"), done>>
       \/ todo = <<SetAgent(cur, "blocked"), done>> /\ agent[c] = "runnable"
       \/ todo = <<done>> /\ agent[c] = "runnable" /\ agent[cur] = "blocked"

WillAccept(t) ==
  LET done == SetAgent(WorkerOf(t), "done") IN
  \/ todo = <<SetAgent(cur, "done"), Integrate>>
  \/ todo = <<Integrate>>
  \/ todo = <<Accept, done>>
  \/ todo = <<done>> /\ status[t] = "done"

Heading(t) ==
  \/ WillBlock(t) \/ WillRun(t) \/ WillStay(t) \/ WillAccept(t)
  \/ \E c \in AgentsOf(t) : WillReview(t, c)

\* A task with a worker was added, and one past the queue has a worker.
Staffed ==
  \A t \in Tasks :
    /\ Claimed(t) => status[t] # "absent"
    /\ status[t] \in ActiveStatuses \cup {"done"} => Claimed(t)

GoingInv ==
  /\ LockFree => NoUnfinishedRun
  /\ phase \in TurnPhases => agent[cur] = "runnable"
  /\ \A t \in Tasks :
       IF t # TaskOf(cur) \/ phase \in TurnPhases
       THEN Going(t)
       ELSE phase = "writing" => Heading(t)
=============================================================================
