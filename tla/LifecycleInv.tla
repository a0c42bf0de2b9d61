---------------------------- MODULE LifecycleInv ----------------------------
(***************************************************************************)
(* The inductive invariant of the lifecycle: what the lock holder knows of *)
(* its task at every point of a turn, and what a holder that died leaves   *)
(* behind.  It implies the invariants of Lifecycle that hold in every      *)
(* environment; module LifecycleProofs proves it for any tasks and bounds. *)
(***************************************************************************)
EXTENDS Lifecycle

\* The task was claimed at some time: its worker's row exists.
Claimed(t) == agent[WorkerOf(t)] # "absent"

\* The turn of the holder up to its handler.
TurnPhases == {"picked", "registered", "session", "ended", "counted"}

\* Unfinished runs and live adapters: one at most; the holder's own while its
\* session lasts, none while it does anything else.
RunInv ==
  /\ SessionsExclusive
  /\ phase \in {"registered", "session"} => run[cur] # "none"
  /\ phase \notin {"free", "registered", "session"} => NoUnfinishedRun
  /\ \A a \in Agents : run[a] # "none" =>
       status[TaskOf(a)] \in ActiveStatuses /\ Claimed(TaskOf(a))

\* The commits left to make in the turn of task t.
WritesOf(t) ==
  \/ status[t] \in ActiveStatuses /\ todo \in Seq(HandlerWrites(AgentsOf(t)))
  \/ status[t] \in ActiveStatuses /\ todo = <<Accept, SetAgent(WorkerOf(t), "done")>>
  \/ todo = <<SetAgent(WorkerOf(t), "done")>>

\* What holds of the holder's task until it leaves the lock.
HolderInv ==
  /\ phase \in TurnPhases =>
       status[TaskOf(cur)] \in ActiveStatuses /\ Claimed(TaskOf(cur))
  /\ phase = "writing" => Claimed(TaskOf(cur)) /\ WritesOf(TaskOf(cur))
  /\ phase = "reverting" => status[TaskOf(cur)] = "done"
  /\ phase = "discarding" => status[TaskOf(cur)] \notin {"absent", "done"}

\* Agents and questions belong to tasks that were claimed, and tasks are
\* claimed and accepted in the order of their dependencies.
TaskInv ==
  /\ \A a \in Agents : agent[a] # "absent" \/ questions[a] > 0 => Claimed(TaskOf(a))
  /\ \A t \in Tasks : status[t] = "done" => recorded[t]
  /\ IdleTaskIsQuiet
  /\ DependenciesBeforeWork

\* The invariant that every step keeps, and from which SessionsExclusive,
\* IdleTaskIsQuiet, DependenciesBeforeWork and the refinement of the board
\* follow: the reread, the run rows and the lock together protect a task from
\* the first write of its turn to the last, and a crash from any of them.
Inv == TypeOK /\ RunInv /\ HolderInv /\ TaskInv
-----------------------------------------------------------------------------
(* What the turns of a task are paid with.  A critic is created by a turn  *)
(* of the worker, and the critics of a task that have taken a turn, or are *)
(* about to, are never more than the worker's turns; a handler that has a  *)
(* new critic to wake still has a turn to pay it with.                     *)

Sponsored(t) ==
  {a \in AgentsOf(t) : IsCritic(a) /\ (turns[a] > 0 \/ agent[a] = "runnable")}

\* The worker has a turn left that paid for no critic.
Affords(t) == Cardinality(Sponsored(t)) < turns[WorkerOf(t)]

WakesCritic(w) == w.op = "agent" /\ w.state = "runnable" /\ IsCritic(w.who)

\* The commits w wake the critic of the turn, or a new one first if the worker, whose
\* turn it is then, can pay for it.
Paid(w) ==
  \A i \in 1..Len(w) : WakesCritic(w[i]) =>
    \/ w[i].who = cur
    \/ i = 1 /\ ~IsCritic(cur) /\ Affords(TaskOf(cur))

CostInv ==
  /\ \A a \in Agents : turns[a] <= Budget /\ (questions[a] > 0 => turns[a] > 0)
  /\ phase \in {"picked", "registered", "session", "ended"} => agent[cur] = "runnable"
  /\ phase \in {"registered", "session", "ended"} => turns[cur] < Budget
  /\ phase \in {"counted", "writing"} => turns[cur] > 0
  /\ phase = "counted" /\ ~IsCritic(cur) => Affords(TaskOf(cur))
  /\ phase = "writing" => Paid(todo)
  /\ \A t \in Tasks : Cardinality(Sponsored(t)) <= turns[WorkerOf(t)]
=============================================================================
