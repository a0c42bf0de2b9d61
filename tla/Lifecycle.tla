----------------------------- MODULE Lifecycle -----------------------------
(***************************************************************************)
(* The task lifecycle of Neocortex: the scheduler's task turns             *)
(* (nc/scheduler.py, nc/turn.py, nc/arbiter.py) interleaved with the       *)
(* owner's lifecycle commands (nc/operations.py, nc/state.py) and with     *)
(* the death of the process that holds the lifecycle lock.                 *)
(*                                                                         *)
(* Every state change of the code is a commit of its own: one SQLite       *)
(* transaction or one git command.  A handler's commits are the sequence   *)
(* todo, written by Write one at a time, so that a crash can fall between  *)
(* any two of them.  The lifecycle lock is held exactly when phase is not  *)
(* "free"; a command that finds it taken is refused (LifecycleBusy), which *)
(* is no step.                                                             *)
(***************************************************************************)
EXTENDS Integers, Sequences, FiniteSets

CONSTANTS
  Tasks,          \* task ids, as positive numbers in priority order
  Deps,           \* Deps[t]: the tasks that task t builds on
  MaxAttempts,    \* config max_attempts
  Budget,         \* budget_turns of every task
  MaxReviews,     \* bound: critic agents ever created for one task
  OwnerOps,       \* the lifecycle commands this owner uses
  CrashPossible   \* whether the lock holder's process may die

Commands == {"add", "cancel", "requeue", "fresh", "rollback", "answer",
             "retry", "recover"}

ASSUME ConstantsAssumption ==
  /\ Tasks \subseteq Nat \ {0}
  /\ Deps \in [Tasks -> SUBSET Tasks]
  /\ MaxAttempts \in Nat \ {0}
  /\ Budget \in Nat \ {0}
  /\ MaxReviews \in Nat
  /\ OwnerOps \subseteq Commands
  /\ CrashPossible \in BOOLEAN

\* worker-<t> is <<t, 0>>, critic-<t>-<n> is <<t, n>>.
Agents == Tasks \X (0..MaxReviews)
NoAgent == <<0, 0>>
WorkerOf(t) == <<t, 0>>
TaskOf(a) == a[1]
IsCritic(a) == a[2] > 0
AgentsOf(t) == {a \in Agents : TaskOf(a) = t}

Statuses == {"absent", "queued", "in_progress", "in_review", "blocked",
             "done", "cancelled"}
ActiveStatuses == {"in_progress", "in_review", "blocked"}
AgentStates == {"absent", "runnable", "blocked", "done"}
Outcomes == {"none", "DONE", "ASK", "YIELD", "FAIL"}
Phases == {"free", "picked", "registered", "session", "ended", "counted",
           "writing", "reverting", "discarding"}

VARIABLES
  status,     \* task.status, "absent" before the row exists
  attempts,   \* task.attempts
  recorded,   \* whether task.merge_commit is set
  agent,      \* agent.state
  turns,      \* agent.turns
  questions,  \* the agent's undelivered QUESTIONs to the owner
  run,        \* the agent's run row: "none" unfinished, "started" without
              \*   adapter evidence, "owned" with it
  live,       \* agents whose adapter process is alive
  ahead,      \* branch nc/<t> has commits the base branch lacks
  verified,   \* the head of nc/<t> passed the arbiter's checks
  base,       \* the merges of branch nc/<t>: "absent" none, "merged" all in effect,
              \*   "reverted" not the last one, "partial" the last one, not all
  phase,      \* how far the lock holder is
  cur,        \* the agent (for an owner command, the worker) it works on
  outcome,    \* the outcome its session reported
  todo        \* the commits its handler still has to make

rows == <<status, attempts, recorded, agent, turns, questions>>
repo == <<ahead, verified, base>>
procs == <<run, live>>
holder == <<phase, cur, outcome, todo>>
vars == <<rows, repo, procs, holder>>
----------------------------------------------------------------------------
(* The commits a handler makes.                                            *)

SetTask(s, n) == [op |-> "task", status |-> s, attempts |-> n]
SetAgent(a, s) == [op |-> "agent", who |-> a, state |-> s]
SendQuestion == [op |-> "question"]
Integrate == [op |-> "integrate"]
Accept == [op |-> "accept"]

\* The commits of a turn that concern the agents A, but for the acceptance.
HandlerWrites(A) ==
  [op : {"task"}, status : ActiveStatuses, attempts : Nat]
    \cup [op : {"agent"}, who : A, state : AgentStates \ {"absent"}]
    \cup {SendQuestion, Integrate}
Writes == HandlerWrites(Agents) \cup {Accept}

TypeOK ==
  /\ status \in [Tasks -> Statuses]
  /\ attempts \in [Tasks -> Nat]
  /\ recorded \in [Tasks -> BOOLEAN]
  /\ agent \in [Agents -> AgentStates]
  /\ turns \in [Agents -> Nat]
  /\ questions \in [Agents -> Nat]
  /\ run \in [Agents -> {"none", "started", "owned"}]
  /\ live \subseteq Agents
  /\ ahead \in [Tasks -> BOOLEAN]
  /\ verified \in [Tasks -> BOOLEAN]
  /\ base \in [Tasks -> {"absent", "merged", "reverted", "partial"}]
  /\ phase \in Phases
  /\ cur \in Agents \cup {NoAgent}
  /\ (phase = "free") <=> (cur = NoAgent)
  /\ outcome \in Outcomes
  /\ todo \in Seq(Writes)

Init ==
  /\ status = [t \in Tasks |-> "absent"]
  /\ attempts = [t \in Tasks |-> 0]
  /\ recorded = [t \in Tasks |-> FALSE]
  /\ agent = [a \in Agents |-> "absent"]
  /\ turns = [a \in Agents |-> 0]
  /\ questions = [a \in Agents |-> 0]
  /\ run = [a \in Agents |-> "none"]
  /\ live = {}
  /\ ahead = [t \in Tasks |-> FALSE]
  /\ verified = [t \in Tasks |-> FALSE]
  /\ base = [t \in Tasks |-> "absent"]
  /\ phase = "free" /\ cur = NoAgent /\ outcome = "none" /\ todo = <<>>
----------------------------------------------------------------------------
(* The lifecycle lock: lifecycle_lock and, inside it, repository_lock.     *)

LockFree == phase = "free"

\* The holder keeps the lock and moves to phase p, working on a.
Hold(p, a) == phase' = p /\ cur' = a /\ UNCHANGED <<outcome, todo>>

\* The holder leaves the lock, by returning or by dying.
Release == phase' = "free" /\ cur' = NoAgent /\ outcome' = "none" /\ todo' = <<>>

\* A handler starts, or goes on with, the commits w of the current turn.
Perform(w) == phase' = "writing" /\ todo' = w /\ UNCHANGED <<cur, outcome>>

NoUnfinishedRun == \A a \in Agents : run[a] = "none"
----------------------------------------------------------------------------
(* Selection: Scheduler.pick, next_ready_task and _spawn_for_queued_task.  *)

Runnable == {a \in Agents : agent[a] = "runnable" /\ status[TaskOf(a)] # "cancelled"}

\* Critics before workers, then by task priority.  What is left of the query's
\* order (agent.updated_at) is not kept, so two critics of one task may go
\* in either order.
Before(a, b) ==
  \/ IsCritic(a) /\ ~IsCritic(b)
  \/ (IsCritic(a) <=> IsCritic(b)) /\ TaskOf(a) < TaskOf(b)

Selectable(a) == a \in Runnable /\ \A b \in Runnable : ~Before(b, a)

\* Mutant of UnmetDependencies: a cancelled prerequisite counts as met.
UnmetDependenciesMutant(t) == {d \in Deps[t] : status[d] \notin {"done", "cancelled"}}

UnmetDependencies(t) == {d \in Deps[t] : status[d] # "done"}

NextReadyTask(t) ==
  /\ status[t] = "queued" /\ UnmetDependencies(t) = {}
  /\ \A u \in Tasks : status[u] = "queued" /\ UnmetDependencies(u) = {} => t <= u

\* The reread under the repository lock, before the worktree is prepared.  A
\* step that fails it returns "idle" and changes nothing.
Eligible(a) ==
  /\ agent[a] = "runnable"
  /\ status[TaskOf(a)] \in ActiveStatuses
  /\ NoUnfinishedRun

PickTurn(a) ==
  /\ LockFree
  /\ Selectable(a)
  /\ Eligible(a)
  /\ Hold("picked", a)
  /\ UNCHANGED <<rows, repo, procs>>

SpawnForQueuedTask(t) ==
  /\ LockFree
  /\ Runnable = {}
  /\ NextReadyTask(t)
  /\ status' = [status EXCEPT ![t] = "in_progress"]
  /\ agent' = [agent EXCEPT ![WorkerOf(t)] = "runnable"]
  /\ IF NoUnfinishedRun THEN Hold("picked", WorkerOf(t)) ELSE UNCHANGED holder
  /\ UNCHANGED <<attempts, recorded, turns, questions, repo, procs>>
----------------------------------------------------------------------------
(* The turn: Scheduler._task_turn up to the handlers, and turn.run_turn.   *)

\* Preflight defers or fails, or the worktree cannot be made: nothing has
\* been written and the step ends.
TurnNotStarted ==
  /\ phase = "picked"
  /\ Release
  /\ UNCHANGED <<rows, repo, procs>>

\* Scheduler._block.
Block(a, n) == <<SetTask("blocked", n), SetAgent(a, "blocked")>>

BudgetExhausted ==
  /\ phase = "picked"
  /\ turns[cur] >= Budget
  /\ Perform(Block(cur, attempts[TaskOf(cur)]))
  /\ UNCHANGED <<rows, repo, procs>>

StartRun ==
  /\ phase = "picked"
  /\ turns[cur] < Budget
  /\ run' = [run EXCEPT ![cur] = "started"]
  /\ Hold("registered", cur)
  /\ UNCHANGED <<live, rows, repo>>

RecordAdapterOwner ==
  /\ phase = "registered"
  /\ run' = [run EXCEPT ![cur] = "owned"]
  /\ live' = live \cup {cur}
  /\ Hold("session", cur)
  /\ UNCHANGED <<rows, repo>>

\* A live worker session, orphaned or not, commits to its branch.  Critics
\* are told not to (roles.CRITIC).
CommitWork(a) ==
  /\ a \in live
  /\ ~IsCritic(a)
  /\ ahead' = [ahead EXCEPT ![TaskOf(a)] = TRUE]
  /\ verified' = [verified EXCEPT ![TaskOf(a)] = FALSE]
  /\ UNCHANGED <<base, rows, procs, holder>>

\* end_run: the adapter is gone and its outcome is known.  An adapter that
\* could not start is reported like a failed session.
EndRun(o) ==
  /\ \/ phase = "session"
     \/ phase = "registered" /\ o = "FAIL"
  /\ run' = [run EXCEPT ![cur] = "none"]
  /\ live' = live \ {cur}
  /\ phase' = "ended" /\ outcome' = o
  /\ UNCHANGED <<cur, todo, rows, repo>>

\* A provider outage: the run ends, the turn is not counted, and the
\* scheduler's process returns.
Deferred ==
  /\ phase \in {"registered", "session"}
  /\ run' = [run EXCEPT ![cur] = "none"]
  /\ live' = live \ {cur}
  /\ Release
  /\ UNCHANGED <<rows, repo>>

\* Mutant of CountTurn: a yielded turn is not counted.
CountTurnMutant ==
  /\ phase = "ended"
  /\ turns' = [turns EXCEPT ![cur] = IF outcome = "YIELD" THEN @ ELSE @ + 1]
  /\ phase' = "counted"
  /\ UNCHANGED <<cur, outcome, todo, status, attempts, recorded, agent, questions,
                 repo, procs>>

CountTurn ==
  /\ phase = "ended"
  /\ turns' = [turns EXCEPT ![cur] = @ + 1]
  /\ phase' = "counted"
  /\ UNCHANGED <<cur, outcome, todo, status, attempts, recorded, agent, questions,
                 repo, procs>>
----------------------------------------------------------------------------
(* The outcome handlers: each decides the commits that are to follow.      *)

Handles(o) == phase = "counted" /\ outcome = o

\* A question to another agent's role name is stored but reaches nobody.
AskWrites(toOwner) ==
  (IF toOwner THEN <<SendQuestion>> ELSE <<>>)
    \o <<SetAgent(cur, "blocked"), SetTask("blocked", attempts[TaskOf(cur)])>>

OnAsk ==
  /\ Handles("ASK")
  /\ \E toOwner \in BOOLEAN : Perform(AskWrites(toOwner))
  /\ UNCHANGED <<rows, repo, procs>>

OnYield ==
  /\ Handles("YIELD")
  /\ Perform(<<SetAgent(cur, "runnable")>>)
  /\ UNCHANGED <<rows, repo, procs>>

\* Mutant of FailWrites: the retry goes to the worker, whoever failed.
FailWritesMutant(t) ==
  LET n == attempts[t] + 1 IN
  <<SetTask(status[t], n)>>
    \o IF n >= MaxAttempts THEN Block(cur, n) ELSE <<SetAgent(WorkerOf(t), "runnable")>>

FailWrites(t) ==
  LET n == attempts[t] + 1 IN
  <<SetTask(status[t], n)>>
    \o IF n >= MaxAttempts THEN Block(cur, n) ELSE <<SetAgent(cur, "runnable")>>

OnFail ==
  /\ Handles("FAIL")
  /\ Perform(FailWrites(TaskOf(cur)))
  /\ UNCHANGED <<rows, repo, procs>>

\* Mutants of Rework: the worker is not woken; the limit is off by one.
ReworkMutant(t, n) ==
  <<SetTask("in_progress", n)>> \o IF n >= MaxAttempts THEN Block(cur, n) ELSE <<>>
ReworkMutant2(t, n) ==
  <<SetTask("in_progress", n)>>
    \o IF n > MaxAttempts THEN Block(cur, n) ELSE <<SetAgent(WorkerOf(t), "runnable")>>

\* Scheduler._rework, n being the attempts it stores.
Rework(t, n) ==
  <<SetTask("in_progress", n)>>
    \o IF n >= MaxAttempts THEN Block(cur, n)
                           ELSE <<SetAgent(WorkerOf(t), "runnable")>>

NextCritic(t) ==
  <<t, Cardinality({a \in AgentsOf(t) : IsCritic(a) /\ agent[a] # "absent"}) + 1>>

\* Mutant of ReviewWrites: the worker is not suspended while it is reviewed.
ReviewWritesMutant(t) ==
  <<SetAgent(NextCritic(t), "runnable"), SetTask("in_review", attempts[t])>>

ReviewWrites(t) ==
  <<SetAgent(NextCritic(t), "runnable"), SetAgent(cur, "blocked"),
    SetTask("in_review", attempts[t])>>

\* The worker reports DONE: commits, then checks, then a critic.
WorkerDoneRework ==
  /\ Handles("DONE") /\ ~IsCritic(cur)
  /\ Perform(Rework(TaskOf(cur), attempts[TaskOf(cur)] + 1))
  /\ UNCHANGED <<rows, repo, procs>>

\* Mutant of WorkerDoneChecked: reworked commits go to review unchecked.
WorkerDoneCheckedMutant ==
  LET t == TaskOf(cur) IN
  /\ Handles("DONE") /\ ~IsCritic(cur)
  /\ ahead[t]
  /\ NextCritic(t) \in Agents
  /\ verified' = [verified EXCEPT ![t] = @ \/ attempts[t] = 0]
  /\ Perform(ReviewWrites(t))
  /\ UNCHANGED <<rows, ahead, base, procs>>

WorkerDoneChecked ==
  LET t == TaskOf(cur) IN
  /\ Handles("DONE") /\ ~IsCritic(cur)
  /\ ahead[t]
  /\ NextCritic(t) \in Agents
  /\ verified' = [verified EXCEPT ![t] = TRUE]
  /\ Perform(ReviewWrites(t))
  /\ UNCHANGED <<rows, ahead, base, procs>>

\* An arbiter call raises inside the handler.
HandlerError ==
  /\ Handles("DONE") /\ ~IsCritic(cur)
  /\ Perform(Block(cur, attempts[TaskOf(cur)]))
  /\ UNCHANGED <<rows, repo, procs>>

\* Mutant of VerdictWrites: the critic that passed the work is not retired.
VerdictWritesMutant(v) ==
  LET t == TaskOf(cur) IN
  CASE v = "invalid" -> FailWrites(t)
    [] v = "pass"    -> <<Integrate>>
    [] v = "reject"  -> <<SetAgent(cur, "done")>> \o Block(cur, attempts[t])
    [] v = "rework"  -> <<SetAgent(cur, "done")>> \o Rework(t, attempts[t] + 1)

\* Scheduler._apply_verdict.
VerdictWrites(v) ==
  LET t == TaskOf(cur) IN
  CASE v = "invalid" -> FailWrites(t)
    [] v = "pass"    -> <<SetAgent(cur, "done"), Integrate>>
    [] v = "reject"  -> <<SetAgent(cur, "done")>> \o Block(cur, attempts[t])
    [] v = "rework"  -> <<SetAgent(cur, "done")>> \o Rework(t, attempts[t] + 1)

ApplyVerdict(v) ==
  /\ Handles("DONE") /\ IsCritic(cur)
  /\ Perform(VerdictWrites(v))
  /\ UNCHANGED <<rows, repo, procs>>
----------------------------------------------------------------------------
(* The commits, one by one.                                                *)

\* The rest of the handler, or the end of the step.
Continue(w) == IF w = <<>> THEN Release ELSE Perform(w)

Next1(op) == phase = "writing" /\ todo # <<>> /\ Head(todo).op = op

WriteTask ==
  LET w == Head(todo) IN
  /\ Next1("task")
  /\ status' = [status EXCEPT ![TaskOf(cur)] = w.status]
  /\ attempts' = [attempts EXCEPT ![TaskOf(cur)] = w.attempts]
  /\ Continue(Tail(todo))
  /\ UNCHANGED <<recorded, agent, turns, questions, repo, procs>>

WriteAgent ==
  LET w == Head(todo) IN
  /\ Next1("agent")
  /\ agent' = [agent EXCEPT ![w.who] = w.state]
  /\ Continue(Tail(todo))
  /\ UNCHANGED <<status, attempts, recorded, turns, questions, repo, procs>>

WriteQuestion ==
  /\ Next1("question")
  /\ questions' = [questions EXCEPT ![cur] = @ + 1]
  /\ Continue(Tail(todo))
  /\ UNCHANGED <<status, attempts, recorded, agent, turns, repo, procs>>

\* git merge brings the commits that are not in the history of the base yet.  Those
\* of a reverted merge are, so they stay reverted; a branch without new commits is
\* "Already up to date".
Merged(t) ==
  CASE ~ahead[t] -> base[t]
    [] ahead[t] /\ base[t] \in {"absent", "merged"} -> "merged"
    [] ahead[t] /\ base[t] \in {"reverted", "partial"} -> "partial"

\* arbiter.integrate succeeds.
Merge ==
  LET t == TaskOf(cur) IN
  /\ Next1("integrate")
  /\ base' = [base EXCEPT ![t] = Merged(t)]
  /\ ahead' = [ahead EXCEPT ![t] = FALSE]
  /\ Perform(<<Accept, SetAgent(WorkerOf(t), "done")>>)
  /\ UNCHANGED <<verified, rows, procs>>

\* Mutant of MergeConflict: the failed merge is taken for a success.
MergeConflictMutant ==
  LET t == TaskOf(cur) IN
  /\ Next1("integrate") /\ ahead[t]
  /\ Perform(<<Accept, SetAgent(WorkerOf(t), "done")>>)
  /\ UNCHANGED <<rows, repo, procs>>

MergeConflict ==
  LET t == TaskOf(cur) IN
  /\ Next1("integrate") /\ ahead[t]
  /\ Perform(Rework(t, attempts[t]))
  /\ UNCHANGED <<rows, repo, procs>>

MergeError ==
  /\ Next1("integrate")
  /\ Perform(Block(cur, attempts[TaskOf(cur)]))
  /\ UNCHANGED <<rows, repo, procs>>

WriteAccept ==
  LET t == TaskOf(cur) IN
  /\ Next1("accept")
  /\ status' = [status EXCEPT ![t] = "done"]
  /\ recorded' = [recorded EXCEPT ![t] = TRUE]
  /\ Continue(Tail(todo))
  /\ UNCHANGED <<attempts, agent, turns, questions, repo, procs>>
----------------------------------------------------------------------------
(* The owner.  Every command but add takes the lifecycle lock.             *)

AddTask(t) ==
  /\ "add" \in OwnerOps
  /\ status[t] = "absent"
  /\ \A d \in Deps[t] : status[d] # "absent"
  /\ status' = [status EXCEPT ![t] = "queued"]
  /\ UNCHANGED <<attempts, recorded, agent, turns, questions, repo, procs, holder>>

SetAgentsOf(t, s) ==
  [a \in Agents |-> IF TaskOf(a) = t /\ agent[a] # "absent" THEN s ELSE agent[a]]

CancelTask(t) ==
  /\ "cancel" \in OwnerOps /\ LockFree
  /\ \A a \in AgentsOf(t) : run[a] = "none"
  /\ status[t] \in {"queued", "blocked"}
  /\ status' = [status EXCEPT ![t] = "cancelled"]
  /\ agent' = SetAgentsOf(t, "done")
  /\ UNCHANGED <<attempts, recorded, turns, questions, repo, procs, holder>>

\* Mutant of MayRequeue: a task is requeued under an interrupted run.
MayRequeueMutant(t) == status[t] \notin {"absent", "done"}

MayRequeue(t) == status[t] \notin {"absent", "done"} /\ NoUnfinishedRun

\* Mutant of RequeueRows: old questions stay answerable.
RequeueRowsMutant(t) ==
  /\ status' = [status EXCEPT ![t] = "queued"]
  /\ attempts' = [attempts EXCEPT ![t] = 0]
  /\ agent' = SetAgentsOf(t, "blocked")
  /\ turns' = [a \in Agents |-> IF TaskOf(a) = t THEN 0 ELSE turns[a]]
  /\ UNCHANGED <<questions, recorded>>

\* Mutant of RequeueRows: only the worker gets a new turn budget.
RequeueRowsMutant2(t) ==
  /\ status' = [status EXCEPT ![t] = "queued"]
  /\ attempts' = [attempts EXCEPT ![t] = 0]
  /\ agent' = SetAgentsOf(t, "blocked")
  /\ turns' = [turns EXCEPT ![WorkerOf(t)] = 0]
  /\ questions' = [a \in Agents |-> IF TaskOf(a) = t THEN 0 ELSE questions[a]]
  /\ UNCHANGED recorded

\* The one transaction of requeue_task.
RequeueRows(t) ==
  /\ status' = [status EXCEPT ![t] = "queued"]
  /\ attempts' = [attempts EXCEPT ![t] = 0]
  /\ agent' = SetAgentsOf(t, "blocked")
  /\ turns' = [a \in Agents |-> IF TaskOf(a) = t THEN 0 ELSE turns[a]]
  /\ questions' = [a \in Agents |-> IF TaskOf(a) = t THEN 0 ELSE questions[a]]
  /\ UNCHANGED recorded

RequeueTask(t) ==
  /\ "requeue" \in OwnerOps /\ LockFree
  /\ MayRequeue(t)
  /\ RequeueRows(t)
  /\ UNCHANGED <<repo, procs, holder>>

\* requeue --fresh deletes the worktree and the branch before it commits.  The
\* next one starts from the base and has none of the old commits.
DiscardBranch(t) ==
  /\ "fresh" \in OwnerOps /\ LockFree
  /\ MayRequeue(t)
  /\ ahead' = [ahead EXCEPT ![t] = FALSE]
  /\ verified' = [verified EXCEPT ![t] = FALSE]
  /\ base' = [base EXCEPT ![t] = "absent"]
  /\ Hold("discarding", WorkerOf(t))
  /\ UNCHANGED <<rows, procs>>

RequeueFresh ==
  /\ phase = "discarding"
  /\ RequeueRows(TaskOf(cur))
  /\ Release
  /\ UNCHANGED <<repo, procs>>

\* rollback reverts the last merge, and no other, before it commits the task row.
\* Reverting what is already reverted fails and changes nothing.  Left out: a task
\* accepted with nothing to merge records the head of the base, whatever that is.
RevertMerge(t) ==
  /\ "rollback" \in OwnerOps /\ LockFree
  /\ recorded[t] /\ status[t] = "done" /\ NoUnfinishedRun
  /\ base[t] \in {"merged", "partial"}
  /\ base' = [base EXCEPT ![t] = "reverted"]
  /\ Hold("reverting", WorkerOf(t))
  /\ UNCHANGED <<ahead, verified, rows, procs>>

RollbackTask ==
  /\ phase = "reverting"
  /\ status' = [status EXCEPT ![TaskOf(cur)] = "blocked"]
  /\ Release
  /\ UNCHANGED <<attempts, recorded, agent, turns, questions, repo, procs>>

\* Mutant of AnswerMessage: an old question of a cancelled task is answered.
AnswerMessageMutant(a) ==
  /\ "answer" \in OwnerOps /\ LockFree
  /\ questions[a] > 0
  /\ status[TaskOf(a)] # "done"
  /\ questions' = [questions EXCEPT ![a] = @ - 1]
  /\ agent' = [agent EXCEPT ![a] = "runnable"]
  /\ status' = [status EXCEPT ![TaskOf(a)] = "in_progress"]
  /\ UNCHANGED <<attempts, recorded, turns, repo, procs, holder>>

AnswerMessage(a) ==
  /\ "answer" \in OwnerOps /\ LockFree
  /\ questions[a] > 0
  /\ status[TaskOf(a)] \notin {"done", "cancelled"}
  /\ questions' = [questions EXCEPT ![a] = @ - 1]
  /\ agent' = [agent EXCEPT ![a] = "runnable"]
  /\ status' = [status EXCEPT ![TaskOf(a)] = "in_progress"]
  /\ UNCHANGED <<attempts, recorded, turns, repo, procs, holder>>

BlockedTasks == {t \in Tasks : status[t] = "blocked"}

RetryBlockedTasks ==
  /\ "retry" \in OwnerOps /\ LockFree
  /\ BlockedTasks # {}
  /\ status' = [t \in Tasks |-> IF t \in BlockedTasks THEN "in_progress" ELSE status[t]]
  /\ attempts' = [t \in Tasks |-> IF t \in BlockedTasks THEN 0 ELSE attempts[t]]
  /\ agent' = [a \in Agents |->
                 IF TaskOf(a) \in BlockedTasks /\ ~IsCritic(a) /\ agent[a] # "absent"
                 THEN "runnable" ELSE agent[a]]
  /\ UNCHANGED <<recorded, turns, questions, repo, procs, holder>>

\* Mutant of RecoverRun: the adapter's processes are not looked for.
RecoverRunMutant(a) ==
  /\ "recover" \in OwnerOps /\ LockFree
  /\ run[a] = "owned"
  /\ run' = [run EXCEPT ![a] = "none"]
  /\ agent' = [agent EXCEPT ![a] = "blocked"]
  /\ UNCHANGED <<live, status, attempts, recorded, turns, questions, repo, holder>>

\* A run without adapter evidence is ambiguous and is refused for ever.
RecoverRun(a) ==
  /\ "recover" \in OwnerOps /\ LockFree
  /\ run[a] = "owned" /\ a \notin live
  /\ run' = [run EXCEPT ![a] = "none"]
  /\ agent' = [agent EXCEPT ![a] = "blocked"]
  /\ UNCHANGED <<live, status, attempts, recorded, turns, questions, repo, holder>>
----------------------------------------------------------------------------
(* The environment.                                                        *)

\* The process that holds the lock dies; its adapter may survive it.
Crash ==
  /\ CrashPossible /\ ~LockFree
  /\ \/ phase \in {"registered", "session"} /\ live' = live \cup {cur}
     \/ live' = live \ {cur}
  /\ Release
  /\ UNCHANGED <<run, rows, repo>>

OrphanExits(a) ==
  /\ a \in live
  /\ a # cur
  /\ live' = live \ {a}
  /\ UNCHANGED <<run, rows, repo, holder>>

Verdicts == {"pass", "rework", "reject", "invalid"}

Turn ==
  \/ TurnNotStarted \/ BudgetExhausted \/ StartRun \/ RecordAdapterOwner
  \/ \E o \in Outcomes \ {"none"} : EndRun(o)
  \/ Deferred \/ CountTurn

Handler ==
  \/ OnAsk \/ OnYield \/ OnFail
  \/ WorkerDoneRework \/ WorkerDoneChecked \/ HandlerError
  \/ \E v \in Verdicts : ApplyVerdict(v)

Write ==
  \/ WriteTask \/ WriteAgent \/ WriteQuestion
  \/ Merge \/ MergeConflict \/ MergeError \/ WriteAccept

Selection ==
  \/ \E a \in Agents : PickTurn(a)
  \/ \E t \in Tasks : SpawnForQueuedTask(t)

Owner ==
  \/ \E t \in Tasks :
       \/ AddTask(t) \/ CancelTask(t) \/ RequeueTask(t)
       \/ DiscardBranch(t) \/ RevertMerge(t)
  \/ RequeueFresh \/ RollbackTask
  \/ \E a \in Agents : AnswerMessage(a) \/ RecoverRun(a)
  \/ RetryBlockedTasks

Session == \E a \in Agents : CommitWork(a) \/ OrphanExits(a)

Next == Selection \/ Turn \/ Handler \/ Write \/ Owner \/ Session \/ Crash

Spec == Init /\ [][Next]_vars

(* The timer starts the scheduler for ever (deploy/neocortex.timer), and a *)
(* process that holds the lock goes on.  A provider that keeps refusing    *)
(* preflight, or keeps ending sessions with a deferral, does so finitely   *)
(* often in a row: hence the two strong conjuncts.                         *)
Fairness ==
  /\ WF_vars(Selection)
  /\ WF_vars(RecordAdapterOwner \/ CountTurn \/ Handler \/ Write
              \/ RequeueFresh \/ RollbackTask)
  /\ SF_vars(StartRun \/ BudgetExhausted)
  /\ SF_vars(\E o \in Outcomes : EndRun(o))

FairSpec == Spec /\ Fairness
----------------------------------------------------------------------------
(* What holds in every environment.                                        *)

\* One task session at a time, crashes included: at most one unfinished run,
\* at most one live adapter, and never an adapter without an unfinished run
\* (the reread in _step_locked, recover_runs).
SessionsExclusive ==
  /\ \A a, b \in Agents : run[a] # "none" /\ run[b] # "none" => a = b
  /\ \A a \in live : run[a] # "none"

\* A task that waits in the queue or was cancelled has nothing that could run
\* for it; a queued one has no open question left to wake an agent with
\* (requeue_task, cancel_task, answer_message).
IdleTaskIsQuiet ==
  \A t \in Tasks :
    status[t] \in {"absent", "queued", "cancelled"} =>
      \A a \in AgentsOf(t) :
        /\ agent[a] # "runnable"
        /\ run[a] = "none"
        /\ status[t] # "cancelled" => questions[a] = 0

\* The lifecycle implements the board: a task is claimed only with its
\* prerequisites accepted; cancelled work comes back by requeue only, not by an
\* answer, by resume --retry or by a turn under way; accepted work is undone by
\* rollback only; and nothing is accepted without its merge recorded (README,
\* cancellation and rollback).
Board == INSTANCE TaskBoard
ImplementsBoard == Board!Spec

\* No worker exists for a task before every task it builds on was accepted
\* with a recorded merge, whatever is requeued or rolled back meanwhile.
DependenciesBeforeWork ==
  \A t \in Tasks :
    agent[WorkerOf(t)] # "absent" => \A d \in Deps[t] : recorded[d]

\* What a task costs before somebody requeues it is bounded, whatever crashes and
\* however often the owner answers and retries: nobody takes more than the budget,
\* and every critic that took a turn was paid for with a turn of the worker, so that
\* Budget * (Budget + 1) turns are counted at most (budget_turns).
CostIsBounded ==
  \A t \in Tasks :
    /\ \A a \in AgentsOf(t) : turns[a] <= Budget
    /\ Cardinality({a \in AgentsOf(t) : IsCritic(a) /\ turns[a] > 0}) <= turns[WorkerOf(t)]

\* While an adapter session is alive, an orphan's included, nobody else
\* deletes, checks, merges or reverts the branch of its task, and the task is
\* neither requeued, cancelled nor accepted.
SessionOwnsBranch ==
  [][\A a \in live : a \in live' =>
       LET t == TaskOf(a) IN
       /\ base'[t] = base[t]
       /\ ahead[t] => ahead'[t]
       /\ verified'[t] => verified[t]
       /\ status'[t] \in ActiveStatuses]_vars
----------------------------------------------------------------------------
(* What holds as long as no process dies inside a handler and the owner    *)
(* does not use resume --retry.                                            *)

\* A worker and its critic, or two critics, never both wait for the
\* scheduler: the review loop has one actor per task.
OneActor ==
  LockFree => \A a, b \in Agents :
    /\ agent[a] = "runnable" /\ agent[b] = "runnable" /\ TaskOf(a) = TaskOf(b)
    => a = b

\* A critic reviews, and the arbiter merges, only a branch head on which the
\* arbiter's checks passed (README: a check "must exit 0 before the critic is
\* ever invoked").
ReviewedIsChecked ==
  /\ \A a \in live : IsCritic(a) /\ ahead[TaskOf(a)] => verified[TaskOf(a)]
  /\ Next1("integrate") => verified[TaskOf(cur)]

\* An accepted task has its merge recorded and in effect, and nothing on its branch
\* is left unmerged.  That is all that was committed since its last rollback: what
\* the rollback reverted stays reverted ("partial"), although the branch has it.
AcceptedIsMerged ==
  \A t \in Tasks : status[t] = "done" /\ phase # "reverting" =>
    recorded[t] /\ base[t] \in {"merged", "partial"} /\ ~ahead[t]

\* A task in review has a checked branch, a suspended worker and a critic to
\* be scheduled.
InReviewIsReviewable ==
  \A t \in Tasks : LockFree /\ status[t] = "in_review" =>
    /\ ahead[t] /\ verified[t] /\ agent[WorkerOf(t)] = "blocked"
    /\ \E a \in AgentsOf(t) : IsCritic(a) /\ agent[a] = "runnable"

\* Every claimed task can go on: an agent to schedule, a run to recover, or a
\* question to answer.
NoStrandedTask ==
  \A t \in Tasks : LockFree /\ status[t] \in {"in_progress", "in_review"} =>
    \E a \in AgentsOf(t) :
      agent[a] = "runnable" \/ run[a] # "none" \/ questions[a] > 0

\* The agent a step selects can take its turn unless a run is unfinished:
\* otherwise the step returns "idle" for ever although other work is ready
\* (README: nc run takes "turns until nothing is runnable").
IdleMeansNothingToDo ==
  LockFree /\ NoUnfinishedRun => \A a \in Runnable : status[TaskOf(a)] \in ActiveStatuses

\* A task that used up its attempts is not worked on.
AttemptsExhausted ==
  \A t \in Tasks : LockFree /\ attempts[t] >= MaxAttempts =>
    status[t] \in {"blocked", "cancelled"}

\* A claimed task is eventually accepted, blocked, or taken back by the owner,
\* whatever its agents answer and whatever else the owner does: attempts bound the
\* failures and reworks, and turn budgets what counts no attempt, as yields and
\* merge conflicts (README, max_attempts and budget_turns).
ClaimSettles ==
  \A t \in Tasks : status[t] \in {"in_progress", "in_review"}
                     ~> status[t] \in {"done", "blocked", "queued", "cancelled"}
=============================================================================
