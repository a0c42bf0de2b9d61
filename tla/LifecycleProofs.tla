-------------------------- MODULE LifecycleProofs --------------------------
(***************************************************************************)
(* Proofs that Inv is an invariant of the lifecycle, for any tasks,        *)
(* dependencies, bounds, owner and crashes, and what follows from it.      *)
(***************************************************************************)
EXTENDS LifecycleInv, SequenceTheorems, FiniteSetTheorems, TLAPS

USE ConstantsAssumption

(***************************************************************************)
(* Agents and the commits a handler decides on.                            *)
(***************************************************************************)

\* Agents belong to tasks, and every task has its worker among its agents.
LEMMA AgentFacts ==
  /\ \A a \in Agents : TaskOf(a) \in Tasks /\ a \in AgentsOf(TaskOf(a))
  /\ \A t \in Tasks : /\ AgentsOf(t) \subseteq Agents
                      /\ WorkerOf(t) \in AgentsOf(t)
                      /\ TaskOf(WorkerOf(t)) = t
  /\ \A t \in Tasks : \A a \in AgentsOf(t) : TaskOf(a) = t
  /\ NoAgent \notin Agents
BY DEF Agents, TaskOf, AgentsOf, WorkerOf, NoAgent

\* The commits of a turn are commits of the lifecycle.
LEMMA WritesFacts ==
  ASSUME NEW t \in Tasks
  PROVE  /\ HandlerWrites(AgentsOf(t)) \subseteq Writes
         /\ Seq(HandlerWrites(AgentsOf(t))) \subseteq Seq(Writes)
         /\ Accept \in Writes
         /\ SetAgent(WorkerOf(t), "done") \in HandlerWrites(AgentsOf(t))
<1>1. HandlerWrites(AgentsOf(t)) \subseteq Writes
  BY AgentFacts DEF HandlerWrites, Writes
<1>2. Seq(HandlerWrites(AgentsOf(t))) \subseteq Seq(Writes)
  BY <1>1
<1>3. SetAgent(WorkerOf(t), "done") \in HandlerWrites(AgentsOf(t))
  BY AgentFacts DEF HandlerWrites, SetAgent, AgentStates
<1> QED
  BY <1>1, <1>2, <1>3 DEF Writes

\* What Block, AskWrites, FailWrites, Rework, ReviewWrites and VerdictWrites
\* decide on are commits of a turn of the task they are about.
LEMMA BlockTyped ==
  ASSUME NEW t \in Tasks, NEW a \in AgentsOf(t), NEW n \in Nat
  PROVE  Block(a, n) \in Seq(HandlerWrites(AgentsOf(t)))
BY DEF Block, SetTask, SetAgent, HandlerWrites, ActiveStatuses, AgentStates

\* The commit of a yielded turn is a commit of a turn.
LEMMA YieldTyped ==
  ASSUME NEW t \in Tasks, NEW a \in AgentsOf(t)
  PROVE  <<SetAgent(a, "runnable")>> \in Seq(HandlerWrites(AgentsOf(t)))
BY DEF SetAgent, HandlerWrites, AgentStates

\* The commits of a question are commits of a turn.
LEMMA AskWritesTyped ==
  ASSUME NEW t \in Tasks, t = TaskOf(cur), cur \in AgentsOf(t), attempts[t] \in Nat,
         NEW toOwner \in BOOLEAN
  PROVE  AskWrites(toOwner) \in Seq(HandlerWrites(AgentsOf(t)))
<1> DEFINE H == HandlerWrites(AgentsOf(t))
<1>1. <<SendQuestion>> \in Seq(H) /\ <<>> \in Seq(H)
  BY DEF HandlerWrites
<1>2. <<SetAgent(cur, "blocked"), SetTask("blocked", attempts[t])>> \in Seq(H)
  BY DEF SetAgent, SetTask, HandlerWrites, ActiveStatuses, AgentStates
<1>3. AskWrites(toOwner) \in Seq(H)
  <2> HIDE DEF H
  <2> QED
    BY <1>1, <1>2, ConcatProperties DEF AskWrites
<1> QED
  BY <1>3

\* The commits of a rework are commits of a turn.
LEMMA ReworkTyped ==
  ASSUME NEW t \in Tasks, cur \in AgentsOf(t), NEW n \in Nat
  PROVE  Rework(t, n) \in Seq(HandlerWrites(AgentsOf(t)))
<1> DEFINE H == HandlerWrites(AgentsOf(t))
<1>1. <<SetTask("in_progress", n)>> \in Seq(H)
  BY DEF SetTask, HandlerWrites, ActiveStatuses
<1>2. Block(cur, n) \in Seq(H)
  BY BlockTyped
<1>3. <<SetAgent(WorkerOf(t), "runnable")>> \in Seq(H)
  BY AgentFacts DEF SetAgent, HandlerWrites, AgentStates
<1>4. Rework(t, n) \in Seq(H)
  <2> HIDE DEF H
  <2> QED
    BY <1>1, <1>2, <1>3, ConcatProperties DEF Rework
<1> QED
  BY <1>4

\* The commits of a failed turn are commits of a turn.
LEMMA FailWritesTyped ==
  ASSUME NEW t \in Tasks, cur \in AgentsOf(t), status[t] \in ActiveStatuses,
         attempts[t] \in Nat
  PROVE  FailWrites(t) \in Seq(HandlerWrites(AgentsOf(t)))
<1> DEFINE H == HandlerWrites(AgentsOf(t))
           n == attempts[t] + 1
<1>0. n \in Nat
  OBVIOUS
<1>1. <<SetTask(status[t], n)>> \in Seq(H)
  BY <1>0 DEF SetTask, HandlerWrites
<1>2. Block(cur, n) \in Seq(H)
  BY <1>0, BlockTyped
<1>3. <<SetAgent(cur, "runnable")>> \in Seq(H)
  BY DEF SetAgent, HandlerWrites, AgentStates
<1>4. FailWrites(t) \in Seq(H)
  <2> HIDE DEF H
  <2> QED
    BY <1>1, <1>2, <1>3, ConcatProperties DEF FailWrites
<1> QED
  BY <1>4

\* The commits that open a review are commits of a turn.
LEMMA ReviewWritesTyped ==
  ASSUME NEW t \in Tasks, cur \in AgentsOf(t), NextCritic(t) \in Agents,
         attempts[t] \in Nat
  PROVE  ReviewWrites(t) \in Seq(HandlerWrites(AgentsOf(t)))
<1>1. NextCritic(t) \in AgentsOf(t)
  BY DEF NextCritic, AgentsOf, TaskOf
<1> QED
  BY <1>1 DEF ReviewWrites, SetAgent, SetTask, HandlerWrites, ActiveStatuses, AgentStates

\* The commits of a verdict are commits of a turn.
LEMMA VerdictWritesTyped ==
  ASSUME TaskOf(cur) \in Tasks, cur \in AgentsOf(TaskOf(cur)),
         status[TaskOf(cur)] \in ActiveStatuses, attempts[TaskOf(cur)] \in Nat,
         NEW v \in Verdicts
  PROVE  VerdictWrites(v) \in Seq(HandlerWrites(AgentsOf(TaskOf(cur))))
<1> DEFINE t == TaskOf(cur)
           H == HandlerWrites(AgentsOf(t))
<1>1. <<SetAgent(cur, "done")>> \in Seq(H) /\ <<SetAgent(cur, "done"), Integrate>> \in Seq(H)
  BY DEF SetAgent, HandlerWrites, AgentStates
<1>2. FailWrites(t) \in Seq(H)
  BY FailWritesTyped
<1>3. Block(cur, attempts[t]) \in Seq(H)
  BY BlockTyped
<1>4. Rework(t, attempts[t] + 1) \in Seq(H)
  <2>1. attempts[t] + 1 \in Nat
    OBVIOUS
  <2> QED
    BY <2>1, ReworkTyped
<1> SUFFICES VerdictWrites(v) \in Seq(H)
  OBVIOUS
<1> HIDE DEF H
<1>5. CASE v = "invalid"  BY <1>2, <1>5 DEF VerdictWrites
<1>6. CASE v = "pass"     BY <1>1, <1>6 DEF VerdictWrites
<1>7. CASE v = "reject"   BY <1>1, <1>3, <1>7, ConcatProperties DEF VerdictWrites
<1>8. CASE v = "rework"   BY <1>1, <1>4, <1>8, ConcatProperties DEF VerdictWrites
<1> QED
  BY <1>5, <1>6, <1>7, <1>8 DEF Verdicts
(***************************************************************************)
(* Every step keeps Inv.                                                   *)
(***************************************************************************)

USE DEF Phases, TurnPhases, LockFree

\* The holder of the lock works on an agent of a task.
LEMMA HolderFacts ==
  ASSUME TypeOK, phase # "free"
  PROVE  cur \in Agents /\ TaskOf(cur) \in Tasks /\ cur \in AgentsOf(TaskOf(cur))
BY AgentFacts DEF TypeOK

\* The invariant holds initially.
LEMMA InitInv == Init => Inv
<1> SUFFICES ASSUME Init PROVE Inv
  OBVIOUS
<1>1. TypeOK
  BY AgentFacts DEF Init, TypeOK, Statuses, AgentStates, Outcomes
<1>2. RunInv
  BY DEF Init, RunInv, SessionsExclusive
<1>3. HolderInv
  BY DEF Init, HolderInv
<1>4. TaskInv
  BY AgentFacts DEF Init, TaskInv, IdleTaskIsQuiet, DependenciesBeforeWork, Claimed
<1> QED
  BY <1>1, <1>2, <1>3, <1>4 DEF Inv

\* A handler that decides on commits of its turn keeps the invariant; the
\* arbiter's checks may have judged the branch on the way.
LEMMA DecidedInv ==
  ASSUME Inv, phase \in {"picked", "counted", "writing"},
         phase = "writing" => status[TaskOf(cur)] \in ActiveStatuses,
         NEW w \in Seq(HandlerWrites(AgentsOf(TaskOf(cur)))), Perform(w),
         UNCHANGED <<rows, ahead, base, procs>>, verified' \in [Tasks -> BOOLEAN]
  PROVE  Inv'
<1> USE DEF Inv, rows, procs, Perform
<1>1. TypeOK'
  BY HolderFacts, WritesFacts DEF TypeOK
<1>2. RunInv'
  BY HolderFacts, AgentFacts DEF TypeOK, RunInv, SessionsExclusive, NoUnfinishedRun, Claimed
<1>3. HolderInv'
  BY HolderFacts, AgentFacts DEF TypeOK, HolderInv, Claimed, WritesOf
<1>4. TaskInv'
  BY HolderFacts, AgentFacts
     DEF TypeOK, TaskInv, IdleTaskIsQuiet, DependenciesBeforeWork, Claimed
<1> QED
  BY <1>1, <1>2, <1>3, <1>4

\* A BudgetExhausted step keeps the invariant.
LEMMA BudgetExhaustedInv ==
  ASSUME Inv, BudgetExhausted
  PROVE  Inv'
<1>1. Block(cur, attempts[TaskOf(cur)]) \in Seq(HandlerWrites(AgentsOf(TaskOf(cur))))
  BY HolderFacts, BlockTyped DEF BudgetExhausted, Inv, TypeOK
<1> QED
  BY <1>1, DecidedInv DEF BudgetExhausted, repo, Inv, TypeOK

\* A PickTurn step keeps the invariant.
LEMMA PickTurnInv ==
  ASSUME Inv, NEW a \in Agents, PickTurn(a)
  PROVE  Inv'
<1> USE DEF Inv, PickTurn, rows, repo, procs, holder, Hold, Release, Perform
<1>1. TypeOK'
  BY HolderFacts, AgentFacts DEF TypeOK, Eligible
<1>2. RunInv'
  BY HolderFacts, AgentFacts
     DEF TypeOK, RunInv, SessionsExclusive, NoUnfinishedRun, Claimed, Eligible
<1>3. HolderInv'
  BY HolderFacts, AgentFacts
     DEF TypeOK, HolderInv, Claimed, WritesOf, Eligible, TaskInv
<1>4. TaskInv'
  BY HolderFacts, AgentFacts
     DEF TypeOK, TaskInv, IdleTaskIsQuiet, DependenciesBeforeWork, Claimed
<1> QED
  BY <1>1, <1>2, <1>3, <1>4

\* A TurnNotStarted step keeps the invariant.
LEMMA TurnNotStartedInv ==
  ASSUME Inv, TurnNotStarted
  PROVE  Inv'
<1> USE DEF Inv, TurnNotStarted, rows, repo, procs, holder, Hold, Release, Perform
<1>1. TypeOK'
  BY HolderFacts, AgentFacts DEF TypeOK, Outcomes
<1>2. RunInv'
  BY HolderFacts, AgentFacts
     DEF TypeOK, RunInv, SessionsExclusive, NoUnfinishedRun, Claimed
<1>3. HolderInv'
  BY HolderFacts, AgentFacts DEF TypeOK, HolderInv, Claimed, WritesOf
<1>4. TaskInv'
  BY HolderFacts, AgentFacts
     DEF TypeOK, TaskInv, IdleTaskIsQuiet, DependenciesBeforeWork, Claimed
<1> QED
  BY <1>1, <1>2, <1>3, <1>4

\* A StartRun step keeps the invariant.
LEMMA StartRunInv ==
  ASSUME Inv, StartRun
  PROVE  Inv'
<1> USE DEF Inv, StartRun, rows, repo, procs, holder, Hold, Release, Perform
<1>1. TypeOK'
  BY HolderFacts, AgentFacts DEF TypeOK
<1>2. RunInv'
  BY HolderFacts, AgentFacts
     DEF TypeOK, RunInv, SessionsExclusive, NoUnfinishedRun, Claimed, HolderInv
<1>3. HolderInv'
  BY HolderFacts, AgentFacts DEF TypeOK, HolderInv, Claimed, WritesOf
<1>4. TaskInv'
  BY HolderFacts, AgentFacts
     DEF TypeOK, TaskInv, IdleTaskIsQuiet, DependenciesBeforeWork, Claimed, HolderInv, ActiveStatuses
<1> QED
  BY <1>1, <1>2, <1>3, <1>4

\* A RecordAdapterOwner step keeps the invariant.
LEMMA RecordAdapterOwnerInv ==
  ASSUME Inv, RecordAdapterOwner
  PROVE  Inv'
<1> USE DEF Inv, RecordAdapterOwner, rows, repo, procs, holder, Hold, Release, Perform
<1>1. TypeOK'
  BY HolderFacts, AgentFacts DEF TypeOK
<1>2. RunInv'
  BY HolderFacts, AgentFacts
     DEF TypeOK, RunInv, SessionsExclusive, NoUnfinishedRun, Claimed, HolderInv
<1>3. HolderInv'
  BY HolderFacts, AgentFacts DEF TypeOK, HolderInv, Claimed, WritesOf
<1>4. TaskInv'
  BY HolderFacts, AgentFacts
     DEF TypeOK, TaskInv, IdleTaskIsQuiet, DependenciesBeforeWork, Claimed, HolderInv, ActiveStatuses
<1> QED
  BY <1>1, <1>2, <1>3, <1>4

\* A CommitWork step keeps the invariant.
LEMMA CommitWorkInv ==
  ASSUME Inv, NEW a \in Agents, CommitWork(a)
  PROVE  Inv'
<1> USE DEF Inv, CommitWork, rows, repo, procs, holder, Hold, Release, Perform
<1>1. TypeOK'
  BY HolderFacts, AgentFacts DEF TypeOK
<1>2. RunInv'
  BY HolderFacts, AgentFacts
     DEF TypeOK, RunInv, SessionsExclusive, NoUnfinishedRun, Claimed
<1>3. HolderInv'
  BY HolderFacts, AgentFacts DEF TypeOK, HolderInv, Claimed, WritesOf
<1>4. TaskInv'
  BY HolderFacts, AgentFacts
     DEF TypeOK, TaskInv, IdleTaskIsQuiet, DependenciesBeforeWork, Claimed
<1> QED
  BY <1>1, <1>2, <1>3, <1>4

\* An EndRun step keeps the invariant.
LEMMA EndRunInv ==
  ASSUME Inv, NEW o \in Outcomes, EndRun(o)
  PROVE  Inv'
<1> USE DEF Inv, EndRun, rows, repo, procs, holder, Hold, Release, Perform
<1>1. TypeOK'
  BY HolderFacts, AgentFacts DEF TypeOK
<1>2. RunInv'
  BY HolderFacts, AgentFacts
     DEF TypeOK, RunInv, SessionsExclusive, NoUnfinishedRun, Claimed
<1>3. HolderInv'
  BY HolderFacts, AgentFacts DEF TypeOK, HolderInv, Claimed, WritesOf
<1>4. TaskInv'
  BY HolderFacts, AgentFacts
     DEF TypeOK, TaskInv, IdleTaskIsQuiet, DependenciesBeforeWork, Claimed
<1> QED
  BY <1>1, <1>2, <1>3, <1>4

\* A Deferred step keeps the invariant.
LEMMA DeferredInv ==
  ASSUME Inv, Deferred
  PROVE  Inv'
<1> USE DEF Inv, Deferred, rows, repo, procs, holder, Hold, Release, Perform
<1>1. TypeOK'
  <2>1. run' \in [Agents -> {"none", "started", "owned"}] /\ live' \subseteq Agents
    BY HolderFacts DEF TypeOK
  <2>2. /\ phase' = "free" /\ cur' = NoAgent /\ outcome' = "none" /\ todo' = <<>>
        /\ UNCHANGED <<rows, repo>>
    OBVIOUS
  <2>3. outcome' \in Outcomes /\ todo' \in Seq(Writes) /\ phase' \in Phases
    BY <2>2 DEF Outcomes, Phases
  <2> QED
    BY <2>1, <2>2, <2>3 DEF TypeOK
<1>2. RunInv'
  BY HolderFacts, AgentFacts
     DEF TypeOK, RunInv, SessionsExclusive, NoUnfinishedRun, Claimed
<1>3. HolderInv'
  BY HolderFacts, AgentFacts DEF TypeOK, HolderInv, Claimed, WritesOf
<1>4. TaskInv'
  BY HolderFacts, AgentFacts
     DEF TypeOK, TaskInv, IdleTaskIsQuiet, DependenciesBeforeWork, Claimed
<1> QED
  BY <1>1, <1>2, <1>3, <1>4

\* A CountTurn step keeps the invariant.
LEMMA CountTurnInv ==
  ASSUME Inv, CountTurn
  PROVE  Inv'
<1> USE DEF Inv, CountTurn, rows, repo, procs, holder, Hold, Release, Perform
<1>1. TypeOK'
  BY HolderFacts, AgentFacts DEF TypeOK
<1>2. RunInv'
  BY HolderFacts, AgentFacts
     DEF TypeOK, RunInv, SessionsExclusive, NoUnfinishedRun, Claimed
<1>3. HolderInv'
  BY HolderFacts, AgentFacts DEF TypeOK, HolderInv, Claimed, WritesOf
<1>4. TaskInv'
  BY HolderFacts, AgentFacts
     DEF TypeOK, TaskInv, IdleTaskIsQuiet, DependenciesBeforeWork, Claimed
<1> QED
  BY <1>1, <1>2, <1>3, <1>4

\* An OnAsk step keeps the invariant.
LEMMA OnAskInv ==
  ASSUME Inv, OnAsk
  PROVE  Inv'
<1> DEFINE t == TaskOf(cur)
<1>1. phase = "counted" /\ t \in Tasks /\ cur \in AgentsOf(t) /\ attempts[t] \in Nat
  BY HolderFacts DEF OnAsk, Handles, Inv, TypeOK
<1>2. PICK toOwner \in BOOLEAN : Perform(AskWrites(toOwner))
  BY DEF OnAsk
<1>3. AskWrites(toOwner) \in Seq(HandlerWrites(AgentsOf(t)))
  BY <1>1, AskWritesTyped
<1>4. UNCHANGED <<rows, ahead, base, procs>> /\ verified' \in [Tasks -> BOOLEAN]
  BY <1>1 DEF OnAsk, repo, Inv, TypeOK
<1> QED
  BY <1>1, <1>2, <1>3, <1>4, DecidedInv

\* An OnYield step keeps the invariant.
LEMMA OnYieldInv ==
  ASSUME Inv, OnYield
  PROVE  Inv'
<1> DEFINE t == TaskOf(cur)
<1>1. phase = "counted" /\ t \in Tasks /\ cur \in AgentsOf(t) /\ attempts[t] \in Nat
  BY HolderFacts DEF OnYield, Handles, Inv, TypeOK
<1>2. Perform(<<SetAgent(cur, "runnable")>>)
  BY DEF OnYield
<1>3. <<SetAgent(cur, "runnable")>> \in Seq(HandlerWrites(AgentsOf(t)))
  BY <1>1, YieldTyped
<1>4. UNCHANGED <<rows, ahead, base, procs>> /\ verified' \in [Tasks -> BOOLEAN]
  BY <1>1 DEF OnYield, repo, Inv, TypeOK
<1> QED
  BY <1>1, <1>2, <1>3, <1>4, DecidedInv

\* An OnFail step keeps the invariant.
LEMMA OnFailInv ==
  ASSUME Inv, OnFail
  PROVE  Inv'
<1> DEFINE t == TaskOf(cur)
<1>1. phase = "counted" /\ t \in Tasks /\ cur \in AgentsOf(t) /\ attempts[t] \in Nat
  BY HolderFacts DEF OnFail, Handles, Inv, TypeOK
<1>2. Perform(FailWrites(t))
  BY DEF OnFail
<1>3. FailWrites(t) \in Seq(HandlerWrites(AgentsOf(t)))
  BY <1>1, FailWritesTyped DEF Inv, HolderInv
<1>4. UNCHANGED <<rows, ahead, base, procs>> /\ verified' \in [Tasks -> BOOLEAN]
  BY <1>1 DEF OnFail, repo, Inv, TypeOK
<1> QED
  BY <1>1, <1>2, <1>3, <1>4, DecidedInv

\* A WorkerDoneRework step keeps the invariant.
LEMMA WorkerDoneReworkInv ==
  ASSUME Inv, WorkerDoneRework
  PROVE  Inv'
<1> DEFINE t == TaskOf(cur)
<1>1. phase = "counted" /\ t \in Tasks /\ cur \in AgentsOf(t) /\ attempts[t] \in Nat
  BY HolderFacts DEF WorkerDoneRework, Handles, Inv, TypeOK
<1>2. Perform(Rework(t, attempts[t] + 1))
  BY DEF WorkerDoneRework
<1>3. Rework(t, attempts[t] + 1) \in Seq(HandlerWrites(AgentsOf(t)))
  <2>1. attempts[t] + 1 \in Nat
    BY <1>1
  <2> QED
    BY <1>1, <2>1, ReworkTyped
<1>4. UNCHANGED <<rows, ahead, base, procs>> /\ verified' \in [Tasks -> BOOLEAN]
  BY <1>1 DEF WorkerDoneRework, repo, Inv, TypeOK
<1> QED
  BY <1>1, <1>2, <1>3, <1>4, DecidedInv

\* A WorkerDoneChecked step keeps the invariant.
LEMMA WorkerDoneCheckedInv ==
  ASSUME Inv, WorkerDoneChecked
  PROVE  Inv'
<1> DEFINE t == TaskOf(cur)
<1>1. phase = "counted" /\ t \in Tasks /\ cur \in AgentsOf(t) /\ attempts[t] \in Nat
  BY HolderFacts DEF WorkerDoneChecked, Handles, Inv, TypeOK
<1>2. Perform(ReviewWrites(t))
  BY DEF WorkerDoneChecked
<1>3. ReviewWrites(t) \in Seq(HandlerWrites(AgentsOf(t)))
  BY <1>1, ReviewWritesTyped DEF WorkerDoneChecked
<1>4. UNCHANGED <<rows, ahead, base, procs>> /\ verified' \in [Tasks -> BOOLEAN]
  BY <1>1 DEF WorkerDoneChecked, repo, Inv, TypeOK
<1> QED
  BY <1>1, <1>2, <1>3, <1>4, DecidedInv

\* A HandlerError step keeps the invariant.
LEMMA HandlerErrorInv ==
  ASSUME Inv, HandlerError
  PROVE  Inv'
<1> DEFINE t == TaskOf(cur)
<1>1. phase = "counted" /\ t \in Tasks /\ cur \in AgentsOf(t) /\ attempts[t] \in Nat
  BY HolderFacts DEF HandlerError, Handles, Inv, TypeOK
<1>2. Perform(Block(cur, attempts[t]))
  BY DEF HandlerError
<1>3. Block(cur, attempts[t]) \in Seq(HandlerWrites(AgentsOf(t)))
  BY <1>1, BlockTyped
<1>4. UNCHANGED <<rows, ahead, base, procs>> /\ verified' \in [Tasks -> BOOLEAN]
  BY <1>1 DEF HandlerError, repo, Inv, TypeOK
<1> QED
  BY <1>1, <1>2, <1>3, <1>4, DecidedInv

\* An ApplyVerdict step keeps the invariant.
LEMMA ApplyVerdictInv ==
  ASSUME Inv, NEW v \in Verdicts, ApplyVerdict(v)
  PROVE  Inv'
<1> DEFINE t == TaskOf(cur)
<1>1. phase = "counted" /\ t \in Tasks /\ cur \in AgentsOf(t) /\ attempts[t] \in Nat
  BY HolderFacts DEF ApplyVerdict, Handles, Inv, TypeOK
<1>2. Perform(VerdictWrites(v))
  BY DEF ApplyVerdict
<1>3. VerdictWrites(v) \in Seq(HandlerWrites(AgentsOf(t)))
  BY <1>1, VerdictWritesTyped DEF Inv, HolderInv
<1>4. UNCHANGED <<rows, ahead, base, procs>> /\ verified' \in [Tasks -> BOOLEAN]
  BY <1>1 DEF ApplyVerdict, repo, Inv, TypeOK
<1> QED
  BY <1>1, <1>2, <1>3, <1>4, DecidedInv

(***************************************************************************)
(* The commits.                                                            *)
(***************************************************************************)

\* What a commit of a turn holds.
LEMMA WriteFacts ==
  /\ \A A \in SUBSET Agents : \A w \in HandlerWrites(A) :
       /\ w.op = "task" => w.status \in ActiveStatuses /\ w.attempts \in Nat
       /\ w.op = "agent" => w.who \in A /\ w.state \in AgentStates \ {"absent"}
       /\ w.op # "accept"
  /\ Accept.op = "accept"
  /\ \A a, s : LET w == SetAgent(a, s) IN w.op = "agent" /\ w.who = a /\ w.state = s
BY DEF HandlerWrites, SendQuestion, Integrate, Accept, SetAgent

\* The next commit of a holder that has commits left, and what it leaves.
LEMMA NextWrite ==
  ASSUME Inv, phase = "writing", todo # <<>>
  PROVE  LET t == TaskOf(cur)
             H == HandlerWrites(AgentsOf(t))
         IN \/ status[t] \in ActiveStatuses /\ Head(todo) \in H /\ Tail(todo) \in Seq(H)
            \/ /\ status[t] \in ActiveStatuses /\ Head(todo) = Accept
               /\ Tail(todo) = <<SetAgent(WorkerOf(t), "done")>>
            \/ Head(todo) = SetAgent(WorkerOf(t), "done") /\ Tail(todo) = <<>>
<1> DEFINE t == TaskOf(cur)
           H == HandlerWrites(AgentsOf(t))
<1>1. WritesOf(t)
  BY DEF Inv, HolderInv
<1>2. CASE status[t] \in ActiveStatuses /\ todo \in Seq(H)
  BY <1>2, HeadTailProperties
<1>3. CASE status[t] \in ActiveStatuses /\ todo = <<Accept, SetAgent(WorkerOf(t), "done")>>
  BY <1>3
<1>4. CASE todo = <<SetAgent(WorkerOf(t), "done")>>
  BY <1>4
<1> QED
  BY <1>1, <1>2, <1>3, <1>4 DEF WritesOf

\* What the holder has left to write is again commits of its turn; written
\* to the end, the lock is left.
LEMMA ContinueFacts ==
  ASSUME Inv, phase = "writing", todo # <<>>, Continue(Tail(todo))
  PROVE  /\ (phase' = "free") <=> (cur' = NoAgent)
         /\ IF Tail(todo) = <<>>
            THEN phase' = "free" /\ todo' = <<>> /\ outcome' = "none"
            ELSE phase' = "writing" /\ todo' = Tail(todo) /\ UNCHANGED <<cur, outcome>>
         /\ todo' \in Seq(Writes)
<1>1. todo \in Seq(Writes) /\ cur # NoAgent
  BY HolderFacts, AgentFacts DEF Inv, TypeOK
<1>2. Tail(todo) \in Seq(Writes)
  BY <1>1, HeadTailProperties
<1>3. CASE Tail(todo) = <<>>
  BY <1>2, <1>3 DEF Continue, Release
<1>4. CASE Tail(todo) # <<>>
  BY <1>1, <1>2, <1>4 DEF Continue, Perform
<1> QED
  BY <1>3, <1>4

\* A WriteTask step keeps the invariant.
LEMMA WriteTaskInv ==
  ASSUME Inv, WriteTask
  PROVE  Inv'
<1> DEFINE t == TaskOf(cur)
           H == HandlerWrites(AgentsOf(t))
<1> USE DEF Inv, WriteTask, Next1, repo, procs
<1>0. t \in Tasks /\ cur \in Agents /\ AgentsOf(t) \in SUBSET Agents
  BY HolderFacts, AgentFacts
<1>1. /\ status[t] \in ActiveStatuses /\ Head(todo) \in H /\ Tail(todo) \in Seq(H)
  BY <1>0, NextWrite, WriteFacts
<1>2. Head(todo).status \in ActiveStatuses /\ Head(todo).attempts \in Nat
  BY <1>0, <1>1, WriteFacts
<1>3. TypeOK'
  BY <1>0, <1>1, <1>2, ContinueFacts DEF TypeOK, ActiveStatuses, Statuses, Outcomes
<1>4. RunInv'
  BY <1>0, <1>1, <1>2, ContinueFacts, AgentFacts
     DEF TypeOK, RunInv, SessionsExclusive, NoUnfinishedRun, Claimed
<1>5. HolderInv'
  BY <1>0, <1>1, <1>2, ContinueFacts DEF TypeOK, HolderInv, Claimed, WritesOf
<1>6. TaskInv'
  BY <1>0, <1>1, <1>2, AgentFacts, SMTT(30)
     DEF TypeOK, TaskInv, IdleTaskIsQuiet, DependenciesBeforeWork, Claimed, ActiveStatuses
<1> QED
  BY <1>3, <1>4, <1>5, <1>6

\* A WriteAgent step keeps the invariant.
LEMMA WriteAgentInv ==
  ASSUME Inv, WriteAgent
  PROVE  Inv'
<1> DEFINE t == TaskOf(cur)
           H == HandlerWrites(AgentsOf(t))
           w == Head(todo)
<1> USE DEF Inv, WriteAgent, Next1, repo, procs
<1>1. t \in Tasks /\ cur \in Agents /\ AgentsOf(t) \in SUBSET Agents /\ Claimed(t)
  BY HolderFacts, AgentFacts DEF HolderInv
<1>2. \/ status[t] \in ActiveStatuses /\ w \in H /\ Tail(todo) \in Seq(H)
      \/ w = SetAgent(WorkerOf(t), "done") /\ Tail(todo) = <<>>
  BY <1>1, NextWrite, WriteFacts
<1>3. /\ w.who \in AgentsOf(t) /\ w.state \in AgentStates /\ w.state # "absent"
      /\ status[t] \in ActiveStatuses \/ w.state # "runnable"
  <2>1. CASE status[t] \in ActiveStatuses /\ w \in H
    BY <1>1, <2>1, WriteFacts DEF AgentStates
  <2>2. CASE w = SetAgent(WorkerOf(t), "done")
    <3>1. w.who = WorkerOf(t) /\ w.state = "done"
      BY ONLY <2>2 DEF SetAgent
    <3> QED
      BY ONLY <1>1, <3>1, AgentFacts DEF AgentStates
  <2> QED
    BY <1>2, <2>1, <2>2
<1>4. TypeOK'
  <2>1. agent' \in [Agents -> AgentStates]
    BY <1>1, <1>3 DEF TypeOK
  <2> QED
    BY <1>1, <2>1, ContinueFacts DEF TypeOK, Outcomes
<1>5. \A u \in Tasks : Claimed(u)' <=> Claimed(u)
  BY <1>1, <1>3, AgentFacts DEF TypeOK, Claimed
<1>6. RunInv'
  BY <1>1, <1>5, ContinueFacts, AgentFacts
     DEF TypeOK, RunInv, SessionsExclusive, NoUnfinishedRun
<1>7. HolderInv'
  BY <1>1, <1>2, <1>5, ContinueFacts DEF TypeOK, HolderInv, WritesOf
<1>8. TaskInv'
  <2>1. \A a \in Agents : a \notin AgentsOf(t) => agent'[a] = agent[a]
    BY <1>1, <1>3 DEF TypeOK
  <2>2. \A a \in Agents : agent'[a] = "runnable" => 
       agent[a] = "runnable" \/ (a = w.who /\ status[t] \in ActiveStatuses)
    BY <1>1, <1>3 DEF TypeOK
  <2>3. \A a \in Agents : agent'[a] # "absent" => Claimed(TaskOf(a))'
    BY <1>1, <1>3, <1>5, <2>1, AgentFacts DEF TaskInv
  <2>4. IdleTaskIsQuiet'
    <3> SUFFICES ASSUME NEW u \in Tasks, NEW a \in AgentsOf(u),
                        status[u] \in {"absent", "queued", "cancelled"}
                 PROVE  /\ agent'[a] # "runnable" /\ run[a] = "none"
                        /\ status[u] # "cancelled" => questions[a] = 0
      BY DEF IdleTaskIsQuiet
    <3>1. /\ agent[a] # "runnable" /\ run[a] = "none"
          /\ status[u] # "cancelled" => questions[a] = 0
      BY DEF TaskInv, IdleTaskIsQuiet
    <3>2. a \in Agents /\ TaskOf(a) = u /\ (a = w.who => u = t)
      BY <1>1, <1>3, AgentFacts
    <3> QED
      BY <2>2, <3>1, <3>2 DEF ActiveStatuses
  <2>5. DependenciesBeforeWork'
    BY <1>5 DEF TaskInv, DependenciesBeforeWork, Claimed
  <2> QED
    BY <1>5, <2>3, <2>4, <2>5, AgentFacts DEF TaskInv
<1> QED
  BY <1>4, <1>6, <1>7, <1>8

\* A WriteQuestion step keeps the invariant.
LEMMA WriteQuestionInv ==
  ASSUME Inv, WriteQuestion
  PROVE  Inv'
<1> DEFINE t == TaskOf(cur)
           H == HandlerWrites(AgentsOf(t))
<1> USE DEF Inv, WriteQuestion, Next1, repo, procs
<1>1. t \in Tasks /\ cur \in Agents /\ cur \in AgentsOf(t) /\ AgentsOf(t) \in SUBSET Agents
  BY HolderFacts, AgentFacts
<1>2. status[t] \in ActiveStatuses /\ Tail(todo) \in Seq(H)
  BY <1>1, NextWrite, WriteFacts
<1>3. TypeOK'
  <2>1. questions' \in [Agents -> Nat]
    BY <1>1 DEF TypeOK
  <2> QED
    BY <1>1, <2>1, ContinueFacts DEF TypeOK, Outcomes
<1>4. RunInv'
  BY <1>1, ContinueFacts, AgentFacts
     DEF TypeOK, RunInv, SessionsExclusive, NoUnfinishedRun, Claimed
<1>5. HolderInv'
  BY <1>1, <1>2, ContinueFacts DEF TypeOK, HolderInv, Claimed, WritesOf
<1>6. TaskInv'
  BY <1>1, <1>2, AgentFacts
     DEF TypeOK, TaskInv, HolderInv, IdleTaskIsQuiet, DependenciesBeforeWork, Claimed,
         ActiveStatuses
<1> QED
  BY <1>3, <1>4, <1>5, <1>6

\* While a merge is the next commit, its task is claimed and the holder is one of its agents.
LEMMA IntegrateFacts ==
  ASSUME Inv, Next1("integrate")
  PROVE  /\ phase = "writing" /\ TaskOf(cur) \in Tasks /\ cur \in AgentsOf(TaskOf(cur))
         /\ status[TaskOf(cur)] \in ActiveStatuses /\ attempts[TaskOf(cur)] \in Nat
<1>1. TaskOf(cur) \in Tasks /\ cur \in AgentsOf(TaskOf(cur))
  BY HolderFacts DEF Inv, Next1
<1>2. status[TaskOf(cur)] \in ActiveStatuses
  BY <1>1, NextWrite, WriteFacts, AgentFacts DEF Next1
<1> QED
  BY <1>1, <1>2 DEF Next1, Inv, TypeOK

\* A Merge step keeps the invariant.
LEMMA MergeInv ==
  ASSUME Inv, Merge
  PROVE  Inv'
<1> DEFINE t == TaskOf(cur)
<1>1. Next1("integrate")
  BY DEF Merge
<1>2. phase = "writing" /\ t \in Tasks /\ cur \in Agents /\ status[t] \in ActiveStatuses
  BY <1>1, IntegrateFacts, AgentFacts
<1>3. <<Accept, SetAgent(WorkerOf(t), "done")>> \in Seq(Writes)
  <2>1. Accept \in Writes /\ SetAgent(WorkerOf(t), "done") \in Writes
    BY <1>2, WritesFacts
  <2> QED
    BY <2>1
<1> USE DEF Inv, Merge, rows, procs, Perform
<1>4. TypeOK'
  <2>1. Merged(t) \in {"absent", "merged", "reverted", "partial"}
    BY <1>2 DEF TypeOK, Merged
  <2>2. /\ base' \in [Tasks -> {"absent", "merged", "reverted", "partial"}]
        /\ ahead' \in [Tasks -> BOOLEAN]
    BY <1>2, <2>1 DEF TypeOK
  <2> QED
    BY <1>2, <1>3, <2>2 DEF TypeOK
<1>5. RunInv'
  BY <1>2, AgentFacts DEF TypeOK, RunInv, SessionsExclusive, NoUnfinishedRun, Claimed
<1>6. HolderInv'
  BY <1>2 DEF TypeOK, HolderInv, Claimed, WritesOf
<1>7. TaskInv'
  BY AgentFacts DEF TypeOK, TaskInv, IdleTaskIsQuiet, DependenciesBeforeWork, Claimed
<1> QED
  BY <1>4, <1>5, <1>6, <1>7

\* A MergeConflict step keeps the invariant.
LEMMA MergeConflictInv ==
  ASSUME Inv, MergeConflict
  PROVE  Inv'
<1>1. Next1("integrate") /\ Perform(Rework(TaskOf(cur), attempts[TaskOf(cur)]))
  BY DEF MergeConflict
<1>2. Rework(TaskOf(cur), attempts[TaskOf(cur)]) \in Seq(HandlerWrites(AgentsOf(TaskOf(cur))))
  BY <1>1, IntegrateFacts, ReworkTyped
<1> QED
  BY <1>1, <1>2, IntegrateFacts, DecidedInv DEF MergeConflict, repo, Inv, TypeOK

\* A MergeError step keeps the invariant.
LEMMA MergeErrorInv ==
  ASSUME Inv, MergeError
  PROVE  Inv'
<1>1. Next1("integrate") /\ Perform(Block(cur, attempts[TaskOf(cur)]))
  BY DEF MergeError
<1>2. Block(cur, attempts[TaskOf(cur)]) \in Seq(HandlerWrites(AgentsOf(TaskOf(cur))))
  BY <1>1, IntegrateFacts, BlockTyped
<1> QED
  BY <1>1, <1>2, IntegrateFacts, DecidedInv DEF MergeError, repo, Inv, TypeOK

\* A WriteAccept step keeps the invariant.
LEMMA WriteAcceptInv ==
  ASSUME Inv, WriteAccept
  PROVE  Inv'
<1> DEFINE t == TaskOf(cur)
<1> USE DEF Inv, WriteAccept, Next1, repo, procs
<1>1. t \in Tasks /\ cur \in Agents /\ AgentsOf(t) \in SUBSET Agents
  BY HolderFacts, AgentFacts
<1>2. status[t] \in ActiveStatuses /\ Tail(todo) = <<SetAgent(WorkerOf(t), "done")>>
  BY <1>1, NextWrite, WriteFacts
<1>3. TypeOK'
  BY <1>1, ContinueFacts DEF TypeOK, Statuses, Outcomes
<1>4. RunInv'
  BY <1>1, ContinueFacts, AgentFacts
     DEF TypeOK, RunInv, SessionsExclusive, NoUnfinishedRun, Claimed
<1>5. HolderInv'
  BY <1>1, <1>2, ContinueFacts DEF TypeOK, HolderInv, Claimed, WritesOf
<1>6. TaskInv'
  BY <1>1, <1>2, AgentFacts
     DEF TypeOK, TaskInv, IdleTaskIsQuiet, DependenciesBeforeWork, Claimed
<1> QED
  BY <1>3, <1>4, <1>5, <1>6

\* A SpawnForQueuedTask step keeps the invariant.
LEMMA SpawnForQueuedTaskInv ==
  ASSUME Inv, NEW t \in Tasks, SpawnForQueuedTask(t)
  PROVE  Inv'
<1> DEFINE w == WorkerOf(t)
<1> USE DEF Inv, SpawnForQueuedTask, repo, procs, holder, Hold
<1>1. /\ phase = "free" /\ status[t] = "queued" /\ \A d \in Deps[t] : status[d] = "done"
      /\ w \in Agents /\ w \in AgentsOf(t) /\ TaskOf(w) = t /\ w # NoAgent
      /\ Deps[t] \subseteq Tasks
  BY AgentFacts DEF NextReadyTask, UnmetDependencies
<1>2. \/ NoUnfinishedRun /\ phase' = "picked" /\ cur' = w /\ UNCHANGED <<outcome, todo>>
      \/ ~NoUnfinishedRun /\ UNCHANGED <<phase, cur, outcome, todo>>
  OBVIOUS
<1>3. /\ status' = [status EXCEPT ![t] = "in_progress"]
      /\ agent' = [agent EXCEPT ![w] = "runnable"]
      /\ UNCHANGED <<attempts, recorded, turns, questions, repo, procs>>
  OBVIOUS
<1>4. TypeOK'
  <2>1. status' \in [Tasks -> Statuses] /\ agent' \in [Agents -> AgentStates]
    BY <1>1, <1>3 DEF TypeOK, Statuses, AgentStates
  <2> QED
    BY <1>1, <1>2, <1>3, <2>1 DEF TypeOK
<1>5. \A u \in Tasks : Claimed(u)' <=> Claimed(u) \/ u = t
  BY <1>1, <1>3, AgentFacts DEF TypeOK, Claimed
<1>6. RunInv'
  <2>1. \A u \in Tasks : status[u] \in ActiveStatuses => status'[u] \in ActiveStatuses
    BY <1>1, <1>3 DEF TypeOK, ActiveStatuses
  <2> QED
    BY <1>1, <1>2, <1>3, <1>5, <2>1, AgentFacts
       DEF TypeOK, RunInv, SessionsExclusive, NoUnfinishedRun
<1>7. HolderInv'
  BY <1>1, <1>2, <1>3, <1>5 DEF TypeOK, HolderInv, ActiveStatuses
<1>8. TaskInv'
  <2>1. \A a \in Agents : a # w => agent'[a] = agent[a]
    BY <1>1, <1>3 DEF TypeOK
  <2>2. \A u \in Tasks : status'[u] = IF u = t THEN "in_progress" ELSE status[u]
    BY <1>1, <1>3 DEF TypeOK
  <2>3. IdleTaskIsQuiet'
    BY <1>1, <1>3, <2>1, <2>2, AgentFacts DEF TaskInv, IdleTaskIsQuiet
  <2>4. \A a \in Agents : agent'[a] # "absent" \/ questions'[a] > 0 => Claimed(TaskOf(a))'
    BY <1>1, <1>3, <1>5, <2>1, AgentFacts DEF TaskInv
  <2>5. DependenciesBeforeWork'
    BY <1>1, <1>3, <1>5 DEF TaskInv, DependenciesBeforeWork, Claimed
  <2> QED
    BY <1>3, <2>2, <2>3, <2>4, <2>5 DEF TaskInv
<1> QED
  BY <1>4, <1>6, <1>7, <1>8

\* An AddTask step keeps the invariant.
LEMMA AddTaskInv ==
  ASSUME Inv, NEW t \in Tasks, AddTask(t)
  PROVE  Inv'
<1> USE DEF Inv, AddTask, rows, repo, procs, holder, Hold, Release, Perform
<1>1. TypeOK'
  BY HolderFacts, AgentFacts DEF TypeOK, Statuses
<1>2. RunInv'
  BY HolderFacts, AgentFacts
     DEF TypeOK, RunInv, SessionsExclusive, NoUnfinishedRun, Claimed, ActiveStatuses
<1>3. HolderInv'
  BY HolderFacts, AgentFacts
     DEF TypeOK, HolderInv, Claimed, WritesOf, ActiveStatuses
<1>4. TaskInv'
  <2>1. \A u \in Tasks : Claimed(u)' <=> Claimed(u)
    BY HolderFacts, AgentFacts DEF TypeOK, Claimed
  <2>2. IdleTaskIsQuiet'
    BY HolderFacts, AgentFacts DEF TypeOK, TaskInv, IdleTaskIsQuiet
  <2>3. \A b \in Agents : agent'[b] # "absent" \/ questions'[b] > 0 =>
          agent[b] # "absent" \/ questions[b] > 0
    BY HolderFacts, AgentFacts DEF TypeOK
  <2>4. \A u \in Tasks : status'[u] = "done" => status[u] = "done"
    BY HolderFacts DEF TypeOK
  <2> QED
    BY <2>1, <2>2, <2>3, <2>4, AgentFacts DEF TypeOK, TaskInv, DependenciesBeforeWork, Claimed
<1> QED
  BY <1>1, <1>2, <1>3, <1>4

\* A CancelTask step keeps the invariant.
LEMMA CancelTaskInv ==
  ASSUME Inv, NEW t \in Tasks, CancelTask(t)
  PROVE  Inv'
<1> USE DEF Inv, CancelTask, rows, repo, procs, holder, Hold, Release, Perform
<1>1. TypeOK'
  BY HolderFacts, AgentFacts DEF TypeOK, Statuses, SetAgentsOf, AgentStates
<1>2. RunInv'
  BY HolderFacts, AgentFacts
     DEF TypeOK, RunInv, SessionsExclusive, NoUnfinishedRun, Claimed, SetAgentsOf
<1>3. HolderInv'
  BY HolderFacts, AgentFacts DEF TypeOK, HolderInv, Claimed, WritesOf
<1>4. TaskInv'
  <2>1. \A u \in Tasks : Claimed(u)' <=> Claimed(u)
    BY HolderFacts, AgentFacts DEF TypeOK, Claimed, SetAgentsOf
  <2>2. IdleTaskIsQuiet'
    BY HolderFacts, AgentFacts DEF TypeOK, TaskInv, IdleTaskIsQuiet, SetAgentsOf
  <2>3. \A b \in Agents : agent'[b] # "absent" \/ questions'[b] > 0 =>
          agent[b] # "absent" \/ questions[b] > 0
    BY HolderFacts, AgentFacts DEF TypeOK, SetAgentsOf
  <2>4. \A u \in Tasks : status'[u] = "done" => status[u] = "done"
    BY HolderFacts DEF TypeOK, SetAgentsOf
  <2> QED
    BY <2>1, <2>2, <2>3, <2>4, AgentFacts DEF TypeOK, TaskInv, DependenciesBeforeWork, Claimed, SetAgentsOf
<1> QED
  BY <1>1, <1>2, <1>3, <1>4

\* A RequeueTask step keeps the invariant.
LEMMA RequeueTaskInv ==
  ASSUME Inv, NEW t \in Tasks, RequeueTask(t)
  PROVE  Inv'
<1> USE DEF Inv, RequeueTask, rows, repo, procs, holder, Hold, Release, Perform
<1>1. TypeOK'
  BY HolderFacts, AgentFacts
     DEF TypeOK, MayRequeue, RequeueRows, Statuses, SetAgentsOf, AgentStates
<1>2. RunInv'
  BY HolderFacts, AgentFacts
     DEF TypeOK, RunInv, SessionsExclusive, NoUnfinishedRun, Claimed, MayRequeue, RequeueRows, SetAgentsOf
<1>3. HolderInv'
  BY HolderFacts, AgentFacts DEF TypeOK, HolderInv, Claimed, WritesOf
<1>4. TaskInv'
  <2>1. \A u \in Tasks : Claimed(u)' <=> Claimed(u)
    BY HolderFacts, AgentFacts DEF TypeOK, Claimed, MayRequeue, RequeueRows, SetAgentsOf, NoUnfinishedRun
  <2>2. IdleTaskIsQuiet'
    BY HolderFacts, AgentFacts DEF TypeOK, TaskInv, IdleTaskIsQuiet, MayRequeue, RequeueRows, SetAgentsOf, NoUnfinishedRun
  <2>3. \A b \in Agents : agent'[b] # "absent" \/ questions'[b] > 0 =>
          agent[b] # "absent" \/ questions[b] > 0
    BY HolderFacts, AgentFacts DEF TypeOK, MayRequeue, RequeueRows, SetAgentsOf, NoUnfinishedRun
  <2>4. \A u \in Tasks : status'[u] = "done" => status[u] = "done"
    BY HolderFacts DEF TypeOK, MayRequeue, RequeueRows, SetAgentsOf, NoUnfinishedRun
  <2> QED
    BY <2>1, <2>2, <2>3, <2>4, AgentFacts DEF TypeOK, TaskInv, DependenciesBeforeWork, Claimed, MayRequeue, RequeueRows, SetAgentsOf, NoUnfinishedRun
<1> QED
  BY <1>1, <1>2, <1>3, <1>4

\* A DiscardBranch step keeps the invariant.
LEMMA DiscardBranchInv ==
  ASSUME Inv, NEW t \in Tasks, DiscardBranch(t)
  PROVE  Inv'
<1> USE DEF Inv, DiscardBranch, rows, repo, procs, holder, Hold, Release, Perform
<1>1. TypeOK'
  BY HolderFacts, AgentFacts DEF TypeOK
<1>2. RunInv'
  BY HolderFacts, AgentFacts
     DEF TypeOK, RunInv, SessionsExclusive, NoUnfinishedRun, Claimed, MayRequeue
<1>3. HolderInv'
  BY HolderFacts, AgentFacts DEF TypeOK, HolderInv, Claimed, WritesOf, MayRequeue
<1>4. TaskInv'
  BY HolderFacts, AgentFacts
     DEF TypeOK, TaskInv, IdleTaskIsQuiet, DependenciesBeforeWork, Claimed
<1> QED
  BY <1>1, <1>2, <1>3, <1>4

\* A RequeueFresh step keeps the invariant.
LEMMA RequeueFreshInv ==
  ASSUME Inv, RequeueFresh
  PROVE  Inv'
<1> USE DEF Inv, RequeueFresh, rows, repo, procs, holder, Hold, Release, Perform
<1>1. TypeOK'
  BY HolderFacts, AgentFacts
     DEF TypeOK, RequeueRows, Statuses, SetAgentsOf, AgentStates, Outcomes
<1>2. RunInv'
  BY HolderFacts, AgentFacts
     DEF TypeOK, RunInv, SessionsExclusive, NoUnfinishedRun, Claimed, RequeueRows, SetAgentsOf
<1>3. HolderInv'
  BY HolderFacts, AgentFacts DEF TypeOK, HolderInv, Claimed, WritesOf
<1>4. TaskInv'
  <2>1. \A u \in Tasks : Claimed(u)' <=> Claimed(u)
    BY HolderFacts, AgentFacts DEF TypeOK, Claimed, RequeueRows, SetAgentsOf, NoUnfinishedRun, RunInv
  <2>2. IdleTaskIsQuiet'
    BY HolderFacts, AgentFacts DEF TypeOK, TaskInv, IdleTaskIsQuiet, RequeueRows, SetAgentsOf, NoUnfinishedRun, RunInv
  <2>3. \A b \in Agents : agent'[b] # "absent" \/ questions'[b] > 0 =>
          agent[b] # "absent" \/ questions[b] > 0
    BY HolderFacts, AgentFacts DEF TypeOK, RequeueRows, SetAgentsOf, NoUnfinishedRun, RunInv
  <2>4. \A u \in Tasks : status'[u] = "done" => status[u] = "done"
    BY HolderFacts DEF TypeOK, RequeueRows, SetAgentsOf, NoUnfinishedRun, RunInv
  <2> QED
    BY <2>1, <2>2, <2>3, <2>4, AgentFacts DEF TypeOK, TaskInv, DependenciesBeforeWork, Claimed, RequeueRows, SetAgentsOf, NoUnfinishedRun, RunInv
<1> QED
  BY <1>1, <1>2, <1>3, <1>4

\* A RevertMerge step keeps the invariant.
LEMMA RevertMergeInv ==
  ASSUME Inv, NEW t \in Tasks, RevertMerge(t)
  PROVE  Inv'
<1> USE DEF Inv, RevertMerge, rows, repo, procs, holder, Hold, Release, Perform
<1>1. TypeOK'
  BY HolderFacts, AgentFacts DEF TypeOK
<1>2. RunInv'
  BY HolderFacts, AgentFacts
     DEF TypeOK, RunInv, SessionsExclusive, NoUnfinishedRun, Claimed
<1>3. HolderInv'
  BY HolderFacts, AgentFacts DEF TypeOK, HolderInv, Claimed, WritesOf
<1>4. TaskInv'
  BY HolderFacts, AgentFacts
     DEF TypeOK, TaskInv, IdleTaskIsQuiet, DependenciesBeforeWork, Claimed
<1> QED
  BY <1>1, <1>2, <1>3, <1>4

\* A RollbackTask step keeps the invariant.
LEMMA RollbackTaskInv ==
  ASSUME Inv, RollbackTask
  PROVE  Inv'
<1> USE DEF Inv, RollbackTask, rows, repo, procs, holder, Hold, Release, Perform
<1>1. TypeOK'
  BY HolderFacts, AgentFacts DEF TypeOK, Statuses, Outcomes
<1>2. RunInv'
  BY HolderFacts, AgentFacts
     DEF TypeOK, RunInv, SessionsExclusive, NoUnfinishedRun, Claimed
<1>3. HolderInv'
  BY HolderFacts, AgentFacts DEF TypeOK, HolderInv, Claimed, WritesOf
<1>4. TaskInv'
  BY HolderFacts, AgentFacts
     DEF TypeOK, TaskInv, IdleTaskIsQuiet, DependenciesBeforeWork, Claimed, HolderInv
<1> QED
  BY <1>1, <1>2, <1>3, <1>4

\* An AnswerMessage step keeps the invariant.
LEMMA AnswerMessageInv ==
  ASSUME Inv, NEW a \in Agents, AnswerMessage(a)
  PROVE  Inv'
<1> USE DEF Inv, AnswerMessage, rows, repo, procs, holder, Hold, Release, Perform
<1>1. TypeOK'
  BY HolderFacts, AgentFacts DEF TypeOK, Statuses, AgentStates
<1>2. RunInv'
  BY HolderFacts, AgentFacts
     DEF TypeOK, RunInv, SessionsExclusive, NoUnfinishedRun, Claimed, ActiveStatuses
<1>3. HolderInv'
  BY HolderFacts, AgentFacts DEF TypeOK, HolderInv, Claimed, WritesOf
<1>4. TaskInv'
  BY HolderFacts, AgentFacts
     DEF TypeOK, TaskInv, IdleTaskIsQuiet, DependenciesBeforeWork, Claimed
<1> QED
  BY <1>1, <1>2, <1>3, <1>4

\* A RetryBlockedTasks step keeps the invariant.
LEMMA RetryBlockedTasksInv ==
  ASSUME Inv, RetryBlockedTasks
  PROVE  Inv'
<1> USE DEF Inv, RetryBlockedTasks, rows, repo, procs, holder, Hold, Release, Perform
<1>1. TypeOK'
  BY HolderFacts, AgentFacts DEF TypeOK, Statuses, AgentStates, BlockedTasks
<1>2. RunInv'
  BY HolderFacts, AgentFacts
     DEF TypeOK, RunInv, SessionsExclusive, NoUnfinishedRun, Claimed, ActiveStatuses, BlockedTasks
<1>3. HolderInv'
  BY HolderFacts, AgentFacts DEF TypeOK, HolderInv, Claimed, WritesOf
<1>4. TaskInv'
  BY HolderFacts, AgentFacts
     DEF TypeOK, TaskInv, IdleTaskIsQuiet, DependenciesBeforeWork, Claimed, BlockedTasks
<1> QED
  BY <1>1, <1>2, <1>3, <1>4

\* A Crash step keeps the invariant.
LEMMA CrashInv ==
  ASSUME Inv, Crash
  PROVE  Inv'
<1> USE DEF Inv, Crash, rows, repo, procs, holder, Hold, Release, Perform
<1>1. TypeOK'
  BY HolderFacts, AgentFacts DEF TypeOK, Outcomes
<1>2. RunInv'
  BY HolderFacts, AgentFacts
     DEF TypeOK, RunInv, SessionsExclusive, NoUnfinishedRun, Claimed
<1>3. HolderInv'
  BY HolderFacts, AgentFacts DEF TypeOK, HolderInv, Claimed, WritesOf
<1>4. TaskInv'
  BY HolderFacts, AgentFacts
     DEF TypeOK, TaskInv, IdleTaskIsQuiet, DependenciesBeforeWork, Claimed
<1> QED
  BY <1>1, <1>2, <1>3, <1>4

\* An OrphanExits step keeps the invariant.
LEMMA OrphanExitsInv ==
  ASSUME Inv, NEW a \in Agents, OrphanExits(a)
  PROVE  Inv'
<1> USE DEF Inv, OrphanExits, rows, repo, procs, holder, Hold, Release, Perform
<1>1. TypeOK'
  BY HolderFacts, AgentFacts DEF TypeOK
<1>2. RunInv'
  BY HolderFacts, AgentFacts
     DEF TypeOK, RunInv, SessionsExclusive, NoUnfinishedRun, Claimed
<1>3. HolderInv'
  BY HolderFacts, AgentFacts DEF TypeOK, HolderInv, Claimed, WritesOf
<1>4. TaskInv'
  BY HolderFacts, AgentFacts
     DEF TypeOK, TaskInv, IdleTaskIsQuiet, DependenciesBeforeWork, Claimed
<1> QED
  BY <1>1, <1>2, <1>3, <1>4

\* A RecoverRun step keeps the invariant.
LEMMA RecoverRunInv ==
  ASSUME Inv, NEW a \in Agents, RecoverRun(a)
  PROVE  Inv'
<1> USE DEF Inv, RecoverRun, repo, holder
<1>1. TypeOK'
  BY AgentFacts DEF TypeOK, AgentStates
<1>2. TaskOf(a) \in Tasks /\ Claimed(TaskOf(a))
  BY AgentFacts DEF RunInv
<1>3. /\ agent' \in [Agents -> AgentStates]
      /\ \A b \in Agents : agent'[b] = IF b = a THEN "blocked" ELSE agent[b]
  BY <1>1 DEF TypeOK
<1>4. \A u \in Tasks : Claimed(u)' <=> Claimed(u)
  BY <1>2, <1>3, AgentFacts DEF Claimed
<1>5. RunInv'
  BY <1>4, AgentFacts DEF TypeOK, RunInv, SessionsExclusive, NoUnfinishedRun
<1>6. HolderInv'
  BY <1>4, AgentFacts DEF TypeOK, HolderInv
<1>7. TaskInv'
  <2>1. \A b \in Agents : agent'[b] # "absent" \/ questions'[b] > 0 => Claimed(TaskOf(b))'
    BY <1>2, <1>3, <1>4, AgentFacts DEF TaskInv
  <2>2. IdleTaskIsQuiet'
    BY <1>3, AgentFacts DEF TypeOK, TaskInv, IdleTaskIsQuiet
  <2>3. DependenciesBeforeWork'
    BY <1>4 DEF TaskInv, DependenciesBeforeWork, Claimed
  <2> QED
    BY <2>1, <2>2, <2>3 DEF TaskInv
<1> QED
  BY <1>1, <1>5, <1>6, <1>7

\* Nothing changes, and Inv stays.
LEMMA StutterInv ==
  ASSUME Inv, UNCHANGED vars
  PROVE  Inv'
BY DEF Inv, vars, rows, repo, procs, holder, TypeOK, RunInv, SessionsExclusive,
       NoUnfinishedRun, HolderInv, WritesOf, Claimed, TaskInv, IdleTaskIsQuiet,
       DependenciesBeforeWork

\* A Next step keeps the invariant.
LEMMA NextInv ==
  ASSUME Inv, [Next]_vars
  PROVE  Inv'
<1>1. CASE Selection
  BY <1>1, PickTurnInv, SpawnForQueuedTaskInv DEF Selection
<1>2. CASE Turn
  BY <1>2, TurnNotStartedInv, BudgetExhaustedInv, StartRunInv, RecordAdapterOwnerInv,
     EndRunInv, DeferredInv, CountTurnInv DEF Turn
<1>3. CASE Handler
  BY <1>3, OnAskInv, OnYieldInv, OnFailInv, WorkerDoneReworkInv, WorkerDoneCheckedInv,
     HandlerErrorInv, ApplyVerdictInv DEF Handler
<1>4. CASE Write
  BY <1>4, WriteTaskInv, WriteAgentInv, WriteQuestionInv, MergeInv, MergeConflictInv,
     MergeErrorInv, WriteAcceptInv DEF Write
<1>5. CASE Owner
  BY <1>5, AddTaskInv, CancelTaskInv, RequeueTaskInv, DiscardBranchInv, RevertMergeInv,
     RequeueFreshInv, RollbackTaskInv, AnswerMessageInv, RecoverRunInv,
     RetryBlockedTasksInv DEF Owner
<1>6. CASE Session
  BY <1>6, CommitWorkInv, OrphanExitsInv DEF Session
<1>7. CASE Crash
  BY <1>7, CrashInv
<1>8. CASE UNCHANGED vars
  BY <1>8, StutterInv
<1> QED
  BY <1>1, <1>2, <1>3, <1>4, <1>5, <1>6, <1>7, <1>8 DEF Next

(***************************************************************************)
(* The theorems.                                                           *)
(***************************************************************************)

\* Inv holds in every state the scheduler, the owner and crashes can reach.
THEOREM Invariance == Spec => []Inv
<1>1. Inv /\ [Next]_vars => Inv'
  BY NextInv
<1> QED
  BY InitInv, <1>1, PTL DEF Spec

\* Every variable keeps its type; in particular the lock is free exactly when
\* nobody works, and a handler has nothing but well-formed commits to make.
THEOREM TypeCorrect == Spec => []TypeOK
BY Invariance, PTL DEF Inv

\* At most one task session is under way, whatever crashed before it, and no
\* adapter outlives the run row that protects its task.
THEOREM OneSession == Spec => []SessionsExclusive
<1>1. Inv => SessionsExclusive
  BY DEF Inv, RunInv
<1> QED
  BY <1>1, Invariance, PTL

\* A queued or cancelled task has no agent to schedule, no run to recover and,
\* once requeued, no old question to answer.
THEOREM IdleTasksAreQuiet == Spec => []IdleTaskIsQuiet
<1>1. Inv => IdleTaskIsQuiet
  BY DEF Inv, TaskInv
<1> QED
  BY <1>1, Invariance, PTL

\* A task has a worker only if what it builds on was accepted and merged.
THEOREM DependenciesComeFirst == Spec => []DependenciesBeforeWork
<1>1. Inv => DependenciesBeforeWork
  BY DEF Inv, TaskInv
<1> QED
  BY <1>1, Invariance, PTL

(***************************************************************************)
(* A session keeps its branch.                                             *)
(***************************************************************************)

\* Only its own session moves a branch while any session is alive.
LEMMA BranchFacts ==
  ASSUME Inv, [Next]_vars, live # {}
  PROVE  repo' = repo \/ \E a \in Agents : CommitWork(a)
<1>1. ~NoUnfinishedRun
  BY DEF Inv, TypeOK, RunInv, SessionsExclusive, NoUnfinishedRun
<1>2. phase \in {"free", "registered", "session"}
  BY <1>1 DEF Inv, TypeOK, RunInv
<1> USE DEF repo
<1>3. CASE Selection
  BY <1>3 DEF Selection, PickTurn, SpawnForQueuedTask
<1>4. CASE Turn
  BY <1>4 DEF Turn, TurnNotStarted, BudgetExhausted, StartRun, RecordAdapterOwner, EndRun,
              Deferred, CountTurn
<1>5. ~Handler /\ ~Write
  BY <1>2 DEF Handler, Handles, OnAsk, OnYield, OnFail, WorkerDoneRework, WorkerDoneChecked,
              HandlerError, ApplyVerdict, Write, Next1, WriteTask, WriteAgent, WriteQuestion,
              Merge, MergeConflict, MergeError, WriteAccept
<1>6. CASE Owner
  <2>1. \A t \in Tasks : ~DiscardBranch(t) /\ ~RevertMerge(t)
    BY <1>1 DEF DiscardBranch, MayRequeue, RevertMerge
  <2> QED
    BY <1>6, <2>1 DEF Owner, AddTask, CancelTask, RequeueTask, RequeueFresh, RollbackTask,
                      AnswerMessage, RecoverRun, RetryBlockedTasks
<1>7. CASE Session
  BY <1>7 DEF Session, OrphanExits
<1>8. CASE Crash
  BY <1>8 DEF Crash
<1>9. CASE UNCHANGED vars
  BY <1>9 DEF vars
<1> QED
  BY <1>3, <1>4, <1>5, <1>6, <1>7, <1>8, <1>9 DEF Next

\* No step but a commit of the session itself changes the branch of a live
\* adapter's task or what the base branch holds of it, and the task stays
\* claimed: not even an orphan can be requeued or rolled back under.
THEOREM OrphanKeepsBranch == Spec => SessionOwnsBranch
<1> DEFINE Kept(a) ==
      LET t == TaskOf(a) IN
      /\ base'[t] = base[t]
      /\ ahead[t] => ahead'[t]
      /\ verified'[t] => verified[t]
      /\ status'[t] \in ActiveStatuses
<1>1. ASSUME Inv, [Next]_vars
      PROVE  \A a \in live : a \in live' => Kept(a)
  <2> SUFFICES ASSUME NEW a \in live, a \in live'
               PROVE  Kept(a)
    OBVIOUS
  <2>1. a \in Agents /\ TaskOf(a) \in Tasks
    BY <1>1, AgentFacts DEF Inv, TypeOK
  <2>2. status'[TaskOf(a)] \in ActiveStatuses
    BY <1>1, <2>1, NextInv DEF Inv, RunInv, SessionsExclusive
  <2>3. CASE repo' = repo
    BY <2>2, <2>3 DEF repo
  <2>4. CASE \E b \in Agents : CommitWork(b)
    BY <1>1, <2>1, <2>2, <2>4, AgentFacts DEF CommitWork, Inv, TypeOK
  <2> QED
    BY <1>1, <2>3, <2>4, BranchFacts
<1>2. Inv /\ [Next]_vars => [\A a \in live : a \in live' => Kept(a)]_vars
  BY <1>1
<1> QED
  BY <1>2, Invariance, PTL DEF Spec, SessionOwnsBranch

(***************************************************************************)
(* The lifecycle implements the board.                                     *)
(***************************************************************************)

\* The lifecycle starts as the board does.
LEMMA BoardInit == Init => Board!Init
BY DEF Init, Board!Init

\* Every lifecycle step is a step of the board or leaves it unchanged.
LEMMA BoardNext ==
  ASSUME Inv, [Next]_vars
  PROVE  [Board!Next]_(Board!board)
<1> USE DEF Board!Active, ActiveStatuses
<1> SUFFICES \/ UNCHANGED <<status, recorded>>
             \/ \E t \in Tasks : \/ Board!Add(t) \/ Board!Claim(t) \/ Board!Review(t)
                                 \/ Board!Accept(t) \/ Board!Rollback(t)
                                 \/ Board!Requeue(t) \/ Board!Cancel(t)
             \/ Board!Retry
  BY DEF Board!Next, Board!board
<1>0. status \in [Tasks -> Statuses]
  BY DEF Inv, TypeOK
<1>1. CASE Selection
  <2>1. CASE \E a \in Agents : PickTurn(a)
    BY <2>1 DEF PickTurn, rows
  <2>2. ASSUME NEW t \in Tasks, SpawnForQueuedTask(t)
        PROVE  Board!Claim(t)
    BY <2>2 DEF SpawnForQueuedTask, NextReadyTask, UnmetDependencies, Board!Claim, Board!Move
  <2> QED
    BY <1>1, <2>1, <2>2 DEF Selection
<1>2. CASE Turn
  BY <1>2 DEF rows, Turn, TurnNotStarted, BudgetExhausted, StartRun, RecordAdapterOwner,
              EndRun, Deferred, CountTurn
<1>3. CASE Handler
  BY <1>3 DEF rows, Handler, OnAsk, OnYield, OnFail, WorkerDoneRework, WorkerDoneChecked,
              HandlerError, ApplyVerdict
<1>4. CASE Write
  <2>1. CASE WriteTask
    <3> DEFINE t == TaskOf(cur)
    <3>1. t \in Tasks /\ AgentsOf(t) \in SUBSET Agents
      BY <2>1, HolderFacts, AgentFacts DEF WriteTask, Next1, Inv
    <3>2. status[t] \in ActiveStatuses /\ Head(todo) \in HandlerWrites(AgentsOf(t))
      BY <2>1, <3>1, NextWrite, WriteFacts DEF WriteTask, Next1
    <3>3. Head(todo).status \in ActiveStatuses
      BY <2>1, <3>1, <3>2, WriteFacts DEF WriteTask, Next1
    <3>4. Board!Review(t)
      BY <2>1, <3>2, <3>3 DEF WriteTask, Board!Review, Board!Move
    <3> QED
      BY <3>1, <3>4
  <2>2. CASE WriteAccept
    <3> DEFINE t == TaskOf(cur)
    <3>1. t \in Tasks /\ AgentsOf(t) \in SUBSET Agents
      BY <2>2, HolderFacts, AgentFacts DEF WriteAccept, Next1, Inv
    <3>2. status[t] \in ActiveStatuses
      BY <2>2, <3>1, NextWrite, WriteFacts DEF WriteAccept, Next1
    <3>3. Board!Accept(t)
      BY <2>2, <3>2 DEF WriteAccept, Board!Accept, Board!Move
    <3> QED
      BY <3>1, <3>3
  <2>3. CASE WriteAgent \/ WriteQuestion \/ Merge \/ MergeConflict \/ MergeError
    BY <2>3 DEF rows, WriteAgent, WriteQuestion, Merge, MergeConflict, MergeError
  <2> QED
    BY <1>4, <2>1, <2>2, <2>3 DEF Write
<1>5. CASE Owner
  <2>1. ASSUME NEW t \in Tasks, AddTask(t)     PROVE Board!Add(t)
    BY <2>1 DEF AddTask, Board!Add, Board!Move
  <2>2. ASSUME NEW t \in Tasks, CancelTask(t)  PROVE Board!Cancel(t)
    BY <2>2 DEF CancelTask, Board!Cancel, Board!Move
  <2>3. ASSUME NEW t \in Tasks, RequeueTask(t) PROVE Board!Requeue(t)
    BY <1>0, <2>3 DEF RequeueTask, MayRequeue, RequeueRows, Board!Requeue, Board!Move, Statuses
  <2>4. CASE RequeueFresh
    <3>1. TaskOf(cur) \in Tasks /\ status[TaskOf(cur)] \notin {"absent", "done"}
      BY <2>4, HolderFacts DEF RequeueFresh, Inv, HolderInv
    <3>2. Board!Requeue(TaskOf(cur))
      BY <1>0, <2>4, <3>1 DEF RequeueFresh, RequeueRows, Board!Requeue, Board!Move, Statuses
    <3> QED
      BY <3>1, <3>2
  <2>5. CASE RollbackTask
    <3>1. TaskOf(cur) \in Tasks /\ status[TaskOf(cur)] = "done" /\ recorded[TaskOf(cur)]
      BY <2>5, HolderFacts DEF RollbackTask, Inv, HolderInv, TaskInv
    <3>2. Board!Rollback(TaskOf(cur))
      BY <2>5, <3>1 DEF RollbackTask, Board!Rollback, Board!Move
    <3> QED
      BY <3>1, <3>2
  <2>6. ASSUME NEW a \in Agents, AnswerMessage(a)
        PROVE  Board!Review(TaskOf(a))
    <3>1. TaskOf(a) \in Tasks /\ a \in AgentsOf(TaskOf(a))
      BY AgentFacts
    <3>2. questions[a] > 0 /\ status[TaskOf(a)] \notin {"done", "cancelled"}
      BY <2>6 DEF AnswerMessage
    <3>3. questions[a] \in Nat /\ questions[a] # 0
      BY <3>2 DEF Inv, TypeOK
    <3>4. status[TaskOf(a)] \in ActiveStatuses
      BY <1>0, <3>1, <3>2, <3>3 DEF Inv, TaskInv, IdleTaskIsQuiet, Statuses
    <3> QED
      BY <2>6, <3>4 DEF AnswerMessage, Board!Review, Board!Move
  <2>7. CASE RetryBlockedTasks
    BY <2>7 DEF RetryBlockedTasks, BlockedTasks, Board!Retry
  <2>8. CASE \E t \in Tasks : DiscardBranch(t) \/ RevertMerge(t)
    BY <2>8 DEF DiscardBranch, RevertMerge, rows
  <2>9. CASE \E a \in Agents : RecoverRun(a)
    BY <2>9 DEF RecoverRun
  <2> QED
    BY <1>5, <2>1, <2>2, <2>3, <2>4, <2>5, <2>6, <2>7, <2>8, <2>9, AgentFacts DEF Owner
<1>6. CASE Session
  BY <1>6 DEF Session, CommitWork, OrphanExits, rows
<1>7. CASE Crash
  BY <1>7 DEF Crash, rows
<1>8. CASE UNCHANGED vars
  BY <1>8 DEF vars, rows
<1> QED
  BY <1>1, <1>2, <1>3, <1>4, <1>5, <1>6, <1>7, <1>8 DEF Next

\* Tasks are claimed, reviewed, accepted, undone and cancelled the way the
\* board promises, whoever acts and whatever crashes.
THEOREM LifecycleImplementsBoard == Spec => ImplementsBoard
<1>1. Inv /\ [Next]_vars => [Board!Next]_(Board!board)
  BY BoardNext
<1> QED
  BY BoardInit, <1>1, Invariance, PTL DEF Spec, ImplementsBoard, Board!Spec

(***************************************************************************)
(* What a task costs.                                                      *)
(***************************************************************************)

\* The worker of a task is the only agent of it that is no critic.
LEMMA WorkerFacts ==
  ASSUME NEW t \in Tasks
  PROVE  /\ ~IsCritic(WorkerOf(t))
         /\ \A a \in AgentsOf(t) : ~IsCritic(a) => a = WorkerOf(t)
BY DEF WorkerOf, IsCritic, AgentsOf, Agents, TaskOf

\* The agents of a task are finitely many.
LEMMA AgentsFinite ==
  ASSUME NEW t \in Tasks
  PROVE  IsFiniteSet(AgentsOf(t))
<1> DEFINE f == [n \in 0..MaxReviews |-> <<t, n>>]
<1>1. IsFiniteSet(0..MaxReviews)
  BY FS_Interval
<1>2. \A n \in 0..MaxReviews : f[n] \in AgentsOf(t)
  BY DEF AgentsOf, Agents, TaskOf
<1>3. \A a \in AgentsOf(t) : a[2] \in 0..MaxReviews /\ f[a[2]] = a
  BY DEF AgentsOf, Agents, TaskOf
<1>4. f \in Surjection(0..MaxReviews, AgentsOf(t))
  BY <1>2, <1>3 DEF Surjection
<1> QED
  BY <1>1, <1>4, FS_Surjection

\* The critic that a review is opened with is a critic of the task.
LEMMA NextCriticFacts ==
  ASSUME NEW t \in Tasks, NextCritic(t) \in Agents
  PROVE  NextCritic(t) \in AgentsOf(t) /\ IsCritic(NextCritic(t))
<1> DEFINE S == {a \in AgentsOf(t) : IsCritic(a) /\ agent[a] # "absent"}
<1>1. Cardinality(S) \in Nat
  <2>1. IsFiniteSet(S)
    BY AgentsFinite, FS_Subset
  <2> QED
    BY <2>1, FS_CardinalityType
<1>2. NextCritic(t) = <<t, Cardinality(S) + 1>>
  BY DEF NextCritic
<1> HIDE DEF S
<1> QED
  BY <1>1, <1>2 DEF AgentsOf, TaskOf, IsCritic

\* The critics that are paid for are counted by a natural number, and dropping some of
\* them does not make it larger.
LEMMA SponsoredFacts ==
  ASSUME NEW t \in Tasks
  PROVE  /\ IsFiniteSet(Sponsored(t)) /\ Cardinality(Sponsored(t)) \in Nat
         /\ \A S \in SUBSET Sponsored(t) : Cardinality(S) \in Nat
                                           /\ Cardinality(S) <= Cardinality(Sponsored(t))
         /\ \A c \in AgentsOf(t) : Cardinality(Sponsored(t) \cup {c})
                                     <= Cardinality(Sponsored(t)) + 1
<1>1. IsFiniteSet(Sponsored(t))
  BY AgentsFinite, FS_Subset DEF Sponsored
<1>2. Cardinality(Sponsored(t)) \in Nat
  BY <1>1, FS_CardinalityType
<1>3. ASSUME NEW S \in SUBSET Sponsored(t)
      PROVE  Cardinality(S) \in Nat /\ Cardinality(S) <= Cardinality(Sponsored(t))
  BY <1>1, <1>3, FS_Subset, FS_CardinalityType
<1>4. ASSUME NEW c \in AgentsOf(t)
      PROVE  Cardinality(Sponsored(t) \cup {c}) <= Cardinality(Sponsored(t)) + 1
  BY <1>1, <1>2, <1>4, FS_AddElement
<1> QED
  BY <1>1, <1>2, <1>3, <1>4

\* Commits that wake no critic but the one whose turn it is.
Plain(w) == \A i \in 1..Len(w) : WakesCritic(w[i]) => w[i].who = cur

\* A handler's commits wake the critic of the turn, or the worker.
LEMMA PlainConcat ==
  ASSUME NEW S, NEW v \in Seq(S), NEW w \in Seq(S), Plain(v), Plain(w)
  PROVE  Plain(v \o w)
<1>1. Len(v) \in Nat /\ Len(w) \in Nat /\ Len(v \o w) = Len(v) + Len(w)
  BY LenProperties, ConcatProperties
<1>2. ASSUME NEW i \in 1..Len(v \o w)
      PROVE  \/ \E j \in 1..Len(v) : (v \o w)[i] = v[j]
             \/ \E j \in 1..Len(w) : (v \o w)[i] = w[j]
  <2>1. CASE i <= Len(v)
    BY <1>1, <1>2, <2>1, ConcatProperties
  <2>2. CASE i > Len(v)
    <3>1. i - Len(v) \in 1..Len(w) /\ (v \o w)[i] = w[i - Len(v)]
      BY <1>1, <1>2, <2>2, ConcatProperties
    <3> QED
      BY <3>1
  <2> QED
    BY <1>1, <2>1, <2>2
<1> QED
  BY <1>2, Zenon DEF Plain

LEMMA PlainWrites ==
  ASSUME TypeOK, phase # "free", status[TaskOf(cur)] \in ActiveStatuses
  PROVE  LET t == TaskOf(cur) IN
         /\ \A n \in Nat : Plain(Block(cur, n)) /\ Plain(Rework(t, n))
         /\ Plain(FailWrites(t))
         /\ \A b \in BOOLEAN : Plain(AskWrites(b))
         /\ \A v \in Verdicts : Plain(VerdictWrites(v))
         /\ Plain(<<SetAgent(cur, "runnable")>>)
         /\ Plain(<<Accept, SetAgent(WorkerOf(t), "done")>>)
         /\ Plain(<<>>)
<1> DEFINE t == TaskOf(cur)
           H == HandlerWrites(AgentsOf(t))
<1>1. t \in Tasks /\ cur \in AgentsOf(t) /\ WorkerOf(t) \in AgentsOf(t) /\ ~IsCritic(WorkerOf(t))
  BY HolderFacts, AgentFacts, WorkerFacts
<1>2. attempts[t] \in Nat /\ attempts[t] + 1 \in Nat
  <2>1. attempts \in [Tasks -> Nat]
    BY DEF TypeOK
  <2>2. attempts[t] \in Nat
    BY <1>1, <2>1
  <2> QED
    BY <2>2
<1>3. ASSUME NEW n \in Nat, NEW s \in ActiveStatuses
      PROVE  <<SetTask(s, n)>> \in Seq(H) /\ Plain(<<SetTask(s, n)>>)
  BY DEF Plain, WakesCritic, SetTask, HandlerWrites
<1>4. ASSUME NEW n \in Nat
      PROVE  Block(cur, n) \in Seq(H) /\ Plain(Block(cur, n))
  <2>1. Block(cur, n) \in Seq(H)
    BY <1>1, BlockTyped
  <2>2. Plain(Block(cur, n))
    BY DEF Block, Plain, WakesCritic, SetTask, SetAgent
  <2> QED
    BY <2>1, <2>2
<1>5. ASSUME NEW a \in AgentsOf(t), NEW s \in AgentStates \ {"absent"},
             s # "runnable" \/ ~IsCritic(a) \/ a = cur
      PROVE  <<SetAgent(a, s)>> \in Seq(H) /\ Plain(<<SetAgent(a, s)>>)
  <2>1. <<SetAgent(a, s)>> \in Seq(H)
    BY DEF SetAgent, HandlerWrites
  <2>2. Plain(<<SetAgent(a, s)>>)
    BY <1>5 DEF Plain, WakesCritic, SetAgent
  <2> QED
    BY <2>1, <2>2
<1>6. /\ <<SetAgent(WorkerOf(t), "runnable")>> \in Seq(H)
      /\ Plain(<<SetAgent(WorkerOf(t), "runnable")>>)
      /\ <<SetAgent(cur, "runnable")>> \in Seq(H) /\ Plain(<<SetAgent(cur, "runnable")>>)
      /\ <<SetAgent(cur, "done")>> \in Seq(H) /\ Plain(<<SetAgent(cur, "done")>>)
  <2>1. "runnable" \in AgentStates \ {"absent"} /\ "done" \in AgentStates \ {"absent"}
    BY DEF AgentStates
  <2> QED
    BY <1>1, <1>5, <2>1
<1>7. Plain(<<SetAgent(cur, "done"), Integrate>>)
  BY DEF Plain, WakesCritic, SetAgent, Integrate
<1>8. <<SendQuestion>> \in Seq(H) /\ Plain(<<SendQuestion>>) /\ <<>> \in Seq(H) /\ Plain(<<>>)
  BY DEF Plain, WakesCritic, SendQuestion, HandlerWrites
<1>9. /\ <<SetAgent(cur, "blocked"), SetTask("blocked", attempts[t])>> \in Seq(H)
      /\ Plain(<<SetAgent(cur, "blocked"), SetTask("blocked", attempts[t])>>)
  <2>1. <<SetAgent(cur, "blocked"), SetTask("blocked", attempts[t])>> \in Seq(H)
    BY <1>1, <1>2 DEF SetAgent, SetTask, HandlerWrites, ActiveStatuses, AgentStates
  <2>2. Plain(<<SetAgent(cur, "blocked"), SetTask("blocked", attempts[t])>>)
    BY DEF Plain, WakesCritic, SetAgent, SetTask
  <2> QED
    BY <2>1, <2>2
<1>10. Plain(<<Accept, SetAgent(WorkerOf(t), "done")>>)
  BY DEF Plain, WakesCritic, Accept, SetAgent
<1>11. "in_progress" \in ActiveStatuses /\ status[t] \in ActiveStatuses
  BY DEF ActiveStatuses
<1> HIDE DEF t, H
<1>12. ASSUME NEW n \in Nat
       PROVE  Rework(t, n) \in Seq(H) /\ Plain(Rework(t, n))
  BY <1>3, <1>4, <1>6, <1>11, PlainConcat, ConcatProperties DEF Rework
<1>13. Plain(FailWrites(t))
  <2> DEFINE n == attempts[t] + 1
  <2>1. <<SetTask(status[t], n)>> \in Seq(H) /\ Plain(<<SetTask(status[t], n)>>)
    BY <1>2, <1>3, <1>11
  <2>2. Block(cur, n) \in Seq(H) /\ Plain(Block(cur, n))
    BY <1>2, <1>4
  <2> QED
    BY <1>6, <2>1, <2>2, PlainConcat DEF FailWrites
<1>14. ASSUME NEW b \in BOOLEAN
       PROVE  Plain(AskWrites(b))
  BY <1>8, <1>9, PlainConcat DEF AskWrites, t
<1>15. ASSUME NEW v \in Verdicts
       PROVE  Plain(VerdictWrites(v))
  <2>1. CASE v = "invalid"
    BY <1>13, <2>1 DEF VerdictWrites, t
  <2>2. CASE v = "pass"
    BY <1>7, <2>2 DEF VerdictWrites
  <2>3. CASE v = "reject"
    <3>1. Plain(<<SetAgent(cur, "done")>> \o Block(cur, attempts[t]))
      BY <1>2, <1>4, <1>6, PlainConcat
    <3> QED
      BY <2>3, <3>1 DEF VerdictWrites, t
  <2>4. CASE v = "rework"
    <3>1. Plain(<<SetAgent(cur, "done")>> \o Rework(t, attempts[t] + 1))
      BY <1>2, <1>6, <1>12, PlainConcat
    <3> QED
      BY <2>4, <3>1 DEF VerdictWrites, t
  <2> QED
    BY <1>15, <2>1, <2>2, <2>3, <2>4 DEF Verdicts
<1> QED
  BY <1>4, <1>6, <1>8, <1>10, <1>12, <1>13, <1>14, <1>15, Zenon DEF t

\* What follows the first commit of a handler is plain.
LEMMA TailPlain ==
  ASSUME NEW S, NEW w \in Seq(S), w # <<>>, Paid(w)
  PROVE  Plain(Tail(w))
<1>1. Len(w) \in Nat \ {0} /\ Len(Tail(w)) = Len(w) - 1
        /\ \A i \in 1..Len(Tail(w)) : Tail(w)[i] = w[i + 1] /\ i + 1 \in 1..Len(w) /\ i + 1 # 1
  BY HeadTailProperties, LenProperties, EmptySeq
<1> QED
  BY <1>1, Zenon DEF Plain, Paid

\* Nobody gets more critics, and nobody less turns to pay them with.
LEMMA FewerSponsored ==
  ASSUME TypeOK, CostInv, NEW t \in Tasks, UNCHANGED turns,
         \A a \in AgentsOf(t) : IsCritic(a) /\ agent'[a] = "runnable"
                                  => agent[a] = "runnable" \/ turns[a] > 0
  PROVE  Cardinality(Sponsored(t)') <= turns'[WorkerOf(t)]
<1>1. Sponsored(t)' \in SUBSET Sponsored(t)
  BY DEF Sponsored
<1>2. Cardinality(Sponsored(t)) <= turns[WorkerOf(t)]
  BY DEF CostInv
<1>3. turns[WorkerOf(t)] \in Nat
  BY AgentFacts DEF TypeOK
<1>4. /\ Cardinality(Sponsored(t)') \in Nat
      /\ Cardinality(Sponsored(t)') <= Cardinality(Sponsored(t))
      /\ Cardinality(Sponsored(t)) \in Nat
  BY <1>1, SponsoredFacts
<1> QED
  BY <1>2, <1>3, <1>4

\* A step that changes no row of an agent, by what it makes of the holder.
LEMMA CostFrame ==
  ASSUME CostInv, UNCHANGED <<agent, turns, questions>>,
         phase' \in {"picked", "registered", "session", "ended"} => agent[cur'] = "runnable",
         phase' \in {"registered", "session", "ended"} => turns[cur'] < Budget,
         phase' \in {"counted", "writing"} => cur' = cur /\ turns[cur] > 0,
         phase' = "counted" => phase = "counted",
         phase' = "writing" => Paid(todo')
  PROVE  CostInv'
<1>1. \A t : Sponsored(t)' = Sponsored(t) /\ (Affords(t)' <=> Affords(t))
  BY DEF Sponsored, Affords
<1>2. phase' = "writing" => Paid(todo)'
  BY <1>1, Zenon DEF Paid, WakesCritic
<1>3. phase' = "counted" /\ ~IsCritic(cur') => Affords(TaskOf(cur))'
  BY <1>1 DEF CostInv, Affords, Sponsored
<1>4. \A a \in Agents : turns'[a] <= Budget /\ (questions'[a] > 0 => turns'[a] > 0)
  BY DEF CostInv
<1>5. \A t \in Tasks : Cardinality(Sponsored(t)') <= turns'[WorkerOf(t)]
  BY <1>1 DEF CostInv
<1> HIDE DEF Paid, Affords, Sponsored, IsCritic, TaskOf
<1> QED
  BY <1>2, <1>3, <1>4, <1>5 DEF CostInv

\* A step that leaves the lock free, by what it makes of the rows.
LEMMA CostFree ==
  ASSUME phase' = "free",
         \A a \in Agents : turns'[a] <= Budget /\ (questions'[a] > 0 => turns'[a] > 0),
         \A t \in Tasks : Cardinality(Sponsored(t)') <= turns'[WorkerOf(t)]
  PROVE  CostInv'
BY DEF CostInv

\* The scheduler selects runnable agents, and creates only workers.
LEMMA SelectionCost == ASSUME Inv, CostInv, Selection PROVE CostInv'
<1>1. ASSUME NEW a \in Agents, PickTurn(a) PROVE CostInv'
  <2>1. /\ agent[a] = "runnable" /\ phase' = "picked" /\ cur' = a
        /\ UNCHANGED <<agent, turns, questions>>
    BY <1>1 DEF PickTurn, Eligible, Hold, rows
  <2> QED
    BY <2>1, CostFrame
<1>2. ASSUME NEW t \in Tasks, SpawnForQueuedTask(t) PROVE CostInv'
  <2> DEFINE w == WorkerOf(t)
  <2>1. /\ agent' = [agent EXCEPT ![w] = "runnable"] /\ UNCHANGED <<turns, questions>>
        /\ phase = "free" /\ ((phase' = "picked" /\ cur' = w) \/ phase' = "free")
    BY <1>2 DEF SpawnForQueuedTask, Hold, holder
  <2>2. agent \in [Agents -> AgentStates] /\ w \in Agents /\ ~IsCritic(w)
    BY AgentFacts, WorkerFacts DEF Inv, TypeOK
  <2>3. ASSUME NEW u \in Tasks PROVE Cardinality(Sponsored(u)') <= turns'[WorkerOf(u)]
    <3>1. \A a \in AgentsOf(u) : IsCritic(a) /\ agent'[a] = "runnable" => agent[a] = "runnable"
      BY <2>1, <2>2, AgentFacts
    <3> QED
      BY <2>1, <3>1, FewerSponsored DEF Inv
  <2>4. agent'[w] = "runnable"
    BY <2>1, <2>2
  <2>5. \A a \in Agents : turns'[a] <= Budget /\ (questions'[a] > 0 => turns'[a] > 0)
    BY <2>1 DEF CostInv
  <2> HIDE DEF w
  <2> QED
    BY <2>1, <2>3, <2>4, <2>5 DEF CostInv
<1> QED
  BY <1>1, <1>2 DEF Selection

\* The turn is counted for the agent that was selected, within its budget.
LEMMA TurnCost == ASSUME Inv, CostInv, Turn PROVE CostInv'
<1>1. turns \in [Agents -> Nat] /\ Budget \in Nat \ {0}
  BY DEF Inv, TypeOK
<1>2. CASE TurnNotStarted \/ Deferred
  <2>1. phase' = "free" /\ UNCHANGED <<agent, turns, questions>>
    BY <1>2 DEF TurnNotStarted, Deferred, Release, rows
  <2> QED
    BY <2>1, CostFrame
<1>3. CASE BudgetExhausted
  <2>1. /\ phase = "picked" /\ turns[cur] >= Budget /\ UNCHANGED <<agent, turns, questions>>
        /\ Perform(Block(cur, attempts[TaskOf(cur)]))
    BY <1>3 DEF BudgetExhausted, rows
  <2>2. cur \in Agents /\ status[TaskOf(cur)] \in ActiveStatuses /\ attempts[TaskOf(cur)] \in Nat
    BY <2>1, HolderFacts DEF Inv, HolderInv, TypeOK
  <2>3. Plain(Block(cur, attempts[TaskOf(cur)]))
    BY <2>1, <2>2, PlainWrites DEF Inv
  <2>4. Paid(todo') /\ phase' = "writing" /\ cur' = cur
    BY <2>1, <2>3, Zenon DEF Perform, Plain, Paid
  <2>5. turns[cur] > 0
    BY <1>1, <2>1, <2>2
  <2> QED
    BY <2>1, <2>4, <2>5, CostFrame
<1>4. CASE StartRun
  <2>1. /\ phase = "picked" /\ turns[cur] < Budget /\ phase' = "registered" /\ cur' = cur
        /\ UNCHANGED <<agent, turns, questions>>
    BY <1>4 DEF StartRun, Hold, rows
  <2> QED
    BY <2>1, CostFrame DEF CostInv
<1>5. CASE RecordAdapterOwner \/ \E o \in Outcomes \ {"none"} : EndRun(o)
  <2>1. /\ phase \in {"registered", "session"} /\ phase' \in {"session", "ended"} /\ cur' = cur
        /\ UNCHANGED <<agent, turns, questions>>
    BY <1>5 DEF RecordAdapterOwner, EndRun, Hold, rows
  <2> QED
    BY <2>1, CostFrame DEF CostInv
<1>6. CASE CountTurn
  <2>1. /\ phase = "ended" /\ phase' = "counted" /\ UNCHANGED <<cur, agent, questions>>
        /\ turns' = [turns EXCEPT ![cur] = @ + 1]
    BY <1>6 DEF CountTurn
  <2>2. cur \in Agents /\ TaskOf(cur) \in Tasks /\ cur \in AgentsOf(TaskOf(cur))
    BY <2>1, HolderFacts DEF Inv
  <2>3. turns[cur] < Budget /\ agent[cur] = "runnable"
    BY <2>1 DEF CostInv
  <2>4. /\ turns'[cur] = turns[cur] + 1 /\ turns[cur] \in Nat
        /\ \A a \in Agents : a # cur => turns'[a] = turns[a]
    BY <1>1, <2>1, <2>2
  <2>5. ASSUME NEW a \in Agents
        PROVE  turns'[a] <= Budget /\ (questions'[a] > 0 => turns'[a] > 0)
    BY <1>1, <2>1, <2>3, <2>4 DEF CostInv
  <2>6. turns'[cur] > 0
    BY <2>4
  <2>7. ASSUME NEW t \in Tasks
        PROVE  Sponsored(t)' = Sponsored(t)
    <3>1. ASSUME NEW a \in AgentsOf(t)
          PROVE  (turns'[a] > 0 \/ agent'[a] = "runnable")
                   <=> (turns[a] > 0 \/ agent[a] = "runnable")
      BY <2>1, <2>3, <2>4, AgentFacts
    <3> QED
      BY <3>1 DEF Sponsored
  <2>8. ASSUME NEW t \in Tasks
        PROVE  /\ Cardinality(Sponsored(t)') <= turns'[WorkerOf(t)]
               /\ cur = WorkerOf(t) => Cardinality(Sponsored(t)') < turns'[WorkerOf(t)]
    <3>1. Cardinality(Sponsored(t)) <= turns[WorkerOf(t)] /\ Cardinality(Sponsored(t)) \in Nat
      BY SponsoredFacts DEF CostInv
    <3>2. WorkerOf(t) \in Agents /\ turns[WorkerOf(t)] \in Nat
      BY <1>1, AgentFacts
    <3>3. CASE cur = WorkerOf(t)
      BY <2>4, <2>7, <3>1, <3>2, <3>3
    <3>4. CASE cur # WorkerOf(t)
      BY <2>4, <2>7, <3>1, <3>2, <3>4
    <3> QED
      BY <3>3, <3>4
  <2>9. ~IsCritic(cur) => Affords(TaskOf(cur))'
    BY <2>1, <2>2, <2>8, WorkerFacts DEF Affords
  <2> HIDE DEF IsCritic, TaskOf
  <2> QED
    BY <2>1, <2>5, <2>6, <2>8, <2>9 DEF CostInv, Affords
<1> QED
  BY <1>2, <1>3, <1>4, <1>5, <1>6 DEF Turn

\* A handler wakes a critic that is paid for, by an earlier turn or by this one.
LEMMA HandlerCost == ASSUME Inv, CostInv, Handler PROVE CostInv'
<1>1. phase = "counted" /\ UNCHANGED <<agent, turns, questions>>
  BY DEF Handler, Handles, OnAsk, OnYield, OnFail, WorkerDoneRework, WorkerDoneChecked,
         HandlerError, ApplyVerdict, rows
<1>2. /\ cur \in AgentsOf(TaskOf(cur)) /\ TaskOf(cur) \in Tasks
      /\ status[TaskOf(cur)] \in ActiveStatuses
  BY <1>1, HolderFacts DEF Inv, HolderInv
<1>3. attempts[TaskOf(cur)] \in Nat /\ attempts[TaskOf(cur)] + 1 \in Nat
  <2>1. attempts \in [Tasks -> Nat]
    BY DEF Inv, TypeOK
  <2>2. attempts[TaskOf(cur)] \in Nat
    BY <1>2, <2>1
  <2> QED
    BY <2>2
<1>4. ASSUME NEW w, Perform(w), Paid(w) PROVE CostInv'
  <2>1. phase' = "writing" /\ cur' = cur /\ todo' = w /\ turns[cur] > 0
    BY <1>1, <1>4 DEF Perform, CostInv
  <2>2. Paid(todo')
    BY <1>4, <2>1
  <2> HIDE DEF Paid
  <2> QED
    BY <1>1, <2>1, <2>2, CostFrame
<1>5. ASSUME NEW w, Perform(w), Plain(w) PROVE CostInv'
  BY <1>4, <1>5, Zenon DEF Plain, Paid
<1>6. /\ \A n \in Nat : Plain(Block(cur, n)) /\ Plain(Rework(TaskOf(cur), n))
      /\ Plain(FailWrites(TaskOf(cur)))
      /\ \A b \in BOOLEAN : Plain(AskWrites(b))
      /\ \A v \in Verdicts : Plain(VerdictWrites(v))
      /\ Plain(<<SetAgent(cur, "runnable")>>)
  BY <1>1, <1>2, PlainWrites DEF Inv
<1> HIDE DEF Plain, Paid
<1>7. CASE OnAsk \/ OnYield \/ OnFail
  BY <1>5, <1>6, <1>7, Zenon DEF OnAsk, OnYield, OnFail
<1>8. CASE WorkerDoneRework \/ HandlerError
  BY <1>3, <1>5, <1>6, <1>8 DEF WorkerDoneRework, HandlerError
<1>9. CASE WorkerDoneChecked
  <2>1. ~IsCritic(cur) /\ Perform(ReviewWrites(TaskOf(cur)))
    BY <1>9 DEF WorkerDoneChecked
  <2>2. Affords(TaskOf(cur))
    BY <1>1, <2>1 DEF CostInv
  <2>3. Paid(ReviewWrites(TaskOf(cur)))
    <3> DEFINE w == ReviewWrites(TaskOf(cur))
    <3>1. Len(w) = 3 /\ w[2].state = "blocked" /\ w[3].op = "task"
      BY DEF ReviewWrites, SetAgent, SetTask
    <3>2. \A i \in 1..Len(w) : i = 1 \/ i = 2 \/ i = 3
      BY <3>1
    <3> HIDE DEF w
    <3> QED
      BY <2>1, <2>2, <3>1, <3>2 DEF Paid, WakesCritic, w
  <2> QED
    BY <1>4, <2>1, <2>3
<1>10. CASE \E v \in Verdicts : ApplyVerdict(v)
  BY <1>5, <1>6, <1>10, Zenon DEF ApplyVerdict
<1> QED
  BY <1>7, <1>8, <1>9, <1>10 DEF Handler

\* The commits of a handler wake at most one new critic, with the first of them.
LEMMA WriteCost == ASSUME Inv, CostInv, Write PROVE CostInv'
<1>1. /\ phase = "writing" /\ todo # <<>> /\ todo \in Seq(Writes) /\ Paid(todo)
      /\ turns[cur] > 0
  BY DEF Write, Next1, WriteTask, WriteAgent, WriteQuestion, Merge, MergeConflict, MergeError,
         WriteAccept, Inv, TypeOK, CostInv
<1>2. cur \in Agents /\ cur \in AgentsOf(TaskOf(cur)) /\ TaskOf(cur) \in Tasks
  BY <1>1, HolderFacts DEF Inv
<1>3. Plain(Tail(todo))
  BY <1>1, TailPlain
<1>4. ASSUME NEW w, Plain(w), Perform(w) \/ Continue(w)
      PROVE  /\ phase' \in {"free", "writing"}
             /\ phase' = "writing" => cur' = cur /\ Plain(todo')
  BY <1>4, Zenon DEF Continue, Perform, Release
<1>5. ASSUME NEW w, Plain(w), Perform(w) \/ Continue(w), UNCHANGED <<agent, turns, questions>>
      PROVE  CostInv'
  <2>1. /\ phase' \in {"free", "writing"}
        /\ phase' = "writing" => cur' = cur /\ Plain(todo')
    BY <1>4, <1>5
  <2>2. phase' = "writing" => Paid(todo')
    BY <2>1, Zenon DEF Plain, Paid
  <2> HIDE DEF Plain, Paid
  <2> QED
    BY <1>1, <1>5, <2>1, <2>2, CostFrame
<1>6. CASE WriteTask \/ WriteAccept
  BY <1>3, <1>5, <1>6, Zenon DEF WriteTask, WriteAccept
<1>7. CASE WriteQuestion
  <2>1. Continue(Tail(todo)) /\ questions' = [questions EXCEPT ![cur] = @ + 1]
        /\ UNCHANGED <<agent, turns>>
    BY <1>7, Zenon DEF WriteQuestion
  <2>2. questions \in [Agents -> Nat]
    BY DEF Inv, TypeOK
  <2>3. \A a \in Agents : turns'[a] <= Budget /\ (questions'[a] > 0 => turns'[a] > 0)
    BY <1>1, <1>2, <2>1, <2>2 DEF CostInv
  <2>4. \A t \in Tasks : Cardinality(Sponsored(t)') <= turns'[WorkerOf(t)]
    BY <2>1 DEF CostInv, Sponsored
  <2>5. /\ phase' \in {"free", "writing"}
        /\ phase' = "writing" => cur' = cur /\ Plain(todo')
    BY <1>3, <1>4, <2>1
  <2>6. phase' = "writing" => Paid(todo)' /\ turns'[cur'] > 0
    BY <1>1, <2>1, <2>5, Zenon DEF Plain, Paid, WakesCritic
  <2> HIDE DEF Paid, Sponsored
  <2> QED
    BY <2>3, <2>4, <2>5, <2>6 DEF CostInv
<1>8. CASE WriteAgent
  <2> DEFINE w == Head(todo)
             t == TaskOf(cur)
  <2>1. /\ w.op = "agent" /\ agent' = [agent EXCEPT ![w.who] = w.state]
        /\ Continue(Tail(todo)) /\ UNCHANGED <<turns, questions>>
    BY <1>8 DEF WriteAgent, Next1
  <2>2. w.who \in AgentsOf(t)
    <3>1. WritesOf(t)
      BY <1>1 DEF Inv, HolderInv
    <3>2. w \in HandlerWrites(AgentsOf(t)) \/ w = Accept \/ w = SetAgent(WorkerOf(t), "done")
      BY <1>1, <3>1, HeadTailProperties DEF WritesOf
    <3>3. WorkerOf(t) \in AgentsOf(t) /\ w.op = "agent"
      BY <1>2, <2>1, AgentFacts
    <3> HIDE DEF w, t
    <3>4. CASE w \in HandlerWrites(AgentsOf(t))
      BY <3>3, <3>4 DEF HandlerWrites, SendQuestion, Integrate
    <3>5. CASE w = Accept \/ w = SetAgent(WorkerOf(t), "done")
      BY <3>3, <3>5 DEF Accept, SetAgent
    <3> QED
      BY <3>2, <3>4, <3>5
  <2>3. WakesCritic(w) => w.who = cur \/ (~IsCritic(cur) /\ Affords(t))
    <3>1. Len(todo) \in Nat \ {0} /\ w = todo[1]
      BY <1>1, LenProperties, EmptySeq
    <3> QED
      BY <1>1, <3>1 DEF Paid
  <2>4. agent \in [Agents -> AgentStates]
    BY DEF Inv, TypeOK
  <2>5. \A a \in Agents : agent'[a] = IF a = w.who THEN w.state ELSE agent[a]
    BY <1>2, <2>1, <2>2, <2>4, AgentFacts
  <2>6. ASSUME NEW u \in Tasks
        PROVE  Cardinality(Sponsored(u)') <= turns'[WorkerOf(u)]
    <3>1. CASE u # t \/ ~WakesCritic(w) \/ w.who = cur
      <4>1. \A a \in AgentsOf(u) : IsCritic(a) /\ agent'[a] = "runnable"
                                     => agent[a] = "runnable" \/ turns[a] > 0
        <5> SUFFICES ASSUME NEW a \in AgentsOf(u), IsCritic(a), agent'[a] = "runnable",
                            a = w.who
                     PROVE  turns[a] > 0
          BY <2>5, AgentFacts
        <5>1. u = t /\ WakesCritic(w)
          BY <1>2, <2>1, <2>2, <2>5, AgentFacts DEF WakesCritic
        <5> QED
          BY <1>1, <3>1, <5>1
      <4> QED
        BY <2>1, <4>1, FewerSponsored DEF Inv
    <3>2. CASE u = t /\ WakesCritic(w) /\ w.who # cur
      <4>1. Sponsored(u)' \in SUBSET (Sponsored(u) \cup {w.who})
        BY <2>1, <2>5, AgentFacts DEF Sponsored
      <4>2. IsFiniteSet(Sponsored(u) \cup {w.who})
        BY SponsoredFacts, FS_AddElement
      <4>3. /\ Cardinality(Sponsored(u) \cup {w.who}) \in Nat
            /\ Cardinality(Sponsored(u)') <= Cardinality(Sponsored(u) \cup {w.who})
            /\ Cardinality(Sponsored(u)') \in Nat
        BY <4>1, <4>2, FS_Subset, FS_CardinalityType
      <4>4. Cardinality(Sponsored(u) \cup {w.who}) <= Cardinality(Sponsored(u)) + 1
        BY <2>2, <3>2, SponsoredFacts
      <4>5. /\ Cardinality(Sponsored(u)) < turns[WorkerOf(u)] /\ turns[WorkerOf(u)] \in Nat
            /\ Cardinality(Sponsored(u)) \in Nat
        BY <2>3, <3>2, SponsoredFacts, AgentFacts DEF Affords, Inv, TypeOK
      <4> HIDE DEF w, t
      <4> QED
        BY <2>1, <4>3, <4>4, <4>5
    <3> QED
      BY <3>1, <3>2
  <2>7. /\ phase' \in {"free", "writing"}
        /\ phase' = "writing" => cur' = cur /\ Plain(todo')
    BY <1>3, <1>4, <2>1
  <2>8. phase' = "writing" => Paid(todo)' /\ turns'[cur'] > 0
    BY <1>1, <2>1, <2>7, Zenon DEF Plain, Paid, WakesCritic
  <2>9. \A a \in Agents : turns'[a] <= Budget /\ (questions'[a] > 0 => turns'[a] > 0)
    BY <2>1 DEF CostInv
  <2> HIDE DEF Paid, Sponsored, w, t
  <2> QED
    BY <2>6, <2>7, <2>8, <2>9 DEF CostInv
<1>9. CASE Merge \/ MergeConflict \/ MergeError
  <2>1. status[TaskOf(cur)] \in ActiveStatuses /\ attempts[TaskOf(cur)] \in Nat
    <3>1. todo[1].op = "integrate" /\ WritesOf(TaskOf(cur))
      BY <1>1, <1>9 DEF Merge, MergeConflict, MergeError, Next1, Inv, HolderInv
    <3>2. todo # <<SetAgent(WorkerOf(TaskOf(cur)), "done")>>
      BY <3>1 DEF SetAgent
    <3>3. attempts \in [Tasks -> Nat]
      BY DEF Inv, TypeOK
    <3> QED
      BY <1>2, <3>1, <3>2, <3>3 DEF WritesOf
  <2>2. /\ \A n \in Nat : Plain(Block(cur, n)) /\ Plain(Rework(TaskOf(cur), n))
        /\ Plain(<<Accept, SetAgent(WorkerOf(TaskOf(cur)), "done")>>)
    BY <1>1, <2>1, PlainWrites DEF Inv
  <2>3. UNCHANGED <<agent, turns, questions>>
    BY <1>9 DEF Merge, MergeConflict, MergeError, rows
  <2>4. \E w : Plain(w) /\ Perform(w)
    BY <1>9, <2>1, <2>2, Zenon DEF Merge, MergeConflict, MergeError
  <2> QED
    BY <1>5, <2>3, <2>4
<1> QED
  BY <1>6, <1>7, <1>8, <1>9 DEF Write

\* A requeued task starts again from nothing.
LEMMA RequeueCost ==
  ASSUME TypeOK, CostInv, NEW t \in Tasks, RequeueRows(t), phase' = "free"
  PROVE  CostInv'
<1>1. /\ \A a \in Agents : turns'[a] = IF TaskOf(a) = t THEN 0 ELSE turns[a]
      /\ \A a \in Agents : questions'[a] = IF TaskOf(a) = t THEN 0 ELSE questions[a]
      /\ \A a \in Agents : agent'[a] = IF TaskOf(a) = t /\ agent[a] # "absent"
                                       THEN "blocked" ELSE agent[a]
  BY DEF RequeueRows, SetAgentsOf
<1>2. Budget \in Nat
  OBVIOUS
<1>3. \A a \in Agents : turns'[a] <= Budget /\ (questions'[a] > 0 => turns'[a] > 0)
  BY <1>1, <1>2 DEF CostInv
<1>4. ASSUME NEW u \in Tasks
      PROVE  Cardinality(Sponsored(u)') <= turns'[WorkerOf(u)]
  <2>1. CASE u = t
    <3>1. Sponsored(u)' = {}
      <4>1. \A a \in AgentsOf(u) : turns'[a] = 0 /\ agent'[a] # "runnable"
        BY <1>1, <2>1, AgentFacts
      <4> QED
        BY <4>1 DEF Sponsored
    <3>2. turns'[WorkerOf(u)] = 0
      BY <1>1, <2>1, AgentFacts
    <3> QED
      BY <3>1, <3>2, FS_EmptySet
  <2>2. CASE u # t
    <3>1. \A a \in AgentsOf(u) : turns'[a] = turns[a] /\ agent'[a] = agent[a]
      BY <1>1, <2>2, AgentFacts
    <3>2. Sponsored(u)' = Sponsored(u) /\ turns'[WorkerOf(u)] = turns[WorkerOf(u)]
      BY <3>1, AgentFacts DEF Sponsored
    <3> QED
      BY <3>2 DEF CostInv
  <2> QED
    BY <2>1, <2>2
<1> QED
  BY <1>3, <1>4, CostFree

\* The owner's commands wake nobody for free: an answer goes to an agent that asked in
\* a counted turn, and resume --retry wakes workers only.
LEMMA OwnerCost == ASSUME Inv, CostInv, Owner PROVE CostInv'
<1> USE DEF Inv
<1>1. ASSUME UNCHANGED turns, phase' = "free",
             \A a \in Agents : IsCritic(a) /\ agent'[a] = "runnable"
                                 => agent[a] = "runnable" \/ turns[a] > 0,
             \A a \in Agents : questions'[a] > 0 => questions[a] > 0
      PROVE  CostInv'
  <2>1. \A t \in Tasks : Cardinality(Sponsored(t)') <= turns'[WorkerOf(t)]
    BY <1>1, FewerSponsored, AgentFacts
  <2>2. \A a \in Agents : turns'[a] <= Budget /\ (questions'[a] > 0 => turns'[a] > 0)
    BY <1>1 DEF CostInv
  <2> QED
    BY <1>1, <2>1, <2>2, CostFree
<1>2. ASSUME NEW t \in Tasks, AddTask(t) PROVE CostInv'
  <2>1. UNCHANGED <<agent, turns, questions, phase, cur, todo>>
    BY <1>2 DEF AddTask, holder
  <2>2. phase \in {"counted", "writing"} => turns[cur] > 0
    BY DEF CostInv
  <2> QED
    BY <2>1 DEF CostInv, Affords, Sponsored, Paid, WakesCritic
<1>3. ASSUME NEW t \in Tasks, CancelTask(t) PROVE CostInv'
  <2>1. /\ phase' = "free" /\ UNCHANGED <<turns, questions>>
        /\ \A a \in Agents : agent'[a] = "runnable" => agent[a] = "runnable"
    BY <1>3 DEF CancelTask, holder, SetAgentsOf
  <2> QED
    BY <1>1, <2>1
<1>4. ASSUME NEW t \in Tasks, RequeueTask(t) PROVE CostInv'
  BY <1>4, RequeueCost DEF RequeueTask, holder
<1>5. ASSUME NEW t \in Tasks, DiscardBranch(t) \/ RevertMerge(t) PROVE CostInv'
  <2>1. phase' \in {"discarding", "reverting"} /\ UNCHANGED <<agent, turns, questions>>
    BY <1>5 DEF DiscardBranch, RevertMerge, Hold, rows
  <2> QED
    BY <2>1, CostFrame
<1>6. CASE RequeueFresh
  <2>1. TaskOf(cur) \in Tasks /\ RequeueRows(TaskOf(cur)) /\ phase' = "free"
    BY <1>6, HolderFacts DEF RequeueFresh, Release
  <2> QED
    BY <2>1, RequeueCost
<1>7. CASE RollbackTask
  <2>1. phase' = "free" /\ UNCHANGED <<agent, turns, questions>>
    BY <1>7 DEF RollbackTask, Release
  <2> QED
    BY <2>1, CostFrame
<1>8. ASSUME NEW a \in Agents, AnswerMessage(a) PROVE CostInv'
  <2>1. /\ phase' = "free" /\ UNCHANGED turns /\ questions[a] > 0
        /\ agent' = [agent EXCEPT ![a] = "runnable"]
        /\ questions' = [questions EXCEPT ![a] = @ - 1]
    BY <1>8 DEF AnswerMessage, holder
  <2>2. agent \in [Agents -> AgentStates] /\ questions \in [Agents -> Nat] /\ turns[a] > 0
    BY <2>1 DEF TypeOK, CostInv
  <2>3. \A b \in Agents : agent'[b] = "runnable" => agent[b] = "runnable" \/ turns[b] > 0
    BY <2>1, <2>2
  <2>4. \A b \in Agents : questions'[b] > 0 => questions[b] > 0
    BY <2>1, <2>2
  <2> QED
    BY <1>1, <2>1, <2>3, <2>4
<1>9. ASSUME NEW a \in Agents, RecoverRun(a) PROVE CostInv'
  <2>1. /\ phase' = "free" /\ UNCHANGED <<turns, questions>>
        /\ agent' = [agent EXCEPT ![a] = "blocked"]
    BY <1>9 DEF RecoverRun, holder
  <2>2. agent \in [Agents -> AgentStates]
    BY DEF TypeOK
  <2>3. \A b \in Agents : agent'[b] = "runnable" => agent[b] = "runnable"
    BY <2>1, <2>2
  <2> QED
    BY <1>1, <2>1, <2>3
<1>10. CASE RetryBlockedTasks
  <2>1. /\ phase' = "free" /\ UNCHANGED <<turns, questions>>
        /\ \A a \in Agents : IsCritic(a) => agent'[a] = agent[a]
    BY <1>10 DEF RetryBlockedTasks, holder
  <2> QED
    BY <1>1, <2>1
<1> QED
  BY <1>2, <1>3, <1>4, <1>5, <1>6, <1>7, <1>8, <1>9, <1>10 DEF Owner

\* Sessions and crashes change no row of an agent.
LEMMA OtherCost ==
  ASSUME Inv, CostInv, Session \/ Crash \/ UNCHANGED vars
  PROVE  CostInv'
<1>1. CASE Crash
  <2>1. phase' = "free" /\ UNCHANGED <<agent, turns, questions>>
    BY <1>1 DEF Crash, Release, rows
  <2> QED
    BY <2>1, CostFrame
<1>2. CASE Session \/ UNCHANGED vars
  <2>1. UNCHANGED <<agent, turns, questions, phase, cur, todo>>
    BY <1>2 DEF Session, CommitWork, OrphanExits, vars, rows, holder
  <2> QED
    BY <2>1 DEF CostInv, Affords, Sponsored, Paid, WakesCritic
<1> QED
  BY <1>1, <1>2

\* The review loop is bounded by the budget, whoever crashes, answers or retries: a
\* task is worked on for Budget turns of its worker, and reviewed by no more critics.
THEOREM CostBounded == Spec => []CostIsBounded
<1>1. Init => CostInv
  <2> SUFFICES ASSUME Init PROVE CostInv
    OBVIOUS
  <2>1. \A t \in Tasks : Sponsored(t) = {} /\ turns[WorkerOf(t)] = 0
    BY AgentFacts DEF Init, Sponsored
  <2>2. \A t \in Tasks : Cardinality(Sponsored(t)) <= turns[WorkerOf(t)]
    BY <2>1, FS_EmptySet
  <2> QED
    BY <2>2 DEF Init, CostInv
<1>2. Inv /\ CostInv /\ [Next]_vars => CostInv'
  BY SelectionCost, TurnCost, HandlerCost, WriteCost, OwnerCost, OtherCost DEF Next
<1>3. Inv /\ CostInv => CostIsBounded
  <2> SUFFICES ASSUME Inv, CostInv, NEW t \in Tasks
               PROVE  /\ \A a \in AgentsOf(t) : turns[a] <= Budget
                      /\ Cardinality({a \in AgentsOf(t) : IsCritic(a) /\ turns[a] > 0})
                           <= turns[WorkerOf(t)]
    BY DEF CostIsBounded
  <2> DEFINE S == {a \in AgentsOf(t) : IsCritic(a) /\ turns[a] > 0}
  <2>1. S \in SUBSET Sponsored(t)
    BY DEF Sponsored
  <2>2. /\ Cardinality(S) \in Nat /\ Cardinality(S) <= Cardinality(Sponsored(t))
        /\ Cardinality(Sponsored(t)) \in Nat
    BY <2>1, SponsoredFacts
  <2>3. turns[WorkerOf(t)] \in Nat /\ Cardinality(Sponsored(t)) <= turns[WorkerOf(t)]
    BY AgentFacts DEF Inv, TypeOK, CostInv
  <2>4. Cardinality(S) <= turns[WorkerOf(t)]
    BY <2>2, <2>3
  <2>5. \A a \in AgentsOf(t) : turns[a] <= Budget
    BY AgentFacts DEF CostInv
  <2> QED
    BY <2>4, <2>5
<1> QED
  BY <1>1, <1>2, <1>3, Invariance, PTL DEF Spec

=============================================================================
