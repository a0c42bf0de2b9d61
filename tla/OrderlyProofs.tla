--------------------------- MODULE OrderlyProofs ---------------------------
(***************************************************************************)
(* Proofs that OrderlyInv is an invariant of the lifecycle under an        *)
(* orderly owner, and GoingInv without crashes under any owner, for any    *)
(* tasks, dependencies and bounds, and that the properties of the review   *)
(* loop follow from them.                                                  *)
(***************************************************************************)
EXTENDS LifecycleOrderly, LifecycleProofs

(***************************************************************************)
(* Lists of commits.                                                       *)
(***************************************************************************)

\* One commit put before a list.
LEMMA Prepend ==
  ASSUME NEW S, NEW a \in Seq(S), NEW b \in Seq(S), NEW c \in Seq(S),
         Len(a) = 1, Len(c) = Len(b) + 1, c[1] = a[1], \A i \in 1..Len(b) : c[i + 1] = b[i]
  PROVE  a \o b = c
<1>1. /\ a \o b \in Seq(S) /\ Len(a \o b) = Len(a) + Len(b)
      /\ \A i \in 1..Len(a) + Len(b) : (a \o b)[i] = IF i <= Len(a) THEN a[i] ELSE b[i - Len(a)]
  BY ConcatProperties
<1>2. Len(b) \in Nat /\ Len(a \o b) = Len(c)
  BY <1>1
<1>3. ASSUME NEW i \in 1..Len(c)
      PROVE  (a \o b)[i] = c[i]
  <2>1. CASE i = 1
    BY <1>1, <1>2, <2>1
  <2>2. CASE i # 1
    <3>1. i - 1 \in 1..Len(b) /\ i = (i - 1) + 1
      BY <1>2, <2>2
    <3>2. c[i] = b[i - 1]
      BY <3>1
    <3> QED
      BY <1>1, <1>2, <2>2, <3>2
  <2> QED
    BY <2>1, <2>2
<1> QED
  BY <1>1, <1>2, <1>3, SeqEqual

\* The lists the handlers put together.
LEMMA Lists ==
  /\ \A x, y : <<>> \o <<x, y>> = <<x, y>> /\ <<x>> \o <<y>> = <<x, y>>
  /\ \A x, y, z : <<x>> \o <<y, z>> = <<x, y, z>>
  /\ \A x, y, z, u : <<x>> \o <<y, z, u>> = <<x, y, z, u>>
<1>1. ASSUME NEW x, NEW y
      PROVE  <<x>> \o <<y>> = <<x, y>>
  <2> DEFINE a == <<x>>
             S == {x, y}
             b == <<y>>
             c == <<x, y>>
  <2>1. a \in Seq(S) /\ Len(a) = 1 /\ b \in Seq(S) /\ Len(b) = 1
    OBVIOUS
  <2>2. c \in Seq(S) /\ Len(c) = 2 /\ c[1] = a[1]
    OBVIOUS
  <2>3. c[2] = b[1]
    OBVIOUS
  <2> HIDE DEF a, S, b, c
  <2>4. \A i \in 1..Len(b) : c[i + 1] = b[i]
    BY <2>1, <2>3
  <2>5. Len(c) = Len(b) + 1
    BY <2>1, <2>2
  <2>6. a \o b = c
    BY <2>1, <2>2, <2>4, <2>5, Prepend, Zenon
  <2> QED
    BY <2>6 DEF a, b, c
<1>2. ASSUME NEW x, NEW y, NEW z
      PROVE  <<x>> \o <<y, z>> = <<x, y, z>>
  <2> DEFINE a == <<x>>
             S == {x, y, z}
             b == <<y, z>>
             c == <<x, y, z>>
  <2>1. a \in Seq(S) /\ Len(a) = 1 /\ b \in Seq(S) /\ Len(b) = 2
    OBVIOUS
  <2>2. c \in Seq(S) /\ Len(c) = 3 /\ c[1] = a[1]
    OBVIOUS
  <2>3. c[2] = b[1] /\ c[3] = b[2]
    OBVIOUS
  <2> HIDE DEF a, S, b, c
  <2>4. \A i \in 1..Len(b) : c[i + 1] = b[i]
    BY <2>1, <2>3
  <2>5. Len(c) = Len(b) + 1
    BY <2>1, <2>2
  <2>6. a \o b = c
    BY <2>1, <2>2, <2>4, <2>5, Prepend, Zenon
  <2> QED
    BY <2>6 DEF a, b, c
<1>3. ASSUME NEW x, NEW y, NEW z, NEW u
      PROVE  <<x>> \o <<y, z, u>> = <<x, y, z, u>>
  <2> DEFINE a == <<x>>
             S == {x, y, z, u}
             b == <<y, z, u>>
             c == <<x, y, z, u>>
  <2>1. a \in Seq(S) /\ Len(a) = 1 /\ b \in Seq(S) /\ Len(b) = 3
    OBVIOUS
  <2>2. c \in Seq(S) /\ Len(c) = 4 /\ c[1] = a[1]
    OBVIOUS
  <2>3. c[2] = b[1] /\ c[3] = b[2] /\ c[4] = b[3]
    OBVIOUS
  <2> HIDE DEF a, S, b, c
  <2>4. \A i \in 1..Len(b) : c[i + 1] = b[i]
    BY <2>1, <2>3
  <2>5. Len(c) = Len(b) + 1
    BY <2>1, <2>2
  <2>6. a \o b = c
    BY <2>1, <2>2, <2>4, <2>5, Prepend, Zenon
  <2> QED
    BY <2>6 DEF a, b, c
<1>4. \A x, y : <<>> \o <<x, y>> = <<x, y>>
  OBVIOUS
<1> QED
  BY <1>1, <1>2, <1>3, <1>4

USE ConstantsAssumption DEF Phases, TurnPhases, LockFree

(***************************************************************************)
(* Agents, and what the steps of a turn leave of a list of commits.        *)
(***************************************************************************)

\* First and remaining commits of the lists the handlers write.
LEMMA HeadTail ==
  /\ \A x : Head(<<x>>) = x /\ Tail(<<x>>) = <<>>
  /\ \A x, y : Head(<<x, y>>) = x /\ Tail(<<x, y>>) = <<y>>
  /\ \A x, y, z : Head(<<x, y, z>>) = x /\ Tail(<<x, y, z>>) = <<y, z>>
OBVIOUS

\* The kinds of commits, and their fields.
LEMMA CommitFacts ==
  /\ \A a, s : LET w == SetAgent(a, s) IN w.op = "agent" /\ w.who = a /\ w.state = s
  /\ \A s, n : LET w == SetTask(s, n) IN w.op = "task" /\ w.status = s /\ w.attempts = n
  /\ SendQuestion.op = "question" /\ Integrate.op = "integrate" /\ Accept.op = "accept"
BY DEF SetAgent, SetTask, SendQuestion, Integrate, Accept

\* A task is as settled as it was when nothing of it changes.
LEMMA SettledFrame ==
  ASSUME NEW t \in Tasks, Settled(t),
         \A a \in AgentsOf(t) : agent'[a] = agent[a] /\ questions'[a] = questions[a],
         status'[t] = status[t], attempts'[t] = attempts[t],
         base'[t] = base[t], ahead'[t] = ahead[t], verified'[t] = verified[t]
  PROVE  Settled(t)'
<1>1. \A a \in AgentsOf(t) : Checked(a)' <=> Checked(a)
  BY AgentFacts DEF Checked
<1> QED
  BY <1>1 DEF Settled, Calm, InHands, Asked

\* A task that a step leaves blocked, with nothing alive, is settled.
LEMMA BlockedSettled ==
  ASSUME NEW t \in Tasks, Calm(t, {})', NoQuestions(t)', status'[t] = "blocked"
  PROVE  Settled(t)'
BY DEF Settled, Calm, NoQuestions

\* A settled task with questions, that was not cancelled, is blocked.
LEMMA SettledFacts ==
  ASSUME Inv, NEW t \in Tasks, Settled(t)
  PROVE  /\ status[t] \notin {"blocked", "cancelled"} => NoQuestions(t)
         /\ status[t] \notin {"in_progress", "in_review"} => Calm(t, {})
<1>1. \A a \in AgentsOf(t) : questions[a] = 0 \/ questions[a] > 0
  BY AgentFacts DEF Inv, TypeOK
<1> QED
  BY <1>1 DEF Settled, NoQuestions, Calm, Asked, InHands

(***************************************************************************)
(* The handlers: what each decides will settle the task.                   *)
(***************************************************************************)

\* The step of the lock holder leaves its task t settled, or with commits
\* that will settle it.
Settles(t) ==
  \/ phase' = "free" /\ Settled(t)'
  \/ phase' = "writing" /\ cur' = cur /\ Settling(t)'

\* What the scheduler knows of its task t when a handler starts.
InTurn(t) ==
  /\ cur \in AgentsOf(t) /\ attempts[t] \in Nat
  /\ Calm(t, {cur}) /\ NoQuestions(t) /\ InHands(t, status[t], attempts[t], cur)

\* It knows it from selection to the handler.
LEMMA TurnFacts ==
  ASSUME Inv, OrderlyInv, phase \in TurnPhases
  PROVE  TaskOf(cur) \in Tasks /\ InTurn(TaskOf(cur))
<1> DEFINE t == TaskOf(cur)
<1>1. t \in Tasks /\ cur \in AgentsOf(t) /\ attempts[t] \in Nat
  BY HolderFacts DEF Inv, TypeOK
<1>2. Settled(t) /\ agent[cur] = "runnable"
  BY <1>1 DEF OrderlyInv
<1>3. Calm(t, {cur}) /\ InHands(t, status[t], attempts[t], cur)
  BY <1>1, <1>2 DEF Settled
<1>4. NoQuestions(t)
  BY <1>1, <1>2, <1>3, SettledFacts DEF InHands
<1> QED
  BY <1>1, <1>3, <1>4 DEF InTurn

\* The decision on the commits w changes no row and no branch.
Decides(w) == UNCHANGED <<rows, repo, procs>> /\ Perform(w)

\* What the decision leaves alone.
LEMMA DecisionFrame ==
  ASSUME NEW w, Decides(w), NEW t \in Tasks
  PROVE  /\ phase' = "writing" /\ cur' = cur /\ todo' = w
         /\ \A a \in AgentsOf(t) : Checked(a)' <=> Checked(a)
         /\ \A A : Calm(t, A)' <=> Calm(t, A)
         /\ NoQuestions(t)' <=> NoQuestions(t)
         /\ UNCHANGED <<status, attempts, agent, questions, base, ahead, verified>>
BY DEF Decides, Perform, rows, repo, procs, Checked, Calm, NoQuestions

\* Block settles a task without questions whose other agents are calm, also
\* behind commits that wake nobody.
LEMMA DecidesBlock ==
  ASSUME NEW t \in Tasks, Calm(t, {cur}), NoQuestions(t), NEW n, NEW x, NEW y, NEW w, Decides(w),
         \/ w = <<SetTask("blocked", n), SetAgent(cur, "blocked")>>
         \/ w = <<x, SetTask("blocked", n), SetAgent(cur, "blocked")>> /\ Quiet(x)
         \/ w = <<x, y, SetTask("blocked", n), SetAgent(cur, "blocked")>> /\ Quiet(x) /\ Quiet(y)
  PROVE  Settles(t)
<1> DEFINE b == SetTask("blocked", n)
           e == SetAgent(cur, "blocked")
<1>1. b.op = "task" /\ b.status = "blocked" /\ Quiet(b) /\ Quiet(e)
  BY CommitFacts DEF Quiet
<1>2. Quiet(x)' <=> Quiet(x)
  BY DecisionFrame DEF Quiet
<1>3. Quiet(y)' <=> Quiet(y)
  BY DecisionFrame DEF Quiet
<1>4. /\ Calm(t, {cur})' /\ NoQuestions(t)' /\ todo' = w
      /\ phase' = "writing" /\ cur' = cur /\ Quiet(b)' /\ Quiet(e)'
      /\ SetAgent(cur, "blocked")' = e
  BY <1>1, DecisionFrame DEF Quiet
<1> HIDE DEF b, e
<1>5. ToBlock(t)'
  <2>1. CASE w = <<b, e>>
    <3>1. Len(todo') = 2 /\ todo'[1] = b /\ todo'[2] = e
      BY <1>4, <2>1
    <3> QED
      BY <1>1, <1>4, <3>1 DEF ToBlock, Quiet
  <2>2. CASE w = <<x, b, e>> /\ Quiet(x)
    <3>1. Len(todo') = 3 /\ todo'[1] = x /\ todo'[2] = b /\ todo'[3] = e
      BY <1>4, <2>2
    <3> QED
      BY <1>1, <1>2, <1>4, <2>2, <3>1 DEF ToBlock, Quiet
  <2>3. CASE w = <<x, y, b, e>> /\ Quiet(x) /\ Quiet(y)
    <3>1. Len(todo') = 4 /\ todo'[1] = x /\ todo'[2] = y /\ todo'[3] = b /\ todo'[4] = e
      BY <1>4, <2>3
    <3> QED
      BY <1>1, <1>2, <1>3, <1>4, <2>3, <3>1 DEF ToBlock, Quiet
  <2> QED
    BY <2>1, <2>2, <2>3 DEF b, e
<1> QED
  BY <1>4, <1>5 DEF Settles, Settling

\* So does waking the agent a in whose hands the task will be.
LEMMA DecidesRun ==
  ASSUME NEW t \in Tasks, NEW a \in AgentsOf(t), Calm(t, {a}), NoQuestions(t),
         NEW s, NEW n, InHands(t, s, n, a),
         Decides(<<SetTask(s, n), SetAgent(a, "runnable")>>)
  PROVE  Settles(t)
<1> DEFINE b == SetTask(s, n)
           e == SetAgent(a, "runnable")
<1>1. b.op = "task" /\ b.status = s /\ b.attempts = n
  BY CommitFacts
<1>2. /\ Calm(t, {a})' /\ NoQuestions(t)' /\ todo' = <<b, e>> /\ (Checked(a)' <=> Checked(a))
      /\ phase' = "writing" /\ cur' = cur
  BY DecisionFrame
<1>3. SetAgent(a, "runnable")' = e
  OBVIOUS
<1> HIDE DEF b, e
<1>4. Len(todo') = 2 /\ todo'[1] = b /\ todo'[2] = e
  BY <1>2
<1>5. InHands(t, s, n, a)'
  BY <1>2 DEF InHands
<1>6. ToRun(t, a)'
  BY <1>1, <1>2, <1>3, <1>4, <1>5 DEF ToRun
<1> QED
  BY <1>2, <1>6 DEF Settles, Settling

\* A handler that asks a question leaves a task that will be blocked on it.
LEMMA OnAskSettles ==
  ASSUME Inv, OrderlyInv, OnAsk, NEW t, t = TaskOf(cur)
  PROVE  Settles(t)
<1> DEFINE q == SendQuestion
           e == SetAgent(cur, "blocked")
           d == SetTask("blocked", attempts[t])
<1>1. phase \in TurnPhases
  BY DEF OnAsk, Handles
<1>2. t \in Tasks /\ InTurn(t)
  BY <1>1, TurnFacts
<1>3. PICK toOwner \in BOOLEAN : Decides(AskWrites(toOwner))
  BY DEF OnAsk, Decides
<1>4. AskWrites(toOwner) = <<q, e, d>> \/ AskWrites(toOwner) = <<e, d>>
  <2>1. /\ toOwner => AskWrites(toOwner) = <<q>> \o <<e, d>>
        /\ ~toOwner => AskWrites(toOwner) = <<>> \o <<e, d>>
    BY DEF AskWrites
  <2> HIDE DEF q, e, d
  <2> QED
    BY <2>1, Lists
<1>5. /\ Calm(t, {cur})' /\ (Checked(cur)' <=> Checked(cur)) /\ todo' = AskWrites(toOwner)
      /\ phase' = "writing" /\ cur' = cur /\ UNCHANGED <<attempts, questions>>
      /\ SetAgent(cur, "blocked")' = e /\ SetTask("blocked", attempts[t])' = d
  BY <1>2, <1>3, DecisionFrame DEF InTurn
<1>6. \A b \in AgentsOf(t) : questions'[b] = 0
  BY <1>2, <1>5 DEF InTurn, NoQuestions
<1>7. attempts'[t] < MaxAttempts /\ Checked(cur)' /\ cur \in AgentsOf(t)
  BY <1>2, <1>5 DEF InTurn, InHands
<1> HIDE DEF q, e, d
<1>8. ToAsk(t)'
  BY <1>4, <1>5, <1>6, <1>7 DEF ToAsk, q
<1> QED
  BY <1>5, <1>8 DEF Settles, Settling

\* A yielded turn leaves its agent to go on.
LEMMA OnYieldSettles ==
  ASSUME Inv, OrderlyInv, OnYield, NEW t, t = TaskOf(cur)
  PROVE  Settles(t)
<1>1. phase \in TurnPhases /\ Decides(<<SetAgent(cur, "runnable")>>)
  BY DEF OnYield, Handles, Decides
<1>2. t \in Tasks /\ InTurn(t)
  BY <1>1, TurnFacts
<1>3. /\ Calm(t, {cur})' /\ NoQuestions(t)' /\ (Checked(cur)' <=> Checked(cur))
      /\ todo' = <<SetAgent(cur, "runnable")>>
      /\ phase' = "writing" /\ cur' = cur /\ UNCHANGED <<status, attempts>>
  BY <1>1, <1>2, DecisionFrame DEF InTurn
<1>4. InHands(t, status[t], attempts[t], cur)'
  BY <1>2, <1>3 DEF InTurn, InHands
<1>5. ToRun(t, cur)'
  BY <1>3, <1>4 DEF ToRun
<1> QED
  BY <1>2, <1>3, <1>5 DEF Settles, Settling, InTurn

\* A failed turn, or one whose verdict is invalid, is retried by its agent or
\* blocks the task.
LEMMA FailSettles ==
  ASSUME Inv, OrderlyInv, phase \in TurnPhases, NEW t, t = TaskOf(cur), Decides(FailWrites(t))
  PROVE  Settles(t)
<1> DEFINE n == attempts[t] + 1
           s == status[t]
<1>1. t \in Tasks /\ InTurn(t)
  BY TurnFacts
<1>2. CASE n >= MaxAttempts
  <2>1. FailWrites(t) = <<SetTask(s, n), SetTask("blocked", n), SetAgent(cur, "blocked")>>
    BY <1>2, Lists DEF FailWrites, Block
  <2>2. Quiet(SetTask(s, n))
    BY CommitFacts DEF Quiet
  <2> QED
    BY <1>1, <2>1, <2>2, DecidesBlock DEF InTurn
<1>3. CASE ~(n >= MaxAttempts)
  <2>1. FailWrites(t) = <<SetTask(s, n), SetAgent(cur, "runnable")>>
    BY <1>3, Lists DEF FailWrites
  <2>2. InHands(t, s, n, cur)
    BY <1>1, <1>3 DEF InTurn, InHands
  <2> QED
    BY <1>1, <2>1, <2>2, DecidesRun DEF InTurn
<1> QED
  BY <1>2, <1>3

\* A rework by the worker settles the task, or blocks it at the limit.
LEMMA ReworkSettles ==
  ASSUME NEW t \in Tasks, NEW n \in Nat, Calm(t, {cur}), Calm(t, {WorkerOf(t)}), NoQuestions(t),
         Decides(Rework(t, n))
  PROVE  Settles(t)
<1> DEFINE W == WorkerOf(t)
<1>1. CASE n >= MaxAttempts
  <2>1. Rework(t, n) = <<SetTask("in_progress", n), SetTask("blocked", n), SetAgent(cur, "blocked")>>
    BY <1>1, Lists DEF Rework, Block
  <2>2. Quiet(SetTask("in_progress", n))
    BY CommitFacts DEF Quiet
  <2> QED
    BY <2>1, <2>2, DecidesBlock
<1>2. CASE ~(n >= MaxAttempts)
  <2>1. Rework(t, n) = <<SetTask("in_progress", n), SetAgent(W, "runnable")>>
    BY <1>2, Lists DEF Rework
  <2>2. W \in AgentsOf(t) /\ InHands(t, "in_progress", n, W)
    BY <1>2, AgentFacts, WorkerFacts DEF InHands, Checked
  <2> HIDE DEF W
  <2> QED
    BY <2>1, <2>2, DecidesRun DEF W
<1> QED
  BY <1>1, <1>2

\* A worker whose result is refused goes on, or the task is blocked.
LEMMA WorkerDoneReworkSettles ==
  ASSUME Inv, OrderlyInv, WorkerDoneRework, NEW t, t = TaskOf(cur)
  PROVE  Settles(t)
<1> DEFINE n == attempts[t] + 1
<1>1. phase \in TurnPhases /\ Decides(Rework(t, n)) /\ ~IsCritic(cur)
  BY DEF WorkerDoneRework, Handles, Decides
<1>2. t \in Tasks /\ InTurn(t)
  BY <1>1, TurnFacts
<1>3. cur = WorkerOf(t) /\ n \in Nat
  BY <1>1, <1>2, WorkerFacts DEF InTurn
<1> QED
  BY <1>1, <1>2, <1>3, ReworkSettles DEF InTurn

\* Checked work goes to a critic, and its worker is suspended.
LEMMA WorkerDoneCheckedSettles ==
  ASSUME Inv, OrderlyInv, WorkerDoneChecked, NEW t, t = TaskOf(cur)
  PROVE  Settles(t)
<1> DEFINE c == NextCritic(t)
           r == SetAgent(c, "runnable")
           e == SetAgent(cur, "blocked")
           d == SetTask("in_review", attempts[t])
<1>1. /\ phase \in TurnPhases /\ Perform(ReviewWrites(t)) /\ ~IsCritic(cur)
      /\ ahead[t] /\ c \in Agents /\ UNCHANGED <<status, attempts, agent, questions, ahead>>
      /\ verified' = [verified EXCEPT ![t] = TRUE]
  BY DEF WorkerDoneChecked, Handles, rows
<1>2. t \in Tasks /\ InTurn(t)
  BY <1>1, TurnFacts
<1>3. verified'[t] /\ cur = WorkerOf(t)
  BY <1>1, <1>2, WorkerFacts DEF Inv, TypeOK, InTurn
<1>4. c \in AgentsOf(t) /\ IsCritic(c)
  BY <1>1, <1>2, NextCriticFacts
<1>5. /\ todo' = <<r, e, d>> /\ cur' = cur /\ phase' = "writing"
      /\ SetAgent(cur, "blocked")' = e /\ SetTask("in_review", attempts[t])' = d
  BY <1>1 DEF Perform, ReviewWrites
<1>6. /\ Calm(t, {cur})' /\ NoQuestions(t)' /\ attempts'[t] < MaxAttempts
  BY <1>1, <1>2, <1>5 DEF InTurn, InHands, Calm, NoQuestions
<1>7. \E b \in AgentsOf(t) : SetAgent(b, "runnable") = r /\ IsCritic(b)
  BY <1>4
<1> HIDE DEF c, r, e, d
<1>8. PICK b \in AgentsOf(t) : SetAgent(b, "runnable") = r /\ IsCritic(b)
  BY <1>7
<1>9. ToReview(t, b)'
  BY <1>1, <1>3, <1>5, <1>6, <1>8 DEF ToReview
<1> QED
  BY <1>5, <1>8, <1>9 DEF Settles, Settling

\* What a critic's verdict decides settles the task.
LEMMA ApplyVerdictSettles ==
  ASSUME Inv, OrderlyInv, NEW v \in Verdicts, ApplyVerdict(v), NEW t, t = TaskOf(cur)
  PROVE  Settles(t)
<1> DEFINE n == attempts[t] + 1
           x == SetAgent(cur, "done")
           b == SetTask("in_progress", n)
           W == WorkerOf(t)
<1>1. phase \in TurnPhases /\ Decides(VerdictWrites(v)) /\ IsCritic(cur)
  BY DEF ApplyVerdict, Handles, Decides
<1>2. t \in Tasks /\ InTurn(t) /\ n \in Nat
  BY <1>1, TurnFacts DEF InTurn
<1>3. Quiet(x) /\ Quiet(b)
  BY CommitFacts DEF Quiet
<1>4. CASE v = "invalid"
  BY <1>1, <1>4, FailSettles DEF VerdictWrites
<1>5. CASE v = "pass"
  <2>1. VerdictWrites(v) = <<x, Integrate>>
    BY <1>5 DEF VerdictWrites
  <2>2. /\ Calm(t, {cur})' /\ NoQuestions(t)' /\ (Checked(cur)' <=> Checked(cur))
        /\ todo' = <<x, Integrate>> /\ SetAgent(cur, "done")' = x
        /\ phase' = "writing" /\ cur' = cur /\ UNCHANGED attempts
    BY <1>1, <1>2, <2>1, DecisionFrame DEF InTurn
  <2> HIDE DEF x
  <2>3. ToMerge(t)'
    BY <1>1, <1>2, <2>2 DEF ToMerge, InTurn, InHands
  <2> QED
    BY <2>2, <2>3 DEF Settles, Settling
<1>6. CASE v = "reject"
  <2>1. VerdictWrites(v) = <<x, SetTask("blocked", attempts[t]), SetAgent(cur, "blocked")>>
    BY <1>6, Lists DEF VerdictWrites, Block
  <2> QED
    BY <1>1, <1>2, <1>3, <2>1, DecidesBlock DEF InTurn
<1>7. CASE v = "rework" /\ n >= MaxAttempts
  <2>1. Rework(t, n) = <<b, SetTask("blocked", n), SetAgent(cur, "blocked")>>
    BY <1>7, Lists DEF Rework, Block
  <2>2. VerdictWrites(v) = <<x>> \o Rework(t, n)
    BY <1>7 DEF VerdictWrites
  <2>3. VerdictWrites(v) = <<x, b, SetTask("blocked", n), SetAgent(cur, "blocked")>>
    <3> DEFINE d == SetTask("blocked", n)
               e == SetAgent(cur, "blocked")
    <3> HIDE DEF x, b, d, e
    <3>1. <<x>> \o <<b, d, e>> = <<x, b, d, e>>
      BY Lists
    <3> QED
      BY <2>1, <2>2, <3>1 DEF d, e
  <2> QED
    BY <1>1, <1>2, <1>3, <2>3, DecidesBlock DEF InTurn
<1>8. CASE v = "rework" /\ ~(n >= MaxAttempts)
  <2> DEFINE w == SetAgent(W, "runnable")
  <2>1. Rework(t, n) = <<b, w>>
    BY <1>8, Lists DEF Rework
  <2>2. VerdictWrites(v) = <<x>> \o Rework(t, n)
    BY <1>8 DEF VerdictWrites
  <2>3. VerdictWrites(v) = <<x, b, w>>
    BY <2>1, <2>2, Lists
  <2>4. n < MaxAttempts /\ W \in AgentsOf(t)
    BY <1>2, <1>8, AgentFacts
  <2>5. b.op = "task" /\ b.status = "in_progress" /\ b.attempts = n
    BY CommitFacts
  <2>6. /\ Calm(t, {cur})' /\ NoQuestions(t)' /\ todo' = <<x, b, w>>
        /\ SetAgent(cur, "done")' = x /\ phase' = "writing" /\ cur' = cur
    BY <1>1, <1>2, <2>3, DecisionFrame DEF InTurn
  <2> HIDE DEF x, b, n
  <2>7. ToRun(t, W)'
    <3> HIDE DEF w
    <3>1. Len(todo') = 3 /\ todo'[1] = x /\ todo'[2] = b /\ todo'[3] = w
      BY <2>6
    <3> QED
      BY <1>1, <2>4, <2>5, <2>6, <3>1 DEF ToRun, w
  <2> HIDE DEF W
  <2> QED
    BY <2>4, <2>6, <2>7 DEF Settles, Settling
<1> QED
  BY <1>4, <1>5, <1>6, <1>7, <1>8 DEF Verdicts

\* Every handler decides on commits that settle its task.
LEMMA HandlerSettles ==
  ASSUME Inv, OrderlyInv, Handler \/ BudgetExhausted, NEW t, t = TaskOf(cur)
  PROVE  Settles(t)
<1>1. CASE HandlerError \/ BudgetExhausted
  <2>1. phase \in TurnPhases /\ Decides(Block(cur, attempts[t]))
    BY <1>1 DEF HandlerError, BudgetExhausted, Handles, Decides
  <2> QED
    BY <2>1, TurnFacts, DecidesBlock DEF InTurn, Block
<1>2. CASE OnFail
  BY <1>2, FailSettles DEF OnFail, Handles, Decides
<1> QED
  BY <1>1, <1>2, OnAskSettles, OnYieldSettles, WorkerDoneReworkSettles,
     WorkerDoneCheckedSettles, ApplyVerdictSettles DEF Handler

(***************************************************************************)
(* The commits: each takes the task of the turn nearer to being settled.   *)
(***************************************************************************)

\* The entries of the rest of a list of two or three.
LEMMA RestEntries ==
  ASSUME NEW q, NEW rest, NEW n \in {2, 3}, \A i \in 1..n - 1 : rest[i] = q[i + 1]
  PROVE  rest[1] = q[2] /\ (n = 3 => rest[2] = q[3])
<1>1. 1 \in 1..n - 1 /\ 1 + 1 = 2
  OBVIOUS
<1>2. n = 3 => 2 \in 1..n - 1 /\ 2 + 1 = 3
  OBVIOUS
<1> QED
  BY <1>1, <1>2

\* What a commit of the holder finds, and what it leaves to write.
LEMMA WriterFacts ==
  ASSUME Inv, Write, NEW t, t = TaskOf(cur)
  PROVE  /\ phase = "writing" /\ todo # <<>> /\ t \in Tasks /\ cur \in AgentsOf(t)
         /\ Len(todo) \in Nat \ {0} /\ Head(todo) = todo[1]
         /\ Len(Tail(todo)) = Len(todo) - 1
         /\ \A i \in 1..Len(todo) - 1 : Tail(todo)[i] = todo[i + 1]
         /\ Tail(todo) = <<>> <=> Len(todo) = 1
         /\ Len(todo) \in {2, 3} => Tail(todo)[1] = todo[2]
         /\ Len(todo) = 3 => Tail(todo)[2] = todo[3]
<1>1. phase = "writing" /\ todo # <<>>
  BY DEF Write, WriteTask, WriteAgent, WriteQuestion, Merge, MergeConflict, MergeError,
         WriteAccept, Next1
<1>2. t \in Tasks /\ cur \in AgentsOf(t) /\ todo \in Seq(Writes)
  BY <1>1, HolderFacts DEF Inv, TypeOK
<1>3. /\ Tail(todo) \in Seq(Writes) /\ Len(Tail(todo)) = Len(todo) - 1
      /\ \A i \in 1..Len(Tail(todo)) : Tail(todo)[i] = todo[i + 1]
  BY <1>1, <1>2, HeadTailProperties
<1>4. Len(todo) \in Nat \ {0} /\ Head(todo) = todo[1]
  BY <1>1, <1>2, EmptySeq
<1>5. Tail(todo) = <<>> <=> Len(todo) = 1
  <2>1. Tail(todo) = <<>> <=> Len(Tail(todo)) = 0
    BY <1>3, EmptySeq
  <2> QED
    BY <1>3, <1>4, <2>1
<1>6. /\ Len(todo) \in {2, 3} => Tail(todo)[1] = todo[2]
      /\ Len(todo) = 3 => Tail(todo)[2] = todo[3]
  <2> DEFINE rest == Tail(todo)
             n == Len(todo)
  <2>1. \A i \in 1..n - 1 : rest[i] = todo[i + 1]
    BY <1>3
  <2> HIDE DEF rest, n
  <2>2. n \in {2, 3} => rest[1] = todo[2] /\ (n = 3 => rest[2] = todo[3])
    BY <2>1, RestEntries
  <2>3. n = 3 => n \in {2, 3}
    OBVIOUS
  <2> QED
    BY <2>2, <2>3 DEF rest, n
<1> QED
  BY <1>1, <1>2, <1>3, <1>4, <1>5, <1>6

\* What a commit of a task row changes.
LEMMA WriteTaskFacts ==
  ASSUME Inv, WriteTask, NEW t, t = TaskOf(cur)
  PROVE  /\ status'[t] = Head(todo).status /\ attempts'[t] = Head(todo).attempts
         /\ \A u \in Tasks \ {t} : status'[u] = status[u] /\ attempts'[u] = attempts[u]
         /\ Head(todo).op = "task" /\ Continue(Tail(todo))
         /\ UNCHANGED <<agent, questions, ahead, verified, base, run>>
<1>1. t \in Tasks
  BY HolderFacts DEF WriteTask, Next1, Inv
<1> QED
  BY <1>1 DEF WriteTask, Next1, repo, procs, Inv, TypeOK

\* What a commit of an agent row changes.
LEMMA WriteAgentFacts ==
  ASSUME Inv, WriteAgent
  PROVE  /\ \A a \in Agents :
              agent'[a] = IF a = Head(todo).who THEN Head(todo).state ELSE agent[a]
         /\ Head(todo).op = "agent" /\ Continue(Tail(todo))
         /\ UNCHANGED <<status, attempts, questions, ahead, verified, base, run>>
BY DEF WriteAgent, Next1, repo, procs, Inv, TypeOK

\* The kinds of commits there are.
LEMMA WriteOps ==
  ASSUME Write
  PROVE  \/ Head(todo).op = "task" /\ WriteTask
         \/ Head(todo).op = "agent" /\ WriteAgent
         \/ Head(todo).op = "question" /\ WriteQuestion
         \/ Head(todo).op = "integrate" /\ (Merge \/ MergeConflict \/ MergeError)
         \/ Head(todo).op = "accept" /\ WriteAccept
BY DEF Write, WriteTask, WriteAgent, WriteQuestion, Merge, MergeConflict, MergeError,
       WriteAccept, Next1

\* The holder leaves the lock after its last commit, and goes on after others.
LEMMA ContinueOn ==
  ASSUME Inv, Write, Continue(Tail(todo))
  PROVE  /\ Len(todo) = 1 => phase' = "free"
         /\ Len(todo) # 1 => phase' = "writing" /\ todo' = Tail(todo) /\ cur' = cur
BY WriterFacts, ContinueFacts

\* A task that gets blocked, behind commits that wake nobody.
LEMMA WriteBlockSettles ==
  ASSUME Inv, Write, NEW t, t = TaskOf(cur), ToBlock(t)
  PROVE  Settles(t)
<1> DEFINE w == Head(todo)
           k == Len(todo)
<1>1. /\ phase = "writing" /\ t \in Tasks /\ cur \in AgentsOf(t) /\ AgentsOf(t) \subseteq Agents
      /\ k \in Nat \ {0} /\ w = todo[1] /\ Tail(todo) = <<>> <=> k = 1
  BY WriterFacts, AgentFacts
<1>2. Quiet(w)
  BY <1>1 DEF ToBlock
<1>3. Calm(t, {cur}) /\ NoQuestions(t)
  BY DEF ToBlock
<1>4. WriteTask \/ WriteAgent
  BY <1>2, WriteOps DEF Quiet
<1>5. Continue(Tail(todo)) /\ UNCHANGED questions
  BY <1>4, WriteAgentFacts DEF WriteTask
<1>6. /\ \A a \in AgentsOf(t) : agent'[a] = "runnable" => a = cur
      /\ k = 1 => Calm(t, {})' /\ status'[t] = "blocked"
      /\ NoQuestions(t)'
  <2>1. CASE WriteTask
    <3>1. k # 1
      BY <1>1, <2>1, WriteTaskFacts, CommitFacts DEF ToBlock
    <3> QED
      BY <1>3, <1>5, <2>1, <3>1, WriteTaskFacts DEF Calm, NoQuestions
  <2>2. CASE WriteAgent
    <3>1. w.who = cur /\ w.state # "runnable"
      BY <1>2, <2>2, WriteAgentFacts DEF Quiet
    <3>2. \A a \in AgentsOf(t) : agent'[a] = "runnable" => agent[a] = "runnable" /\ a # cur
      BY <1>1, <2>2, <3>1, WriteAgentFacts
    <3>3. \A a \in AgentsOf(t) : agent'[a] # "runnable"
      BY <1>3, <3>2 DEF Calm
    <3>4. k = 1 => status'[t] = "blocked"
      BY <2>2, WriteAgentFacts DEF ToBlock
    <3> QED
      BY <1>3, <1>5, <3>3, <3>4 DEF Calm, NoQuestions
  <2> QED
    BY <1>4, <2>1, <2>2
<1>7. CASE k = 1
  <2>1. phase' = "free"
    BY <1>5, <1>7, ContinueOn
  <2> QED
    BY <1>1, <1>6, <1>7, <2>1, BlockedSettled DEF Settles
<1>8. CASE k # 1
  <2>1. phase' = "writing" /\ todo' = Tail(todo) /\ cur' = cur
    BY <1>5, <1>8, ContinueOn
  <2>2. Len(todo') = k - 1 /\ \A i \in 1..k - 1 : todo'[i] = todo[i + 1]
    BY <2>1, WriterFacts
  <2>3. /\ todo'[k - 1] = SetAgent(cur, "blocked")
        /\ k # 2 => todo'[k - 2].op = "task" /\ todo'[k - 2].status = "blocked"
        /\ k = 2 => status'[t] = "blocked"
    <3>1. todo'[k - 1] = SetAgent(cur, "blocked")
      BY <1>1, <1>8, <2>2 DEF ToBlock
    <3>2. todo[k - 1].op = "task" /\ todo[k - 1].status = "blocked"
      BY <1>8 DEF ToBlock
    <3>3. k # 2 => todo'[k - 2] = todo[k - 1]
      BY <1>1, <1>8, <2>2
    <3>4. k = 2 => status'[t] = "blocked"
      BY <1>1, <1>4, <3>2, WriteTaskFacts, WriteAgentFacts
    <3> QED
      BY <3>1, <3>2, <3>3, <3>4
  <2>4. \A i \in 1..k : Quiet(todo[i])
    BY DEF ToBlock
  <2>5. \A i \in 1..k - 1 : Quiet(todo[i + 1])
    BY <1>1, <2>4
  <2>6. Calm(t, {cur})'
    BY <1>6, <2>1 DEF Calm
  <2>7. ToBlock(t)'
    <3> DEFINE j == Len(todo')
    <3>1. j \in Nat \ {0} /\ j = k - 1
      BY <1>1, <1>8, <2>2
    <3>2. todo'[j] = SetAgent(cur, "blocked")' /\ (j = 1 => status'[t] = "blocked")
      BY <1>1, <2>1, <2>3, <3>1
    <3>3. j # 1 => todo'[j - 1].op = "task" /\ todo'[j - 1].status = "blocked"
      <4>1. j # 1 => k # 2 /\ j - 1 = k - 2
        BY <1>1, <3>1
      <4> QED
        BY <2>3, <4>1
    <3>4. \A i \in 1..j : Quiet(todo[i + 1]) /\ todo'[i] = todo[i + 1]
      BY <2>2, <2>5, <3>1
    <3>5. \A i \in 1..j : Quiet(todo[i])'
      BY <2>1, <3>4 DEF Quiet
    <3> QED
      BY <1>6, <2>6, <3>1, <3>2, <3>3, <3>5 DEF ToBlock
  <2> QED
    BY <2>1, <2>7 DEF Settles, Settling
<1> QED
  BY <1>7, <1>8

\* A task that gets blocked on a question of its agent.
LEMMA WriteAskSettles ==
  ASSUME Inv, Write, NEW t, t = TaskOf(cur), ToAsk(t)
  PROVE  Settles(t)
<1> DEFINE q == SendQuestion
           e == SetAgent(cur, "blocked")
           d == SetTask("blocked", attempts[t])
<1>1. /\ phase = "writing" /\ t \in Tasks /\ cur \in AgentsOf(t) /\ AgentsOf(t) \subseteq Agents
      /\ WorkerOf(t) \in AgentsOf(t) /\ TaskOf(cur) = t
  BY WriterFacts, AgentFacts
<1>2. /\ Calm(t, {cur}) /\ attempts[t] < MaxAttempts /\ Checked(cur)
      /\ questions[cur] <= 1 /\ \A b \in AgentsOf(t) : b # cur => questions[b] = 0
  BY DEF ToAsk
<1>3. /\ q.op = "question" /\ e.op = "agent" /\ e.who = cur /\ e.state = "blocked"
      /\ d.op = "task" /\ d.status = "blocked" /\ d.attempts = attempts[t]
  BY CommitFacts
<1>4. CASE todo = <<q, e, d>> /\ questions[cur] = 0
  <2> HIDE DEF q, e, d
  <2>1. Head(todo) = q /\ Tail(todo) = <<e, d>> /\ Len(todo) = 3
    BY <1>4
  <2>2. WriteQuestion
    BY <1>3, <2>1, WriteOps
  <2>3. phase' = "writing" /\ todo' = <<e, d>> /\ cur' = cur
    <3>1. Continue(Tail(todo)) /\ Len(todo) # 1
      BY <2>1, <2>2 DEF WriteQuestion
    <3> QED
      BY <2>1, <3>1, ContinueOn
  <2>4. UNCHANGED <<agent, attempts, ahead, verified>>
    BY <2>2 DEF WriteQuestion, repo
  <2>5. questions'[cur] = 1 /\ \A b \in AgentsOf(t) : b # cur => questions'[b] = 0
    BY <1>1, <1>2, <1>4, <2>2 DEF WriteQuestion, Inv, TypeOK
  <2>6. Checked(cur)' /\ Calm(t, {cur})'
    BY <1>2, <2>3, <2>4 DEF Checked, Calm
  <2>7. ToAsk(t)'
    BY <1>2, <2>3, <2>4, <2>5, <2>6 DEF ToAsk, e, d
  <2> QED
    BY <2>3, <2>7 DEF Settles, Settling
<1>5. CASE todo = <<e, d>>
  <2> HIDE DEF q, e, d
  <2>1. Head(todo) = e /\ Tail(todo) = <<d>> /\ Len(todo) = 2
    BY <1>5
  <2>2. WriteAgent
    BY <1>3, <2>1, WriteOps
  <2>3. phase' = "writing" /\ todo' = <<d>> /\ cur' = cur
    <3>1. Continue(Tail(todo)) /\ Len(todo) # 1
      BY <2>1, <2>2, WriteAgentFacts
    <3> QED
      BY <2>1, <3>1, ContinueOn
  <2>4. /\ UNCHANGED <<questions, attempts, ahead, verified>>
        /\ \A a \in Agents : agent'[a] = IF a = cur THEN "blocked" ELSE agent[a]
    BY <1>3, <2>1, <2>2, WriteAgentFacts
  <2>5. Calm(t, {})'
    BY <1>1, <1>2, <2>4 DEF Calm
  <2>6. Checked(cur)'
    BY <1>1, <1>2, <2>3, <2>4 DEF Checked
  <2>7. ToAsk(t)'
    BY <1>2, <2>3, <2>4, <2>5, <2>6 DEF ToAsk, d, Calm
  <2> QED
    BY <2>3, <2>7 DEF Settles, Settling
<1>6. CASE todo = <<d>> /\ Calm(t, {})
  <2> HIDE DEF q, e, d
  <2>1. Head(todo) = d /\ Tail(todo) = <<>> /\ Len(todo) = 1
    BY <1>6
  <2>2. WriteTask
    BY <1>3, <2>1, WriteOps
  <2>3. phase' = "free"
    BY <2>1, <2>2, ContinueOn, WriteTaskFacts
  <2>4. /\ UNCHANGED <<agent, questions, ahead, verified>>
        /\ status'[t] = "blocked" /\ attempts'[t] = attempts[t]
    BY <1>3, <2>1, <2>2, WriteTaskFacts
  <2>5. Calm(t, {})' /\ (Checked(cur) <=> \A a : a = cur => Checked(a)')
    BY <1>6, <2>4 DEF Calm, Checked
  <2>6. \A a \in AgentsOf(t) : questions'[a] > 0 => Asked(t, a)'
    <3> SUFFICES ASSUME NEW a \in AgentsOf(t), questions'[a] > 0
                 PROVE  Asked(t, a)'
      OBVIOUS
    <3>1. a = cur
      BY <1>2, <2>4
    <3>2. questions[cur] \in Nat
      BY <1>1 DEF Inv, TypeOK
    <3>3. questions'[a] = 1
      BY <1>2, <2>4, <3>1, <3>2
    <3> QED
      BY <1>2, <2>4, <2>5, <3>1, <3>3 DEF Asked
  <2>7. Settled(t)'
    BY <1>2, <2>4, <2>5, <2>6 DEF Settled, Calm
  <2> QED
    BY <2>3, <2>7 DEF Settles
<1> QED
  BY <1>4, <1>5, <1>6 DEF ToAsk

\* A task that is woken to go on.
LEMMA WriteRunSettles ==
  ASSUME Inv, Write, NEW t, t = TaskOf(cur), NEW a \in AgentsOf(t), ToRun(t, a)
  PROVE  Settles(t)
<1> DEFINE wake == SetAgent(a, "runnable")
           x == SetAgent(cur, "done")
<1>1. /\ phase = "writing" /\ t \in Tasks /\ cur \in AgentsOf(t) /\ AgentsOf(t) \subseteq Agents
      /\ WorkerOf(t) \in AgentsOf(t) /\ TaskOf(a) = t /\ Head(todo) = todo[1]
      /\ Len(todo) \in {2, 3} => Tail(todo)[1] = todo[2]
      /\ Len(todo) = 3 => Tail(todo)[2] = todo[3]
      /\ Len(todo) # 1 => Len(Tail(todo)) = Len(todo) - 1
  BY WriterFacts, AgentFacts
<1>2. NoQuestions(t)
  BY DEF ToRun
<1>3. /\ wake.op = "agent" /\ wake.who = a /\ wake.state = "runnable"
      /\ x.op = "agent" /\ x.who = cur /\ x.state = "done"
  BY CommitFacts
<1>4. CASE Len(todo) = 1 /\ todo[1] = wake /\ Calm(t, {a}) /\ InHands(t, status[t], attempts[t], a)
  <2> HIDE DEF wake, x
  <2>1. Head(todo) = wake /\ Len(todo) = 1
    BY <1>1, <1>4
  <2>2. WriteAgent
    BY <1>3, <2>1, WriteOps
  <2>3. phase' = "free"
    BY <2>1, <2>2, ContinueOn, WriteAgentFacts
  <2>4. /\ UNCHANGED <<status, questions, attempts, ahead, verified, base>>
        /\ \A b \in Agents : agent'[b] = IF b = a THEN "runnable" ELSE agent[b]
    BY <1>3, <2>1, <2>2, WriteAgentFacts
  <2>5. Calm(t, {a})' /\ NoQuestions(t)'
    BY <1>1, <1>2, <1>4, <2>4 DEF Calm, NoQuestions
  <2>6. IsCritic(a) => a # WorkerOf(t)
    BY <1>1, WorkerFacts
  <2>7. InHands(t, status[t], attempts[t], a)'
    BY <1>1, <1>4, <2>4, <2>6 DEF InHands, Checked
  <2>8. Settled(t)'
    <3>1. \A b \in AgentsOf(t) : agent'[b] = "runnable" <=> b = a
      BY <1>1, <2>4, <2>5 DEF Calm
    <3>2. attempts'[t] < MaxAttempts /\ status'[t] \in {"in_progress", "in_review"}
      BY <2>7 DEF InHands
    <3>3. attempts'[t] \in Nat
      BY <1>1, <2>4 DEF Inv, TypeOK
    <3> QED
      BY <2>5, <2>7, <3>1, <3>2, <3>3 DEF Settled, NoQuestions
  <2> QED
    BY <2>3, <2>8 DEF Settles
<1>5. CASE /\ Len(todo) = 2 /\ todo[1].op = "task" /\ todo[2] = wake
           /\ Calm(t, {a}) /\ InHands(t, todo[1].status, todo[1].attempts, a)
  <2> HIDE DEF wake, x
  <2>1. WriteTask
    BY <1>1, <1>5, WriteOps
  <2>2. phase' = "writing" /\ cur' = cur /\ Len(todo') = 1 /\ todo'[1] = wake
    <3>1. phase' = "writing" /\ todo' = Tail(todo) /\ cur' = cur
      BY <1>5, <2>1, ContinueOn, WriteTaskFacts
    <3>2. Len(Tail(todo)) = 1 /\ Tail(todo)[1] = todo[2]
      BY <1>1, <1>5
    <3> QED
      BY <1>5, <3>1, <3>2
  <2>3. /\ UNCHANGED <<agent, questions, ahead, verified>>
        /\ status'[t] = todo[1].status /\ attempts'[t] = todo[1].attempts
    BY <1>1, <2>1, WriteTaskFacts
  <2>4. Calm(t, {a})' /\ NoQuestions(t)' /\ InHands(t, status[t], attempts[t], a)'
    BY <1>2, <1>5, <2>3 DEF Calm, NoQuestions, InHands, Checked
  <2>5. ToRun(t, a)'
    BY <2>2, <2>4 DEF ToRun, wake
  <2> QED
    BY <2>2, <2>5 DEF Settles, Settling
<1>6. CASE /\ Len(todo) = 3 /\ todo[1] = x /\ todo[2].op = "task" /\ todo[3] = wake
           /\ todo[2].status = "in_progress" /\ todo[2].attempts < MaxAttempts
           /\ IsCritic(cur) /\ a = WorkerOf(t) /\ Calm(t, {cur})
  <2> HIDE DEF wake, x
  <2>1. WriteAgent
    BY <1>1, <1>3, <1>6, WriteOps
  <2>2. /\ phase' = "writing" /\ cur' = cur
        /\ Len(todo') = 2 /\ todo'[1] = todo[2] /\ todo'[2] = wake
    <3>1. phase' = "writing" /\ todo' = Tail(todo) /\ cur' = cur
      BY <1>6, <2>1, ContinueOn, WriteAgentFacts
    <3> DEFINE rest == Tail(todo)
    <3>2. Len(rest) = 2 /\ rest[1] = todo[2] /\ rest[2] = todo[3]
      <4>1. Len(todo) = 3
        BY <1>6
      <4>2. /\ Len(todo) \in {2, 3} => rest[1] = todo[2]
            /\ Len(todo) = 3 => rest[2] = todo[3]
            /\ Len(todo) # 1 => Len(rest) = Len(todo) - 1
        BY <1>1
      <4> DEFINE n == Len(todo)
      <4>3. n = 3
        BY <4>1
      <4>4. (n \in {2, 3} => rest[1] = todo[2]) /\ (n = 3 => rest[2] = todo[3])
        BY <4>2
      <4>5. n # 1 => Len(rest) = n - 1
        BY <4>2
      <4> HIDE DEF rest, n
      <4> QED
        BY <4>3, <4>4, <4>5
    <3>3. todo[3] = wake
      BY <1>6
    <3>4. phase' = "writing" /\ todo' = rest /\ cur' = cur
      BY <3>1
    <3> HIDE DEF rest
    <3> QED
      BY <3>2, <3>3, <3>4
  <2>3. /\ UNCHANGED questions
        /\ \A b \in Agents : agent'[b] = IF b = cur THEN "done" ELSE agent[b]
    BY <1>1, <1>3, <1>6, <2>1, WriteAgentFacts
  <2>4. Calm(t, {a})' /\ NoQuestions(t)'
    BY <1>1, <1>2, <1>6, <2>3 DEF Calm, NoQuestions
  <2>5. ~IsCritic(a)
    BY <1>1, <1>6, WorkerFacts
  <2>6. InHands(t, todo[1].status, todo[1].attempts, a)'
    BY <1>6, <2>2, <2>5 DEF InHands, Checked
  <2>7. ToRun(t, a)'
    BY <1>6, <2>2, <2>4, <2>6 DEF ToRun, wake
  <2> QED
    BY <2>2, <2>7 DEF Settles, Settling
<1> QED
  BY <1>4, <1>5, <1>6 DEF ToRun

\* A task whose checked branch goes to a critic.
LEMMA WriteReviewSettles ==
  ASSUME Inv, Write, NEW t, t = TaskOf(cur), NEW c \in AgentsOf(t), ToReview(t, c)
  PROVE  Settles(t)
<1> DEFINE r == SetAgent(c, "runnable")
           e == SetAgent(cur, "blocked")
           d == SetTask("in_review", attempts[t])
<1>1. /\ phase = "writing" /\ t \in Tasks /\ cur \in AgentsOf(t) /\ AgentsOf(t) \subseteq Agents
      /\ TaskOf(c) = t
  BY WriterFacts, AgentFacts
<1>2. /\ cur = WorkerOf(t) /\ IsCritic(c) /\ c # cur
      /\ NoQuestions(t) /\ attempts[t] < MaxAttempts /\ ahead[t] /\ verified[t]
  BY <1>1, WorkerFacts DEF ToReview
<1>3. /\ r.op = "agent" /\ r.who = c /\ r.state = "runnable"
      /\ e.op = "agent" /\ e.who = cur /\ e.state = "blocked"
      /\ d.op = "task" /\ d.status = "in_review" /\ d.attempts = attempts[t]
  BY CommitFacts
<1>4. CASE todo = <<r, e, d>> /\ Calm(t, {cur})
  <2> HIDE DEF r, e, d
  <2>1. Head(todo) = r /\ Tail(todo) = <<e, d>> /\ Len(todo) # 1
    BY <1>4
  <2>2. WriteAgent
    BY <1>3, <2>1, WriteOps
  <2>3. phase' = "writing" /\ todo' = <<e, d>> /\ cur' = cur
    BY <2>1, <2>2, ContinueOn, WriteAgentFacts
  <2>4. /\ UNCHANGED <<questions, attempts, ahead, verified>>
        /\ \A a \in Agents : agent'[a] = IF a = c THEN "runnable" ELSE agent[a]
    BY <1>3, <2>1, <2>2, WriteAgentFacts
  <2>5. Calm(t, {c, cur})' /\ NoQuestions(t)' /\ agent'[c] = "runnable"
    BY <1>1, <1>2, <1>4, <2>3, <2>4 DEF Calm, NoQuestions
  <2>6. ToReview(t, c)'
    BY <1>2, <2>3, <2>4, <2>5 DEF ToReview, e, d
  <2> QED
    BY <2>3, <2>6 DEF Settles, Settling
<1>5. CASE todo = <<e, d>> /\ agent[c] = "runnable" /\ Calm(t, {c, cur})
  <2> HIDE DEF r, e, d
  <2>1. Head(todo) = e /\ Tail(todo) = <<d>> /\ Len(todo) # 1
    BY <1>5
  <2>2. WriteAgent
    BY <1>3, <2>1, WriteOps
  <2>3. phase' = "writing" /\ todo' = <<d>> /\ cur' = cur
    BY <2>1, <2>2, ContinueOn, WriteAgentFacts
  <2>4. /\ UNCHANGED <<questions, attempts, ahead, verified>>
        /\ \A a \in Agents : agent'[a] = IF a = cur THEN "blocked" ELSE agent[a]
    BY <1>3, <2>1, <2>2, WriteAgentFacts
  <2>5. Calm(t, {c})' /\ NoQuestions(t)' /\ agent'[c] = "runnable" /\ agent'[cur] = "blocked"
    BY <1>1, <1>2, <1>5, <2>4 DEF Calm, NoQuestions
  <2>6. ToReview(t, c)'
    BY <1>2, <2>3, <2>4, <2>5 DEF ToReview, d
  <2> QED
    BY <2>3, <2>6 DEF Settles, Settling
<1>6. CASE todo = <<d>> /\ agent[c] = "runnable" /\ agent[cur] = "blocked" /\ Calm(t, {c})
  <2> HIDE DEF r, e, d
  <2>1. Head(todo) = d /\ Len(todo) = 1
    BY <1>6
  <2>2. WriteTask
    BY <1>3, <2>1, WriteOps
  <2>3. phase' = "free"
    BY <2>1, <2>2, ContinueOn, WriteTaskFacts
  <2>4. /\ UNCHANGED <<agent, questions, ahead, verified>>
        /\ status'[t] = "in_review" /\ attempts'[t] = attempts[t]
    BY <1>3, <2>1, <2>2, WriteTaskFacts
  <2>5. Calm(t, {c})' /\ NoQuestions(t)'
    BY <1>2, <1>6, <2>4 DEF Calm, NoQuestions
  <2>6. InHands(t, status[t], attempts[t], c)'
    BY <1>1, <1>2, <1>6, <2>4 DEF InHands, Checked
  <2>7. Settled(t)'
    <3>1. \A b \in AgentsOf(t) : agent'[b] = "runnable" <=> b = c
      BY <1>6, <2>4, <2>5 DEF Calm
    <3>2. attempts'[t] \in Nat
      BY <1>1, <2>4 DEF Inv, TypeOK
    <3>3. status'[t] = "in_review" /\ attempts'[t] < MaxAttempts
      BY <2>4, <2>6 DEF InHands
    <3>4. \A b \in AgentsOf(t) : ~(questions'[b] > 0)
      BY <2>5 DEF NoQuestions
    <3>5. \A b \in AgentsOf(t) : agent'[b] = "runnable" =>
             Calm(t, {b})' /\ InHands(t, status[t], attempts[t], b)'
      BY <2>5, <2>6, <3>1
    <3>6. \E b \in AgentsOf(t) : agent'[b] = "runnable"
      BY <3>1
    <3>7. ~(attempts'[t] >= MaxAttempts)
      BY <3>2, <3>3, ConstantsAssumption
    <3> QED
      BY <3>3, <3>4, <3>5, <3>6, <3>7 DEF Settled
  <2> QED
    BY <2>3, <2>7 DEF Settles
<1> QED
  BY <1>4, <1>5, <1>6 DEF ToReview

\* What a critic has passed: merged, reworked or blocked.
LEMMA WriteMergeSettles ==
  ASSUME Inv, Write, NEW t, t = TaskOf(cur), ToMerge(t)
  PROVE  Settles(t)
<1> DEFINE x == SetAgent(cur, "done")
           W == WorkerOf(t)
<1>1. /\ phase = "writing" /\ t \in Tasks /\ cur \in AgentsOf(t) /\ AgentsOf(t) \subseteq Agents
      /\ W \in AgentsOf(t) /\ TaskOf(cur) = t /\ attempts[t] \in Nat
  BY WriterFacts, AgentFacts DEF Inv, TypeOK
<1>2. /\ IsCritic(cur) /\ Checked(cur) /\ NoQuestions(t) /\ attempts[t] < MaxAttempts
      /\ ahead[t] /\ cur # W
  BY <1>1, WorkerFacts DEF ToMerge, Checked
<1>3. /\ x.op = "agent" /\ x.who = cur /\ x.state = "done"
      /\ Integrate.op = "integrate"
  BY CommitFacts
<1>4. CASE todo = <<x, Integrate>> /\ Calm(t, {cur})
  <2> HIDE DEF x
  <2>1. Head(todo) = x /\ Tail(todo) = <<Integrate>> /\ Len(todo) # 1
    BY <1>4
  <2>2. WriteAgent
    BY <1>3, <2>1, WriteOps
  <2>3. phase' = "writing" /\ todo' = <<Integrate>> /\ cur' = cur
    BY <2>1, <2>2, ContinueOn, WriteAgentFacts
  <2>4. /\ UNCHANGED <<questions, attempts, ahead, verified>>
        /\ \A a \in Agents : agent'[a] = IF a = cur THEN "done" ELSE agent[a]
    BY <1>3, <2>1, <2>2, WriteAgentFacts
  <2>5. Calm(t, {})' /\ NoQuestions(t)' /\ Checked(cur)'
    BY <1>1, <1>2, <1>4, <2>3, <2>4 DEF Calm, NoQuestions, Checked
  <2>6. ToMerge(t)'
    BY <1>2, <2>3, <2>4, <2>5 DEF ToMerge
  <2> QED
    BY <2>3, <2>6 DEF Settles, Settling
<1>5. CASE todo = <<Integrate>> /\ Calm(t, {})
  <2>1. Head(todo) = Integrate
    BY <1>5
  <2>2. Calm(t, {cur}) /\ Calm(t, {W})
    BY <1>5 DEF Calm
  <2>3. CASE Merge
    <3>1. /\ phase' = "writing" /\ cur' = cur
          /\ todo' = <<Accept, SetAgent(W, "done")>>
          /\ UNCHANGED <<agent, questions, attempts>>
          /\ base'[t] = Merged(t) /\ ~ahead'[t]
      BY <1>1, <1>2, <2>3 DEF Merge, Perform, rows, Inv, TypeOK
    <3>2. Merged(t) \in {"merged", "partial"}
      BY <1>1, <1>2 DEF Merged, Checked, Inv, TypeOK
    <3>3. Calm(t, {})' /\ NoQuestions(t)'
      BY <1>2, <1>5, <3>1 DEF Calm, NoQuestions
    <3>4. ToAccept(t)'
      BY <1>2, <3>1, <3>2, <3>3 DEF ToAccept
    <3> QED
      BY <3>1, <3>4 DEF Settles, Settling
  <2>4. CASE MergeConflict
    <3>1. Decides(Rework(t, attempts[t]))
      BY <2>4 DEF MergeConflict, Decides
    <3> QED
      BY <1>1, <1>2, <2>2, <3>1, ReworkSettles
  <2>5. CASE MergeError
    <3>1. Decides(Block(cur, attempts[t]))
      BY <2>5 DEF MergeError, Decides
    <3> QED
      BY <1>1, <1>2, <2>2, <3>1, DecidesBlock DEF Block
  <2> QED
    BY <1>3, <2>1, <2>3, <2>4, <2>5, WriteOps
<1> QED
  BY <1>4, <1>5 DEF ToMerge

\* What has been merged gets accepted.
LEMMA WriteAcceptSettles ==
  ASSUME Inv, Write, NEW t, t = TaskOf(cur), ToAccept(t)
  PROVE  Settles(t)
<1> DEFINE W == WorkerOf(t)
           x == SetAgent(W, "done")
<1>1. /\ phase = "writing" /\ t \in Tasks /\ AgentsOf(t) \subseteq Agents
      /\ W \in AgentsOf(t) /\ attempts[t] \in Nat
  BY WriterFacts, AgentFacts DEF Inv, TypeOK
<1>2. /\ Calm(t, {}) /\ NoQuestions(t) /\ attempts[t] < MaxAttempts
      /\ base[t] \in {"merged", "partial"} /\ ~ahead[t]
  BY DEF ToAccept
<1>3. x.op = "agent" /\ x.who = W /\ x.state = "done" /\ Accept.op = "accept"
  BY CommitFacts
<1>4. CASE todo = <<Accept, x>>
  <2> HIDE DEF W, x
  <2>1. Head(todo) = Accept /\ Tail(todo) = <<x>> /\ Len(todo) # 1
    BY <1>4
  <2>2. WriteAccept
    BY <1>3, <2>1, WriteOps
  <2>3. phase' = "writing" /\ todo' = <<x>> /\ cur' = cur
    <3>1. Continue(Tail(todo))
      BY <2>2 DEF WriteAccept
    <3> QED
      BY <2>1, <3>1, ContinueOn
  <2>4. UNCHANGED <<agent, questions, attempts, base, ahead>> /\ status'[t] = "done"
    BY <1>1, <2>2 DEF WriteAccept, repo, Inv, TypeOK
  <2>5. Calm(t, {})' /\ NoQuestions(t)'
    BY <1>2, <2>4 DEF Calm, NoQuestions
  <2>6. ToAccept(t)'
    BY <1>2, <2>3, <2>4, <2>5 DEF ToAccept, W, x
  <2> QED
    BY <2>3, <2>6 DEF Settles, Settling
<1>5. CASE todo = <<x>> /\ status[t] = "done"
  <2> HIDE DEF W, x
  <2>1. Head(todo) = x /\ Len(todo) = 1
    BY <1>5
  <2>2. WriteAgent
    BY <1>3, <2>1, WriteOps
  <2>3. phase' = "free"
    BY <2>1, <2>2, ContinueOn, WriteAgentFacts
  <2>4. /\ UNCHANGED <<status, questions, attempts, base, ahead>>
        /\ \A a \in Agents : agent'[a] = IF a = W THEN "done" ELSE agent[a]
    BY <1>3, <2>1, <2>2, WriteAgentFacts
  <2>5. Calm(t, {})' /\ NoQuestions(t)'
    BY <1>1, <1>2, <2>4 DEF Calm, NoQuestions
  <2>6. Settled(t)'
    BY <1>1, <1>2, <1>5, <2>4, <2>5 DEF Settled, Calm, NoQuestions
  <2> QED
    BY <2>3, <2>6 DEF Settles
<1> QED
  BY <1>4, <1>5 DEF ToAccept

\* Every commit takes its task nearer to being settled.
LEMMA WriteSettles ==
  ASSUME Inv, OrderlyInv, Write, NEW t, t = TaskOf(cur)
  PROVE  Settles(t)
<1>1. Settling(t)
  BY WriterFacts DEF OrderlyInv
<1> QED
  BY <1>1, WriteBlockSettles, WriteAskSettles, WriteRunSettles, WriteReviewSettles,
     WriteMergeSettles, WriteAcceptSettles DEF Settling

(***************************************************************************)
(* Every step of an orderly owner keeps OrderlyInv.                        *)
(***************************************************************************)

\* A handler and its commits leave the other tasks alone.
LEMMA OthersSame ==
  ASSUME Inv, Handler \/ BudgetExhausted \/ Write, NEW u \in Tasks, u # TaskOf(cur)
  PROVE  /\ \A a \in AgentsOf(u) : agent'[a] = agent[a] /\ questions'[a] = questions[a]
         /\ status'[u] = status[u] /\ attempts'[u] = attempts[u]
         /\ base'[u] = base[u] /\ ahead'[u] = ahead[u] /\ verified'[u] = verified[u]
<1> DEFINE t == TaskOf(cur)
<1>1. phase # "free" /\ t \in Tasks /\ cur \in AgentsOf(t)
  <2>1. phase # "free"
    BY DEF Handler, BudgetExhausted, Write, OnAsk, OnYield, OnFail, WorkerDoneRework,
           WorkerDoneChecked, HandlerError, ApplyVerdict, Handles, WriteTask, WriteAgent,
           WriteQuestion, Merge, MergeConflict, MergeError, WriteAccept, Next1
  <2> QED
    BY <2>1, HolderFacts DEF Inv
<1>2. AgentsOf(u) \subseteq Agents /\ \A a \in AgentsOf(u) : TaskOf(a) = u
  BY AgentFacts
<1>3. CASE Handler \/ BudgetExhausted \/ MergeConflict \/ MergeError
  BY <1>1, <1>3 DEF Handler, BudgetExhausted, OnAsk, OnYield, OnFail, WorkerDoneRework,
           WorkerDoneChecked, HandlerError, ApplyVerdict, MergeConflict, MergeError,
           rows, repo, Inv, TypeOK
<1>4. CASE WriteTask
  BY <1>1, <1>4, WriteTaskFacts
<1>5. CASE WriteAgent
  <2>1. Head(todo).who \in AgentsOf(t)
    <3> DEFINE H == HandlerWrites(AgentsOf(t))
    <3>1. AgentsOf(t) \in SUBSET Agents /\ WorkerOf(t) \in AgentsOf(t)
      BY <1>1, AgentFacts
    <3>2. Head(todo).op = "agent" /\ (Head(todo) \in H \/ Head(todo) = SetAgent(WorkerOf(t), "done"))
      BY <1>1, <1>5, NextWrite, WriteFacts DEF WriteAgent, Next1
    <3> HIDE DEF H
    <3>3. CASE Head(todo) \in H
      BY <3>1, <3>2, <3>3, WriteFacts DEF H
    <3>4. CASE Head(todo) = SetAgent(WorkerOf(t), "done")
      BY <3>1, <3>4, CommitFacts
    <3> QED
      BY <3>2, <3>3, <3>4
  <2> QED
    BY <1>1, <1>2, <1>5, <2>1, WriteAgentFacts, AgentFacts
<1>6. CASE WriteQuestion
  BY <1>1, <1>2, <1>6, AgentFacts DEF WriteQuestion, repo, Inv, TypeOK
<1>7. CASE Merge \/ WriteAccept
  BY <1>1, <1>7 DEF Merge, WriteAccept, rows, repo, Inv, TypeOK
<1> QED
  BY <1>3, <1>4, <1>5, <1>6, <1>7 DEF Write

\* The holder's handlers and commits keep the invariant.
LEMMA HolderOrderly ==
  ASSUME Inv, OrderlyInv, Handler \/ BudgetExhausted \/ Write
  PROVE  OrderlyInv'
<1> DEFINE t == TaskOf(cur)
<1>1. phase \in {"picked", "counted", "writing"} /\ run' = run
  BY DEF Handler, BudgetExhausted, Write, OnAsk, OnYield, OnFail, WorkerDoneRework,
         WorkerDoneChecked, HandlerError, ApplyVerdict, Handles, WriteTask, WriteAgent,
         WriteQuestion, Merge, MergeConflict, MergeError, WriteAccept, Next1, procs
<1>2. t \in Tasks /\ NoUnfinishedRun'
  BY <1>1, HolderFacts DEF Inv, RunInv, NoUnfinishedRun
<1>3. \A u \in Tasks : u # t => Settled(u)'
  <2> SUFFICES ASSUME NEW u \in Tasks, u # t PROVE Settled(u)'
    OBVIOUS
  <2>1. Settled(u)
    BY DEF OrderlyInv
  <2> QED
    BY <2>1, OthersSame, SettledFrame
<1>4. PICK v \in Tasks : v = t
  BY <1>2
<1>5. Settles(v)
  BY <1>4, HandlerSettles, WriteSettles
<1>6. CASE phase' = "free" /\ Settled(v)'
  <2>1. \A u \in Tasks : Settled(u)'
    BY <1>3, <1>4, <1>6
  <2> QED
    BY <1>2, <1>6, <2>1 DEF OrderlyInv
<1>7. CASE phase' = "writing" /\ cur' = cur /\ Settling(v)'
  <2>1. \A u \in Tasks : u # v => Settled(u)'
    BY <1>3, <1>4
  <2>2. \A u \in Tasks : IF u # v THEN Settled(u)' ELSE Settling(u)'
    BY <1>7, <2>1
  <2> QED
    BY <1>4, <1>7, <2>2 DEF OrderlyInv
<1> QED
  BY <1>5, <1>6, <1>7 DEF Settles

\* A list of commits settles the task as before when nothing of it changes.
LEMMA SettlingFrame ==
  ASSUME NEW t \in Tasks, Settling(t), status'[t] = status[t],
         UNCHANGED <<todo, cur, attempts, agent, questions, base, ahead, verified>>
  PROVE  Settling(t)'
<1>1. \A A : Calm(t, A)' <=> Calm(t, A)
  BY DEF Calm
<1>2. NoQuestions(t)' <=> NoQuestions(t)
  BY DEF NoQuestions
<1>3. \A a : Checked(a)' <=> Checked(a)
  BY DEF Checked
<1>4. CASE ToBlock(t)
  <2>1. ToBlock(t)'
    BY <1>1, <1>2, <1>4 DEF ToBlock, Quiet
  <2> QED
    BY <2>1 DEF Settling
<1>5. CASE ToAsk(t)
  <2>1. Checked(cur)'
    BY <1>5 DEF ToAsk, Checked
  <2>2. ToAsk(t)'
    BY <1>1, <1>5, <2>1 DEF ToAsk
  <2> QED
    BY <2>2 DEF Settling
<1>6. CASE ToMerge(t)
  <2>1. Checked(cur)'
    BY <1>6 DEF ToMerge, Checked
  <2>2. ToMerge(t)'
    BY <1>1, <1>2, <1>6, <2>1 DEF ToMerge
  <2> QED
    BY <2>2 DEF Settling
<1>7. CASE ToAccept(t)
  <2>1. ToAccept(t)'
    BY <1>1, <1>2, <1>7 DEF ToAccept
  <2> QED
    BY <2>1 DEF Settling
<1>8. ASSUME NEW a \in AgentsOf(t), ToRun(t, a)
      PROVE  Settling(t)'
  <2>1. ToRun(t, a)'
    BY <1>1, <1>2, <1>3, <1>8 DEF ToRun, InHands
  <2> QED
    BY <2>1 DEF Settling
<1>9. ASSUME NEW a \in AgentsOf(t), ToReview(t, a)
      PROVE  Settling(t)'
  <2>1. ToReview(t, a)'
    BY <1>1, <1>2, <1>9 DEF ToReview
  <2> QED
    BY <2>1 DEF Settling
<1> QED
  BY <1>4, <1>5, <1>6, <1>7, <1>8, <1>9 DEF Settling

\* A step that changes neither rows, runs, branches nor the holder.
LEMMA SameOrderly ==
  ASSUME OrderlyInv, UNCHANGED <<run, rows, repo, holder>>
  PROVE  OrderlyInv'
<1>1. UNCHANGED <<run, status, attempts, agent, questions, base, ahead, verified, phase, cur, todo>>
  BY DEF rows, repo, holder
<1>2. \A t \in Tasks : Settled(t) => Settled(t)'
  BY <1>1, SettledFrame
<1>3. \A t \in Tasks : Settling(t) => Settling(t)'
  BY <1>1, SettlingFrame
<1>4. \A t \in Tasks : Reverting(t) => Reverting(t)'
  BY <1>1 DEF Reverting, Calm, NoQuestions
<1> QED
  BY <1>1, <1>2, <1>3, <1>4 DEF OrderlyInv, NoUnfinishedRun

\* Every task is settled unless a handler is at work.
LEMMA AllSettled ==
  ASSUME Inv, OrderlyInv, phase \in TurnPhases \cup {"free"}
  PROVE  \A t \in Tasks : Settled(t)
<1>1. phase = "free" => TaskOf(cur) \notin Tasks
  BY DEF Inv, TypeOK, NoAgent, TaskOf
<1> QED
  BY <1>1 DEF OrderlyInv

\* The steps of a turn before the handler.
LEMMA TurnOrderly ==
  ASSUME Inv, OrderlyInv, Turn
  PROVE  OrderlyInv'
<1>1. CASE BudgetExhausted
  BY <1>1, HolderOrderly
<1>2. CASE TurnNotStarted \/ StartRun \/ RecordAdapterOwner
             \/ (\E o \in Outcomes \ {"none"} : EndRun(o)) \/ Deferred \/ CountTurn
  <2>1. /\ phase \in TurnPhases
        /\ \/ phase' \in TurnPhases /\ cur' = cur
           \/ phase' = "free" /\ (Deferred \/ TurnNotStarted)
    <3>1. CASE TurnNotStarted \/ Deferred
      BY <3>1 DEF TurnNotStarted, Deferred, Release
    <3>2. CASE StartRun \/ RecordAdapterOwner
      BY <3>2 DEF StartRun, RecordAdapterOwner, Hold
    <3>3. CASE (\E o \in Outcomes \ {"none"} : EndRun(o)) \/ CountTurn
      BY <3>3 DEF EndRun, CountTurn
    <3> QED
      BY <1>2, <3>1, <3>2, <3>3
  <2>2. UNCHANGED <<status, attempts, agent, questions, ahead, verified, base>>
    <3>1. CASE TurnNotStarted \/ StartRun \/ RecordAdapterOwner \/ Deferred
      BY <3>1 DEF TurnNotStarted, StartRun, RecordAdapterOwner, Deferred, rows, repo
    <3>2. CASE CountTurn
      BY <3>2 DEF CountTurn, repo
    <3>3. CASE \E o \in Outcomes \ {"none"} : EndRun(o)
      BY <3>3 DEF EndRun, rows, repo
    <3> QED
      BY <1>2, <3>1, <3>2, <3>3
  <2>3. \A t \in Tasks : Settled(t)'
    BY <2>1, <2>2, AllSettled, SettledFrame
  <2>4. phase' = "free" => NoUnfinishedRun'
    <3>1. CASE TurnNotStarted
      BY <3>1 DEF TurnNotStarted, procs, Inv, RunInv, NoUnfinishedRun
    <3>2. CASE Deferred
      BY <3>2, HolderFacts DEF Deferred, Inv, TypeOK, RunInv, SessionsExclusive, NoUnfinishedRun
    <3> QED
      BY <2>1, <3>1, <3>2
  <2>5. phase' \in TurnPhases => agent'[cur'] = "runnable"
    BY <2>1, <2>2 DEF OrderlyInv
  <2> QED
    BY <2>1, <2>3, <2>4, <2>5 DEF OrderlyInv
<1> QED
  BY <1>1, <1>2 DEF Turn

\* A selection, with or without the claim of a task.
LEMMA SelectionOrderly ==
  ASSUME Inv, OrderlyInv, Selection
  PROVE  OrderlyInv'
<1>1. ASSUME NEW a \in Agents, PickTurn(a)
      PROVE  OrderlyInv'
  <2>1. phase = "free" /\ phase' = "picked" /\ cur' = a /\ agent[a] = "runnable"
    BY <1>1 DEF PickTurn, Hold, Eligible
  <2>2. UNCHANGED <<status, attempts, agent, questions, ahead, verified, base>>
    BY <1>1 DEF PickTurn, rows, repo
  <2>3. \A t \in Tasks : Settled(t)'
    BY <2>1, <2>2, AllSettled, SettledFrame
  <2> QED
    BY <2>1, <2>2, <2>3 DEF OrderlyInv
<1>2. ASSUME NEW t \in Tasks, SpawnForQueuedTask(t)
      PROVE  OrderlyInv'
  <2> DEFINE W == WorkerOf(t)
  <2>1. phase = "free" /\ status[t] = "queued" /\ W \in AgentsOf(t) /\ AgentsOf(t) \subseteq Agents
    BY <1>2, AgentFacts DEF SpawnForQueuedTask, NextReadyTask
  <2>2. phase' = "picked" /\ cur' = W
    BY <1>2, <2>1 DEF SpawnForQueuedTask, Hold, OrderlyInv
  <2>3. /\ status' = [status EXCEPT ![t] = "in_progress"] /\ agent' = [agent EXCEPT ![W] = "runnable"]
        /\ UNCHANGED <<attempts, questions, ahead, verified, base>>
    BY <1>2 DEF SpawnForQueuedTask, repo
  <2>4. /\ status'[t] = "in_progress" /\ \A u \in Tasks : u # t => status'[u] = status[u]
        /\ \A a \in Agents : agent'[a] = IF a = W THEN "runnable" ELSE agent[a]
    BY <2>1, <2>3 DEF Inv, TypeOK
  <2>5. \A u \in Tasks : Settled(u)
    BY <2>1, AllSettled
  <2>6. ASSUME NEW u \in Tasks, u # t
        PROVE  Settled(u)'
    <3>1. \A a \in AgentsOf(u) : agent'[a] = agent[a]
      BY <2>1, <2>4, <2>6, AgentFacts
    <3> QED
      BY <2>3, <2>4, <2>5, <2>6, <3>1, SettledFrame
  <2>7. Settled(t)'
    <3>1. Calm(t, {}) /\ NoQuestions(t)
      BY <2>1, <2>5, SettledFacts
    <3>2. attempts[t] < MaxAttempts
      <4>1. attempts[t] \in Nat /\ ~(attempts[t] >= MaxAttempts)
        BY <2>1, <2>5 DEF Settled, Inv, TypeOK
      <4> QED
        BY <4>1
    <3>3. ~IsCritic(W)
      BY WorkerFacts
    <3>4. Calm(t, {W})' /\ NoQuestions(t)' /\ agent'[W] = "runnable"
      BY <2>1, <2>3, <2>4, <3>1 DEF Calm, NoQuestions
    <3>5. InHands(t, status[t], attempts[t], W)'
      BY <2>3, <2>4, <3>2, <3>3 DEF InHands, Checked
    <3>6. \A a \in AgentsOf(t) : agent'[a] = "runnable" <=> a = W
      BY <3>4 DEF Calm
    <3>7. attempts'[t] \in Nat
      BY <2>3 DEF Inv, TypeOK
    <3> HIDE DEF W
    <3>8. \A a \in AgentsOf(t) : agent'[a] = "runnable" =>
            Calm(t, {a})' /\ InHands(t, status[t], attempts[t], a)'
      BY <3>4, <3>5, <3>6
    <3>9. \A a \in AgentsOf(t) : ~(questions'[a] > 0)
      BY <3>4 DEF NoQuestions
    <3>10. ~(attempts'[t] >= MaxAttempts)
      BY <2>3, <3>2, <3>7
    <3> QED
      BY <2>1, <2>4, <3>4, <3>8, <3>9, <3>10 DEF Settled
  <2>8. agent'[W] = "runnable"
    BY <2>1, <2>4
  <2> QED
    BY <2>2, <2>6, <2>7, <2>8 DEF OrderlyInv
<1> QED
  BY <1>1, <1>2 DEF Selection

\* A session, orphaned or not, that works on its branch or ends.
LEMMA SessionOrderly ==
  ASSUME Inv, OrderlyInv, Session
  PROVE  OrderlyInv'
<1>1. ASSUME NEW a \in Agents, CommitWork(a)
      PROVE  OrderlyInv'
  <2> DEFINE t == TaskOf(a)
  <2>1. /\ a \in live /\ ~IsCritic(a)
        /\ UNCHANGED <<status, attempts, agent, questions, base, run, phase, cur, todo>>
        /\ ahead' = [ahead EXCEPT ![t] = TRUE] /\ verified' = [verified EXCEPT ![t] = FALSE]
    BY <1>1 DEF CommitWork, rows, procs, holder
  <2>2. run[a] # "none"
    BY <2>1 DEF Inv, RunInv, SessionsExclusive
  <2>3. phase \in {"registered", "session"}
    BY <2>2 DEF Inv, TypeOK, RunInv, OrderlyInv, NoUnfinishedRun
  <2>4. a = cur
    BY <2>2, <2>3, HolderFacts DEF Inv, RunInv, SessionsExclusive
  <2>5. \A u \in Tasks : Settled(u)
    BY <2>3, AllSettled
  <2>6. \A u \in Tasks : u # t => Settled(u)'
    BY <2>1, <2>5, SettledFrame DEF Inv, TypeOK
  <2>7. Settled(t)'
    <3>1. t \in Tasks /\ InTurn(t)
      BY <2>3, <2>4, TurnFacts
    <3>2. /\ a \in AgentsOf(t) /\ agent[a] = "runnable" /\ Calm(t, {a}) /\ NoQuestions(t)
          /\ attempts[t] \in Nat /\ attempts[t] < MaxAttempts /\ status[t] = "in_progress"
      BY <2>1, <2>3, <2>4, <3>1 DEF InTurn, InHands, OrderlyInv
    <3>3. Calm(t, {a})' /\ NoQuestions(t)' /\ InHands(t, status[t], attempts[t], a)'
      BY <2>1, <3>2 DEF Calm, NoQuestions, InHands, Checked
    <3>4. \A b \in AgentsOf(t) : agent'[b] = "runnable" <=> b = a
      BY <2>1, <3>2 DEF Calm
    <3> HIDE DEF t
    <3>5. \A b \in AgentsOf(t) : agent'[b] = "runnable" =>
            Calm(t, {b})' /\ InHands(t, status[t], attempts[t], b)'
      BY <3>3, <3>4
    <3>6. \A b \in AgentsOf(t) : ~(questions'[b] > 0)
      BY <3>3 DEF NoQuestions
    <3>7. ~(attempts'[t] >= MaxAttempts)
      BY <2>1, <3>2
    <3>8. status'[t] = "in_progress" /\ agent'[a] = "runnable"
      BY <2>1, <3>2
    <3> QED
      BY <3>2, <3>5, <3>6, <3>7, <3>8 DEF Settled
  <2>8. \A u \in Tasks : Settled(u)'
    BY <2>6, <2>7
  <2> QED
    BY <2>1, <2>3, <2>8 DEF OrderlyInv
<1>2. ASSUME NEW a \in Agents, OrphanExits(a)
      PROVE  OrderlyInv'
  <2>1. UNCHANGED <<run, rows, repo, holder>>
    BY <1>2 DEF OrphanExits
  <2> QED
    BY <2>1, SameOrderly
<1> QED
  BY <1>1, <1>2 DEF Session

\* The commit that retires the worker comes after the acceptance.
LEMMA LastWrite ==
  ASSUME NEW t \in Tasks, Settling(t), todo = <<SetAgent(WorkerOf(t), "done")>>
  PROVE  status[t] = "done" /\ base[t] \in {"merged", "partial"} /\ ~ahead[t]
<1>1. Len(todo) = 1 /\ todo[1].op = "agent" /\ todo[1].state = "done"
  BY CommitFacts
<1>2. ~ToBlock(t)
  BY <1>1, CommitFacts DEF ToBlock
<1>3. ~ToAsk(t)
  BY <1>1, CommitFacts DEF ToAsk
<1>4. ~ToMerge(t)
  BY <1>1, CommitFacts DEF ToMerge
<1>5. \A a : ~ToRun(t, a) /\ ~ToReview(t, a)
  BY <1>1, CommitFacts DEF ToRun, ToReview
<1>6. ToAccept(t)
  BY <1>2, <1>3, <1>4, <1>5 DEF Settling
<1> QED
  BY <1>1, <1>6 DEF ToAccept

\* The lock holder's task is never one that was not added.
LEMMA HolderPresent ==
  ASSUME Inv, OrderlyInv, phase # "free"
  PROVE  status[TaskOf(cur)] # "absent"
<1> DEFINE t == TaskOf(cur)
<1>1. CASE phase \in TurnPhases \cup {"reverting", "discarding"}
  BY <1>1 DEF Inv, HolderInv, ActiveStatuses
<1>2. CASE phase = "writing"
  <2>1. t \in Tasks /\ Settling(t) /\ WritesOf(t)
    BY <1>2, HolderFacts DEF Inv, HolderInv, OrderlyInv
  <2>2. CASE status[t] \in ActiveStatuses
    BY <2>2 DEF ActiveStatuses
  <2>3. CASE todo = <<SetAgent(WorkerOf(t), "done")>>
    BY <2>1, <2>3, LastWrite
  <2> QED
    BY <2>1, <2>2, <2>3 DEF WritesOf
<1> QED
  BY <1>1, <1>2 DEF Inv, TypeOK

\* A command that starts with the lock free and changes task t alone.
LEMMA CommandOrderly ==
  ASSUME Inv, OrderlyInv, phase = "free", NEW t \in Tasks, run' = run,
         \/ phase' = "free" /\ cur' = cur
         \/ phase' \in {"discarding", "reverting"} /\ cur' = WorkerOf(t),
         \A u \in Tasks \ {t} :
           /\ \A a \in AgentsOf(u) : agent'[a] = agent[a] /\ questions'[a] = questions[a]
           /\ status'[u] = status[u] /\ attempts'[u] = attempts[u]
           /\ base'[u] = base[u] /\ ahead'[u] = ahead[u] /\ verified'[u] = verified[u],
         phase' = "free" => Settled(t)',
         phase' = "reverting" => Reverting(t)'
  PROVE  OrderlyInv'
<1>1. \A u \in Tasks : u # t => Settled(u)'
  BY AllSettled, SettledFrame
<1>2. NoUnfinishedRun'
  BY DEF OrderlyInv, NoUnfinishedRun
<1>3. CASE phase' = "free"
  <2>1. \A u \in Tasks : Settled(u)'
    BY <1>1, <1>3
  <2> QED
    BY <1>2, <1>3, <2>1 DEF OrderlyInv
<1>4. CASE phase' \in {"discarding", "reverting"} /\ cur' = WorkerOf(t)
  <2>1. TaskOf(cur') = t
    BY <1>4 DEF TaskOf, WorkerOf
  <2>2. phase' # "free" /\ phase' \notin TurnPhases /\ phase' # "writing"
    BY <1>4
  <2>3. \A u \in Tasks :
          IF u # t THEN Settled(u)' ELSE phase' = "reverting" => Reverting(u)'
    BY <1>1
  <2> QED
    BY <2>1, <2>2, <2>3 DEF OrderlyInv
<1> QED
  BY <1>3, <1>4

\* The rows of a task that is requeued are settled.
LEMMA RequeueSettled ==
  ASSUME Inv, NEW t \in Tasks, RequeueRows(t)
  PROVE  /\ Settled(t)'
         /\ \A u \in Tasks \ {t} :
              /\ \A a \in AgentsOf(u) : agent'[a] = agent[a] /\ questions'[a] = questions[a]
              /\ status'[u] = status[u] /\ attempts'[u] = attempts[u]
<1>1. /\ status'[t] = "queued" /\ attempts'[t] = 0
      /\ \A u \in Tasks \ {t} : status'[u] = status[u] /\ attempts'[u] = attempts[u]
  BY DEF RequeueRows, Inv, TypeOK
<1>2. \A a \in AgentsOf(t) : agent'[a] # "runnable" /\ questions'[a] = 0
  BY AgentFacts DEF RequeueRows, SetAgentsOf
<1>3. \A u \in Tasks \ {t} : \A a \in AgentsOf(u) :
        agent'[a] = agent[a] /\ questions'[a] = questions[a]
  BY AgentFacts DEF RequeueRows, SetAgentsOf
<1>4. Settled(t)'
  BY <1>1, <1>2 DEF Settled
<1> QED
  BY <1>1, <1>3, <1>4

\* The owner's commands, but for resume --retry.
LEMMA OwnerOrderly ==
  ASSUME Orderly, Inv, OrderlyInv, Owner
  PROVE  OrderlyInv'
<1>1. ASSUME NEW t \in Tasks, AddTask(t)
      PROVE  OrderlyInv'
  <2>1. /\ status[t] = "absent" /\ status' = [status EXCEPT ![t] = "queued"]
        /\ UNCHANGED <<attempts, agent, questions, repo, run, phase, cur, todo>>
    BY <1>1 DEF AddTask, procs, holder
  <2>2. UNCHANGED <<base, ahead, verified>>
    BY <2>1 DEF repo
  <2>3. status'[t] = "queued" /\ \A u \in Tasks : u # t => status'[u] = status[u]
    BY <2>1 DEF Inv, TypeOK
  <2>4. \A u \in Tasks : u # t /\ Settled(u) => Settled(u)'
    BY <2>1, <2>2, <2>3, SettledFrame
  <2>5. Settled(t) => Settled(t)'
    <3>1. SUFFICES ASSUME Settled(t) PROVE Settled(t)'
      OBVIOUS
    <3>2. Calm(t, {}) /\ NoQuestions(t)
      BY <2>1, <3>1, SettledFacts
    <3>3. Calm(t, {})' /\ NoQuestions(t)' /\ ~(attempts'[t] >= MaxAttempts)
      BY <2>1, <3>1, <3>2 DEF Calm, NoQuestions, Settled
    <3> QED
      BY <2>3, <3>3 DEF Settled, Calm, NoQuestions
  <2>6. CASE phase \in TurnPhases \cup {"free"}
    <3>1. \A u \in Tasks : Settled(u)'
      BY <2>4, <2>5, <2>6, AllSettled
    <3> QED
      BY <2>1, <2>6, <3>1 DEF OrderlyInv, NoUnfinishedRun
  <2>7. CASE phase \notin TurnPhases \cup {"free"}
    <3> DEFINE v == TaskOf(cur)
    <3>1. v \in Tasks /\ cur \in AgentsOf(v)
      BY <2>7, HolderFacts DEF Inv
    <3>2. status[v] # "absent"
      BY <2>7, <3>1, HolderPresent
    <3>3. \A u \in Tasks : u # v => Settled(u)
      BY DEF OrderlyInv
    <3>4. \A u \in Tasks : u # v => Settled(u)'
      BY <2>4, <2>5, <3>3
    <3>5. \A u \in Tasks : u = v => (Settling(u) => Settling(u)') /\ (Reverting(u) => Reverting(u)')
      <4>1. \A u \in Tasks : u = v => status'[u] = status[u]
        BY <2>1, <2>3, <3>2
      <4>2. \A u \in Tasks : u = v /\ Settling(u) => Settling(u)'
        BY <2>1, <2>2, <4>1, SettlingFrame
      <4>3. \A u \in Tasks : u = v /\ Reverting(u) => Reverting(u)'
        BY <2>1, <4>1 DEF Reverting, Calm, NoQuestions
      <4> QED
        BY <4>2, <4>3
    <3> QED
      BY <2>1, <2>7, <3>4, <3>5 DEF OrderlyInv, NoUnfinishedRun
  <2> QED
    BY <2>6, <2>7
<1>2. ASSUME NEW t \in Tasks, CancelTask(t)
      PROVE  OrderlyInv'
  <2>1. /\ phase = "free" /\ status' = [status EXCEPT ![t] = "cancelled"]
        /\ agent' = SetAgentsOf(t, "done")
        /\ UNCHANGED <<attempts, questions, repo, run, phase, cur>>
    BY <1>2 DEF CancelTask, procs, holder
  <2>2. UNCHANGED <<base, ahead, verified>>
    BY <2>1 DEF repo
  <2>3. status'[t] = "cancelled" /\ \A u \in Tasks : u # t => status'[u] = status[u]
    BY <2>1 DEF Inv, TypeOK
  <2>4. /\ \A a \in AgentsOf(t) : agent'[a] # "runnable"
        /\ \A u \in Tasks \ {t} : \A a \in AgentsOf(u) : agent'[a] = agent[a]
    BY <2>1, AgentFacts DEF SetAgentsOf
  <2>5. Settled(t)'
    BY <2>3, <2>4 DEF Settled
  <2> QED
    BY <2>1, <2>2, <2>3, <2>4, <2>5, CommandOrderly
<1>3. ASSUME NEW t \in Tasks, RequeueTask(t)
      PROVE  OrderlyInv'
  <2>1. phase = "free" /\ RequeueRows(t) /\ UNCHANGED <<base, ahead, verified, run, phase, cur>>
    BY <1>3 DEF RequeueTask, repo, procs, holder
  <2> QED
    BY <2>1, RequeueSettled, CommandOrderly
<1>4. ASSUME NEW t \in Tasks, DiscardBranch(t)
      PROVE  OrderlyInv'
  <2>1. /\ phase = "free" /\ phase' = "discarding" /\ cur' = WorkerOf(t)
        /\ ahead' = [ahead EXCEPT ![t] = FALSE] /\ verified' = [verified EXCEPT ![t] = FALSE]
        /\ base' = [base EXCEPT ![t] = "absent"]
        /\ UNCHANGED <<status, attempts, agent, questions, run>>
    BY <1>4 DEF DiscardBranch, Hold, rows, procs
  <2>2. \A u \in Tasks \ {t} :
          base'[u] = base[u] /\ ahead'[u] = ahead[u] /\ verified'[u] = verified[u]
    BY <2>1 DEF Inv, TypeOK
  <2> QED
    BY <2>1, <2>2, CommandOrderly
<1>5. ASSUME NEW t \in Tasks, RevertMerge(t)
      PROVE  OrderlyInv'
  <2>1. /\ phase = "free" /\ status[t] = "done" /\ phase' = "reverting" /\ cur' = WorkerOf(t)
        /\ base' = [base EXCEPT ![t] = "reverted"]
        /\ UNCHANGED <<status, attempts, agent, questions, ahead, verified, run>>
    BY <1>5 DEF RevertMerge, Hold, rows, procs
  <2>2. \A u \in Tasks \ {t} : base'[u] = base[u]
    BY <2>1 DEF Inv, TypeOK
  <2>3. Calm(t, {}) /\ NoQuestions(t)
    BY <2>1, AllSettled, SettledFacts
  <2>4. attempts[t] < MaxAttempts
    <3>1. attempts[t] \in Nat /\ ~(attempts[t] >= MaxAttempts)
      BY <2>1, AllSettled DEF Settled, Inv, TypeOK
    <3> QED
      BY <3>1
  <2>5. Reverting(t)'
    BY <2>1, <2>3, <2>4 DEF Reverting, Calm, NoQuestions
  <2> QED
    BY <2>1, <2>2, <2>5, CommandOrderly
<1>6. CASE RequeueFresh \/ RollbackTask
  <2> DEFINE t == TaskOf(cur)
  <2>1. /\ phase \in {"discarding", "reverting"} /\ phase' = "free"
        /\ UNCHANGED <<base, ahead, verified, run>>
    BY <1>6 DEF RequeueFresh, RollbackTask, Release, repo, procs
  <2>2. t \in Tasks /\ NoUnfinishedRun'
    BY <2>1, HolderFacts DEF Inv, RunInv, NoUnfinishedRun
  <2>3. PICK v \in Tasks : v = t
    BY <2>2
  <2>4. \A u \in Tasks : u # v => Settled(u)
    BY <2>3 DEF OrderlyInv
  <2>5. Settled(v)' /\ \A u \in Tasks : u # v => Settled(u)'
    <3>1. CASE RequeueFresh
      <4>1. RequeueRows(v)
        BY <2>3, <3>1 DEF RequeueFresh
      <4> QED
        BY <2>1, <2>4, <4>1, RequeueSettled, SettledFrame
    <3>2. CASE RollbackTask
      <4>1. Reverting(v)
        BY <2>3, <3>2 DEF RollbackTask, OrderlyInv
      <4>2. UNCHANGED <<agent, questions, attempts>> /\ status' = [status EXCEPT ![v] = "blocked"]
        BY <2>3, <3>2 DEF RollbackTask
      <4>3. status'[v] = "blocked" /\ \A u \in Tasks : u # v => status'[u] = status[u]
        BY <4>2 DEF Inv, TypeOK
      <4>4. Calm(v, {})' /\ NoQuestions(v)'
        BY <4>1, <4>2 DEF Reverting, Calm, NoQuestions
      <4> QED
        BY <2>1, <2>4, <4>2, <4>3, <4>4, BlockedSettled, SettledFrame
    <3> QED
      BY <1>6, <3>1, <3>2
  <2>6. \A u \in Tasks : Settled(u)'
    BY <2>5
  <2> QED
    BY <2>1, <2>2, <2>6 DEF OrderlyInv
<1>7. ASSUME NEW a \in Agents, AnswerMessage(a)
      PROVE  OrderlyInv'
  <2> DEFINE t == TaskOf(a)
             W == WorkerOf(t)
  <2>1. t \in Tasks /\ a \in AgentsOf(t) /\ AgentsOf(t) \subseteq Agents /\ W \in AgentsOf(t)
    BY AgentFacts
  <2>2. /\ phase = "free" /\ questions[a] > 0 /\ status[t] \notin {"done", "cancelled"}
        /\ questions' = [questions EXCEPT ![a] = @ - 1]
        /\ agent' = [agent EXCEPT ![a] = "runnable"]
        /\ status' = [status EXCEPT ![t] = "in_progress"]
        /\ UNCHANGED <<attempts, base, ahead, verified, run, phase, cur>>
    BY <1>7 DEF AnswerMessage, repo, procs, holder
  <2>3. Settled(t)
    BY <2>1, <2>2, AllSettled
  <2>4. Asked(t, a)
    BY <2>1, <2>2, <2>3 DEF Settled
  <2>5. Calm(t, {})
    BY <2>1, <2>3, <2>4, SettledFacts DEF Asked
  <2>6. /\ status'[t] = "in_progress" /\ \A u \in Tasks \ {t} : status'[u] = status[u]
        /\ \A b \in Agents : agent'[b] = IF b = a THEN "runnable" ELSE agent[b]
    BY <2>1, <2>2 DEF Inv, TypeOK
  <2>7. \A b \in AgentsOf(t) : questions'[b] = 0
    BY <2>1, <2>2, <2>4 DEF Asked, Inv, TypeOK
  <2>8. \A u \in Tasks \ {t} : \A b \in AgentsOf(u) :
          agent'[b] = agent[b] /\ questions'[b] = questions[b]
    BY <2>1, <2>2, AgentFacts DEF Inv, TypeOK
  <2>9. Settled(t)'
    <3>1. IsCritic(a) => a # W
      BY <2>1, WorkerFacts
    <3>2. InHands(t, status[t], attempts[t], a)'
      BY <2>1, <2>2, <2>4, <2>6, <3>1 DEF Asked, InHands, Checked
    <3>3. \A b \in AgentsOf(t) : agent'[b] = "runnable" <=> b = a
      BY <2>1, <2>5, <2>6 DEF Calm
    <3>4. Calm(t, {a})' /\ attempts'[t] \in Nat /\ attempts'[t] < MaxAttempts
      BY <2>1, <2>2, <2>4, <3>3 DEF Calm, Asked, Inv, TypeOK
    <3> HIDE DEF t
    <3> QED
      BY <2>1, <2>6, <2>7, <3>2, <3>3, <3>4 DEF Settled
  <2> HIDE DEF t, W
  <2> QED
    BY <2>1, <2>2, <2>6, <2>8, <2>9, CommandOrderly
<1>8. ASSUME NEW a \in Agents, RecoverRun(a)
      PROVE  OrderlyInv'
  BY <1>8 DEF RecoverRun, OrderlyInv, NoUnfinishedRun
<1>9. ~RetryBlockedTasks
  BY DEF Orderly, RetryBlockedTasks
<1> QED
  BY <1>1, <1>2, <1>3, <1>4, <1>5, <1>6, <1>7, <1>8, <1>9 DEF Owner

\* Every step keeps the invariant.
LEMMA NextOrderly ==
  ASSUME Orderly, Inv, OrderlyInv, [Next]_vars
  PROVE  OrderlyInv'
<1>1. ~Crash
  BY DEF Orderly, Crash
<1>2. CASE UNCHANGED vars
  BY <1>2, SameOrderly DEF vars, procs
<1> QED
  BY <1>1, <1>2, SelectionOrderly, TurnOrderly, HolderOrderly, OwnerOrderly, SessionOrderly
     DEF Next

\* It holds initially.
LEMMA InitOrderly == Init => OrderlyInv
<1> SUFFICES ASSUME Init PROVE OrderlyInv
  OBVIOUS
<1>1. \A t \in Tasks : Settled(t)
  BY AgentFacts DEF Init, Settled
<1> QED
  BY <1>1 DEF Init, OrderlyInv, NoUnfinishedRun

(***************************************************************************)
(* Without crashes: every claimed task can go on, whatever the owner does. *)
(***************************************************************************)

\* A task can go on as before when nothing of it changes.
LEMMA GoingFrame ==
  ASSUME NEW t \in Tasks, Going(t), \A a \in AgentsOf(t) : agent'[a] = agent[a],
         status'[t] = status[t], ahead'[t] = ahead[t], verified'[t] = verified[t]
  PROVE  Going(t)'
<1>1. WorkerOf(t) \in AgentsOf(t)
  BY AgentFacts
<1> QED
  BY <1>1 DEF Going

\* The step of the lock holder leaves its task t going, or with commits that will.
Goes(t) ==
  \/ phase' = "free" /\ Going(t)'
  \/ phase' = "writing" /\ cur' = cur /\ Heading(t)'

\* An agent whose turn is under way in review is a critic; a worker's task is not in review.
LEMMA TurnGoing ==
  ASSUME Inv, GoingInv, phase \in TurnPhases
  PROVE  /\ TaskOf(cur) \in Tasks /\ cur \in AgentsOf(TaskOf(cur))
         /\ Going(TaskOf(cur)) /\ agent[cur] = "runnable" /\ attempts[TaskOf(cur)] \in Nat
BY HolderFacts DEF GoingInv, Inv, TypeOK

\* A decision on commits that block the task, whatever they write before.
LEMMA DecidesStop ==
  ASSUME NEW t \in Tasks, NEW w, Decides(w), NEW n, NEW x, NEW y,
         x.op \in {"task", "agent", "question"}, y.op \in {"task", "agent", "question"},
         LET b == SetTask("blocked", n)
             e == SetAgent(cur, "blocked")
         IN  \/ w = <<b, e>> \/ w = <<e, b>>
             \/ w = <<x, b, e>> \/ w = <<x, e, b>>
             \/ w = <<x, y, b, e>>
  PROVE  Goes(t)
<1> DEFINE b == SetTask("blocked", n)
           e == SetAgent(cur, "blocked")
<1>1. b.op = "task" /\ b.status = "blocked" /\ e.op = "agent"
  BY CommitFacts
<1>2. phase' = "writing" /\ cur' = cur /\ todo' = w
  BY DecisionFrame
<1> HIDE DEF b, e
<1>3. \E k \in 0..Len(todo') : Leaves(t, k, "blocked")'
  <2>1. CASE w = <<b, e>>
    <3>1. Len(todo') = 2 /\ todo'[1] = b /\ todo'[2] = e
      BY <1>2, <2>1
    <3>2. Leaves(t, 1, "blocked")'
      BY <1>1, <3>1 DEF Leaves
    <3> QED
      BY <3>1, <3>2
  <2>2. CASE w = <<e, b>>
    <3>1. Len(todo') = 2 /\ todo'[1] = e /\ todo'[2] = b
      BY <1>2, <2>2
    <3>2. Leaves(t, 2, "blocked")'
      BY <1>1, <3>1 DEF Leaves
    <3> QED
      BY <3>1, <3>2
  <2>3. CASE w = <<x, b, e>>
    <3>1. Len(todo') = 3 /\ todo'[1] = x /\ todo'[2] = b /\ todo'[3] = e
      BY <1>2, <2>3
    <3>2. Leaves(t, 2, "blocked")'
      BY <1>1, <3>1 DEF Leaves
    <3> QED
      BY <3>1, <3>2
  <2>4. CASE w = <<x, e, b>>
    <3>1. Len(todo') = 3 /\ todo'[1] = x /\ todo'[2] = e /\ todo'[3] = b
      BY <1>2, <2>4
    <3>2. Leaves(t, 3, "blocked")'
      BY <1>1, <3>1 DEF Leaves
    <3> QED
      BY <3>1, <3>2
  <2>5. CASE w = <<x, y, b, e>>
    <3>1. Len(todo') = 4 /\ todo'[1] = x /\ todo'[2] = y /\ todo'[3] = b /\ todo'[4] = e
      BY <1>2, <2>5
    <3>2. Leaves(t, 3, "blocked")'
      BY <1>1, <3>1 DEF Leaves
    <3> QED
      BY <3>1, <3>2
  <2> QED
    BY <2>1, <2>2, <2>3, <2>4, <2>5 DEF b, e
<1> QED
  BY <1>2, <1>3 DEF Goes, Heading, WillBlock

\* A decision on commits that send the task back to an agent, whatever they write before.
LEMMA DecidesRework ==
  ASSUME NEW t \in Tasks, NEW a \in AgentsOf(t), NEW w, Decides(w), NEW n, NEW x,
         x.op \in {"task", "agent", "question"},
         LET b == SetTask("in_progress", n)
             e == SetAgent(a, "runnable")
         IN  w = <<b, e>> \/ w = <<x, b, e>>
  PROVE  Goes(t)
<1> DEFINE b == SetTask("in_progress", n)
           e == SetAgent(a, "runnable")
<1>1. b.op = "task" /\ b.status = "in_progress" /\ e.op = "agent"
  BY CommitFacts
<1>2. phase' = "writing" /\ cur' = cur /\ todo' = w /\ SetAgent(a, "runnable")' = e
  BY DecisionFrame
<1> HIDE DEF b, e
<1>3. (\E k \in 0..Len(todo') : Leaves(t, k, "in_progress")') /\ todo'[Len(todo')] = e
  <2>1. CASE w = <<b, e>>
    <3>1. Len(todo') = 2 /\ todo'[1] = b /\ todo'[2] = e
      BY <1>2, <2>1
    <3>2. Leaves(t, 1, "in_progress")'
      BY <1>1, <3>1 DEF Leaves
    <3> QED
      BY <3>1, <3>2
  <2>2. CASE w = <<x, b, e>>
    <3>1. Len(todo') = 3 /\ todo'[1] = x /\ todo'[2] = b /\ todo'[3] = e
      BY <1>2, <2>2
    <3>2. Leaves(t, 2, "in_progress")'
      BY <1>1, <3>1 DEF Leaves
    <3> QED
      BY <3>1, <3>2
  <2> QED
    BY <2>1, <2>2 DEF b, e
<1>4. WillRun(t)'
  BY <1>2, <1>3 DEF WillRun
<1> QED
  BY <1>2, <1>4 DEF Goes, Heading

\* A failed turn, or one whose verdict is invalid, is repeated or blocks the task.
LEMMA FailGoes ==
  ASSUME Inv, GoingInv, phase \in TurnPhases, NEW t, t = TaskOf(cur), Decides(FailWrites(t))
  PROVE  Goes(t)
<1> DEFINE n == attempts[t] + 1
           x == SetTask(status[t], n)
           e == SetAgent(cur, "runnable")
<1>1. t \in Tasks /\ cur \in AgentsOf(t) /\ Going(t) /\ agent[cur] = "runnable"
  BY TurnGoing
<1>2. x.op = "task" /\ x.status = status[t]
  BY CommitFacts
<1>3. CASE n >= MaxAttempts
  <2>1. FailWrites(t) = <<x, SetTask("blocked", n), SetAgent(cur, "blocked")>>
    BY <1>3, Lists DEF FailWrites, Block
  <2> HIDE DEF x
  <2> QED
    BY <1>1, <1>2, <2>1, DecidesStop
<1>4. CASE ~(n >= MaxAttempts)
  <2>1. FailWrites(t) = <<x, e>>
    BY <1>4, Lists DEF FailWrites
  <2>2. /\ phase' = "writing" /\ cur' = cur /\ todo' = <<x, e>> /\ SetAgent(cur, "runnable")' = e
        /\ UNCHANGED <<status, agent, ahead, verified>>
    BY <1>1, <2>1, DecisionFrame
  <2>3. Going(t)'
    BY <1>1, <2>2, GoingFrame
  <2> HIDE DEF x, e
  <2>4. Len(todo') = 2 /\ todo'[1] = x /\ todo'[2] = e
    BY <2>2
  <2>5. WillStay(t)'
    BY <1>1, <1>2, <2>2, <2>3, <2>4 DEF WillStay
  <2> QED
    BY <2>2, <2>5 DEF Goes, Heading
<1> QED
  BY <1>3, <1>4

\* A rework goes to the worker, or blocks the task at the limit.
LEMMA ReworkGoes ==
  ASSUME NEW t \in Tasks, NEW n, Decides(Rework(t, n))
  PROVE  Goes(t)
<1> DEFINE x == SetTask("in_progress", n)
<1>1. x.op = "task"
  BY CommitFacts
<1>2. CASE n >= MaxAttempts
  <2>1. Rework(t, n) = <<x, SetTask("blocked", n), SetAgent(cur, "blocked")>>
    BY <1>2, Lists DEF Rework, Block
  <2> HIDE DEF x
  <2> QED
    BY <1>1, <2>1, DecidesStop
<1>3. CASE ~(n >= MaxAttempts)
  <2>1. Rework(t, n) = <<x, SetAgent(WorkerOf(t), "runnable")>>
    BY <1>3, Lists DEF Rework
  <2> QED
    BY <1>1, <2>1, AgentFacts, DecidesRework
<1> QED
  BY <1>2, <1>3

\* The decisions of the other handlers.
LEMMA OnAskGoes ==
  ASSUME Inv, GoingInv, OnAsk, NEW t, t = TaskOf(cur)
  PROVE  Goes(t)
<1> DEFINE q == SendQuestion
           e == SetAgent(cur, "blocked")
           b == SetTask("blocked", attempts[t])
<1>1. t \in Tasks /\ q.op = "question"
  BY TurnGoing, CommitFacts DEF OnAsk, Handles
<1>2. PICK toOwner \in BOOLEAN : Decides(AskWrites(toOwner))
  BY DEF OnAsk, Decides
<1>3. AskWrites(toOwner) = <<q, e, b>> \/ AskWrites(toOwner) = <<e, b>>
  <2>1. /\ toOwner => AskWrites(toOwner) = <<q>> \o <<e, b>>
        /\ ~toOwner => AskWrites(toOwner) = <<>> \o <<e, b>>
    BY DEF AskWrites
  <2> HIDE DEF q, e, b
  <2> QED
    BY <2>1, Lists
<1> HIDE DEF q
<1> QED
  BY <1>1, <1>2, <1>3, DecidesStop

LEMMA OnYieldGoes ==
  ASSUME Inv, GoingInv, OnYield, NEW t, t = TaskOf(cur)
  PROVE  Goes(t)
<1>1. phase \in TurnPhases /\ Decides(<<SetAgent(cur, "runnable")>>)
  BY DEF OnYield, Handles, Decides
<1>2. t \in Tasks /\ Going(t) /\ agent[cur] = "runnable"
  BY <1>1, TurnGoing
<1>3. /\ phase' = "writing" /\ cur' = cur /\ todo' = <<SetAgent(cur, "runnable")>>
      /\ UNCHANGED <<status, agent, ahead, verified>>
  BY <1>1, <1>2, DecisionFrame
<1>4. Going(t)'
  BY <1>2, <1>3, GoingFrame
<1>5. WillStay(t)'
  BY <1>2, <1>3, <1>4 DEF WillStay
<1> QED
  BY <1>3, <1>5 DEF Goes, Heading

LEMMA WorkerDoneCheckedGoes ==
  ASSUME Inv, GoingInv, WorkerDoneChecked, NEW t, t = TaskOf(cur)
  PROVE  Goes(t)
<1> DEFINE c == NextCritic(t)
           r == SetAgent(c, "runnable")
           e == SetAgent(cur, "blocked")
           n == attempts[t]
           d == SetTask("in_review", n)
<1>1. /\ phase \in TurnPhases /\ Perform(ReviewWrites(t)) /\ ~IsCritic(cur)
      /\ ahead[t] /\ c \in Agents /\ UNCHANGED <<status, attempts, ahead>>
      /\ verified' = [verified EXCEPT ![t] = TRUE]
  BY DEF WorkerDoneChecked, Handles, rows
<1>2. t \in Tasks /\ cur \in AgentsOf(t) /\ n \in Nat
  BY <1>1, TurnGoing
<1>3. ahead'[t] /\ verified'[t] /\ cur = WorkerOf(t)
  BY <1>1, <1>2, WorkerFacts DEF Inv, TypeOK
<1>4. c \in AgentsOf(t) /\ IsCritic(c)
  BY <1>1, <1>2, NextCriticFacts
<1>5. /\ todo' = <<r, e, d>> /\ cur' = cur /\ phase' = "writing" /\ SetAgent(cur, "blocked")' = e
  BY <1>1 DEF Perform, ReviewWrites
<1>6. \E b \in AgentsOf(t) : SetAgent(b, "runnable") = r /\ IsCritic(b)
  BY <1>4
<1>7. \E m \in Nat : SetTask("in_review", m) = d
  BY <1>2
<1> HIDE DEF c, r, e, d
<1>8. PICK b \in AgentsOf(t) : SetAgent(b, "runnable") = r /\ IsCritic(b)
  BY <1>6
<1>9. WillReview(t, b)'
  BY <1>3, <1>5, <1>7, <1>8 DEF WillReview
<1> QED
  BY <1>5, <1>8, <1>9 DEF Goes, Heading

LEMMA ApplyVerdictGoes ==
  ASSUME Inv, GoingInv, NEW v \in Verdicts, ApplyVerdict(v), NEW t, t = TaskOf(cur)
  PROVE  Goes(t)
<1> DEFINE n == attempts[t] + 1
           x == SetAgent(cur, "done")
           y == SetTask("in_progress", n)
           W == WorkerOf(t)
<1>1. phase \in TurnPhases /\ Decides(VerdictWrites(v))
  BY DEF ApplyVerdict, Handles, Decides
<1>2. t \in Tasks /\ W \in AgentsOf(t)
  BY <1>1, TurnGoing, AgentFacts
<1>3. x.op = "agent" /\ y.op = "task"
  BY CommitFacts
<1>4. CASE v = "invalid"
  BY <1>1, <1>4, FailGoes DEF VerdictWrites
<1>5. CASE v = "pass"
  <2>1. VerdictWrites(v) = <<x, Integrate>>
    BY <1>5 DEF VerdictWrites
  <2>2. phase' = "writing" /\ cur' = cur /\ todo' = <<x, Integrate>> /\ SetAgent(cur, "done")' = x
    BY <1>1, <1>2, <2>1, DecisionFrame
  <2> HIDE DEF x
  <2> QED
    BY <2>2 DEF Goes, Heading, WillAccept
<1>6. CASE v = "reject"
  <2>1. VerdictWrites(v) = <<x, SetTask("blocked", attempts[t]), SetAgent(cur, "blocked")>>
    BY <1>6, Lists DEF VerdictWrites, Block
  <2> HIDE DEF x
  <2> QED
    BY <1>1, <1>2, <1>3, <2>1, DecidesStop
<1>7. CASE v = "rework" /\ n >= MaxAttempts
  <2> DEFINE d == SetTask("blocked", n)
             e == SetAgent(cur, "blocked")
  <2>1. Rework(t, n) = <<y, d, e>>
    BY <1>7, Lists DEF Rework, Block
  <2>2. VerdictWrites(v) = <<x>> \o Rework(t, n)
    BY <1>7 DEF VerdictWrites
  <2>3. VerdictWrites(v) = <<x, y, d, e>>
    <3> HIDE DEF x, y, d, e
    <3>1. <<x>> \o <<y, d, e>> = <<x, y, d, e>>
      BY Lists
    <3> QED
      BY <2>1, <2>2, <3>1
  <2> HIDE DEF x, y, n
  <2> QED
    BY <1>1, <1>2, <1>3, <2>3, DecidesStop
<1>8. CASE v = "rework" /\ ~(n >= MaxAttempts)
  <2> DEFINE e == SetAgent(W, "runnable")
  <2>1. Rework(t, n) = <<y, e>>
    BY <1>8, Lists DEF Rework
  <2>2. VerdictWrites(v) = <<x>> \o Rework(t, n)
    BY <1>8 DEF VerdictWrites
  <2>3. VerdictWrites(v) = <<x, y, e>>
    BY <2>1, <2>2, Lists
  <2> HIDE DEF x, n, W
  <2> QED
    BY <1>1, <1>2, <1>3, <2>3, DecidesRework
<1> QED
  BY <1>4, <1>5, <1>6, <1>7, <1>8 DEF Verdicts

\* Every handler decides on commits after which its task can go on.
LEMMA HandlerGoes ==
  ASSUME Inv, GoingInv, Handler \/ BudgetExhausted, NEW t, t = TaskOf(cur)
  PROVE  Goes(t)
<1>1. CASE HandlerError \/ BudgetExhausted
  <2>1. phase \in TurnPhases /\ Decides(Block(cur, attempts[t]))
    BY <1>1 DEF HandlerError, BudgetExhausted, Handles, Decides
  <2>2. t \in Tasks /\ SendQuestion.op = "question"
    BY <2>1, TurnGoing, CommitFacts
  <2> QED
    BY <2>1, <2>2, DecidesStop DEF Block
<1>2. CASE WorkerDoneRework
  <2>1. Decides(Rework(t, attempts[t] + 1)) /\ t \in Tasks
    BY <1>2, TurnGoing DEF WorkerDoneRework, Handles, Decides
  <2> QED
    BY <2>1, ReworkGoes
<1>3. CASE OnFail
  BY <1>3, FailGoes DEF OnFail, Handles, Decides
<1> QED
  BY <1>1, <1>2, <1>3, OnAskGoes, OnYieldGoes, WorkerDoneCheckedGoes, ApplyVerdictGoes DEF Handler

\* What the commits left to make do to the row of the task, once the next is made.
LEMMA LeavesNext ==
  ASSUME Inv, WriteTask \/ WriteAgent \/ WriteQuestion, NEW t, t = TaskOf(cur),
         NEW s, NEW k \in 0..Len(todo), Leaves(t, k, s)
  PROVE  /\ Len(todo) = 1 => phase' = "free" /\ status'[t] = s
         /\ Len(todo) # 1 => /\ phase' = "writing" /\ cur' = cur
                             /\ \A i \in 1..Len(todo') : todo'[i] = todo[i + 1]
                             /\ Len(todo') = Len(todo) - 1
                             /\ \E j \in 0..Len(todo') : Leaves(t, j, s)'
<1> DEFINE n == Len(todo)
<1>1. /\ n \in Nat \ {0} /\ Head(todo) = todo[1] /\ Len(Tail(todo)) = n - 1
      /\ \A i \in 1..n - 1 : Tail(todo)[i] = todo[i + 1]
  BY WriterFacts DEF Write
<1>2. Continue(Tail(todo))
  BY DEF WriteTask, WriteAgent, WriteQuestion
<1>3. /\ n = 1 => phase' = "free"
      /\ n # 1 => phase' = "writing" /\ todo' = Tail(todo) /\ cur' = cur
  BY <1>2, ContinueOn DEF Write
<1>4. /\ k = 0 => status'[t] = status[t] /\ status[t] = s
      /\ k = 1 => status'[t] = s
      /\ n = 1 => k \in {0, 1}
  <2>1. CASE WriteTask
    <3>1. todo[1].op = "task" /\ status'[t] = todo[1].status
      BY <1>1, <2>1, WriteTaskFacts
    <3> QED
      BY <1>1, <3>1 DEF Leaves
  <2>2. CASE WriteAgent \/ WriteQuestion
    <3>1. todo[1].op # "task" /\ status' = status
      BY <1>1, <2>2 DEF WriteAgent, WriteQuestion, Next1
    <3> QED
      BY <1>1, <3>1 DEF Leaves
  <2> QED
    BY <2>1, <2>2
<1>5. CASE n = 1
  BY <1>3, <1>4, <1>5
<1>6. CASE n # 1
  <2> DEFINE j == IF k = 0 THEN 0 ELSE k - 1
  <2>1. /\ Len(todo') = n - 1 /\ \A i \in 1..n - 1 : todo'[i] = todo[i + 1]
        /\ j \in 0..n - 1 /\ j \in Nat
    <3>1. k \in 0..n
      OBVIOUS
    <3>2. Len(todo') = n - 1 /\ \A i \in 1..n - 1 : todo'[i] = todo[i + 1]
      BY <1>1, <1>3, <1>6
    <3> HIDE DEF n
    <3>3. j \in 0..n - 1 /\ j \in Nat
      BY <1>1, <3>1
    <3> QED
      BY <3>2, <3>3
  <2>2. \A i \in 1..n - 1 : /\ todo'[i].op \in {"task", "agent", "question"}
                            /\ i > j => todo'[i].op # "task"
    <3> SUFFICES ASSUME NEW i \in 1..n - 1
                 PROVE  /\ todo[i + 1].op \in {"task", "agent", "question"}
                        /\ i > j => todo[i + 1].op # "task"
      BY <2>1
    <3>1. i + 1 \in 1..n /\ (i > j => i + 1 > k)
      BY <1>1
    <3> QED
      BY <3>1 DEF Leaves
  <2>3. IF j = 0 THEN status'[t] = s ELSE todo'[j].op = "task" /\ todo'[j].status = s
    <3>1. CASE k \in {0, 1}
      BY <1>4, <3>1
    <3>2. CASE k \notin {0, 1}
      <4>1. j = k - 1 /\ j \in 1..n - 1 /\ j # 0
        BY <1>1, <3>2
      <4>2. todo'[j] = todo[k]
        BY <2>1, <4>1
      <4> QED
        BY <3>2, <4>1, <4>2 DEF Leaves
    <3> QED
      BY <3>1, <3>2
  <2>4. Leaves(t, j, s)'
    <3> HIDE DEF j
    <3> QED
      BY <2>1, <2>2, <2>3 DEF Leaves
  <2> QED
    BY <1>3, <1>6, <2>1, <2>4
<1> QED
  BY <1>5, <1>6

\* The commits that block the task, or send it back.
LEMMA WriteBlockGoes ==
  ASSUME Inv, Write, NEW t, t = TaskOf(cur), WillBlock(t) \/ WillRun(t)
  PROVE  Goes(t)
<1> DEFINE n == Len(todo)
<1>1. PICK s \in {"blocked", "in_progress"}, k \in 0..n :
        /\ Leaves(t, k, s)
        /\ s # "blocked" => WillRun(t)
  BY DEF WillBlock, WillRun
<1>2. n \in Nat \ {0} /\ Head(todo) = todo[1] /\ t \in Tasks
  BY WriterFacts
<1>3. WriteTask \/ WriteAgent \/ WriteQuestion
  <2>1. todo[1].op \in {"task", "agent", "question"}
    BY <1>1, <1>2 DEF Leaves
  <2> QED
    BY <1>2, <2>1, WriteOps
<1>4. CASE s = "blocked"
  <2>1. CASE n = 1
    <3>1. phase' = "free" /\ status'[t] = "blocked"
      BY <1>1, <1>3, <1>4, <2>1, LeavesNext
    <3> QED
      BY <3>1 DEF Goes, Going
  <2>2. CASE n # 1
    <3>1. phase' = "writing" /\ cur' = cur /\ \E j \in 0..Len(todo') : Leaves(t, j, "blocked")'
      BY <1>1, <1>3, <1>4, <2>2, LeavesNext
    <3>2. WillBlock(t)'
      BY <3>1 DEF WillBlock
    <3> QED
      BY <3>1, <3>2 DEF Goes, Heading
  <2> QED
    BY <2>1, <2>2
<1>5. CASE s = "in_progress"
  <2>1. PICK a \in AgentsOf(t) : todo[n] = SetAgent(a, "runnable")
    BY <1>1, <1>5 DEF WillRun
  <2>2. CASE n = 1
    <3>1. WriteAgent /\ agent'[a] = "runnable"
      <4>1. Head(todo).op = "agent" /\ Head(todo).who = a /\ Head(todo).state = "runnable"
        BY <1>2, <2>1, <2>2, CommitFacts
      <4>2. WriteAgent
        BY <4>1, WriteOps
      <4> QED
        BY <1>2, <4>1, <4>2, WriteAgentFacts, AgentFacts
    <3>2. phase' = "free" /\ status'[t] = "in_progress"
      BY <1>1, <1>3, <1>5, <2>2, LeavesNext
    <3> QED
      BY <3>1, <3>2 DEF Goes, Going
  <2>3. CASE n # 1
    <3>1. /\ phase' = "writing" /\ cur' = cur /\ Len(todo') = n - 1
          /\ \A i \in 1..Len(todo') : todo'[i] = todo[i + 1]
          /\ \E j \in 0..Len(todo') : Leaves(t, j, "in_progress")'
      BY <1>1, <1>3, <1>5, <2>3, LeavesNext
    <3>2. todo'[Len(todo')] = SetAgent(a, "runnable")
      BY <1>2, <2>1, <2>3, <3>1
    <3>3. WillRun(t)'
      BY <3>1, <3>2 DEF WillRun
    <3> QED
      BY <3>1, <3>3 DEF Goes, Heading
  <2> QED
    BY <2>2, <2>3
<1> QED
  BY <1>4, <1>5

\* The commits of a turn that is repeated.
LEMMA WriteStayGoes ==
  ASSUME Inv, Write, NEW t, t = TaskOf(cur), WillStay(t)
  PROVE  Goes(t)
<1> DEFINE n == Len(todo)
           w == Head(todo)
<1>1. /\ n \in Nat \ {0} /\ w = todo[1] /\ t \in Tasks /\ cur \in AgentsOf(t) /\ AgentsOf(t) \subseteq Agents
      /\ Len(Tail(todo)) = n - 1 /\ \A i \in 1..n - 1 : Tail(todo)[i] = todo[i + 1]
  BY WriterFacts, AgentFacts
<1>2. w = SetAgent(cur, "runnable") \/ (w.op = "task" /\ w.status = status[t])
  <2>1. 1 \in 1..n
    BY <1>1
  <2> QED
    BY <1>1, <2>1 DEF WillStay
<1>3. /\ Continue(Tail(todo)) /\ status'[t] = status[t] /\ UNCHANGED <<ahead, verified>>
      /\ \A a \in Agents : agent'[a] = agent[a]
  <2>1. CASE w = SetAgent(cur, "runnable")
    <3>1. w.op = "agent" /\ w.who = cur /\ w.state = "runnable"
      BY <2>1, CommitFacts
    <3>2. WriteAgent
      BY <3>1, WriteOps
    <3> QED
      BY <3>1, <3>2, WriteAgentFacts DEF WillStay
  <2>2. CASE w.op = "task" /\ w.status = status[t]
    <3>1. WriteTask
      BY <2>2, WriteOps
    <3> QED
      BY <2>2, <3>1, WriteTaskFacts
  <2> QED
    BY <1>2, <2>1, <2>2
<1>4. Going(t)'
  BY <1>1, <1>3, GoingFrame DEF WillStay
<1>5. CASE n = 1
  BY <1>3, <1>4, <1>5, ContinueOn DEF Goes
<1>6. CASE n # 1
  <2>1. phase' = "writing" /\ todo' = Tail(todo) /\ cur' = cur
    BY <1>3, <1>6, ContinueOn
  <2>2. /\ Len(todo') = n - 1
        /\ \A i \in 1..n - 1 : todo'[i] = todo[i + 1] /\ i + 1 \in 1..n
    BY <1>1, <2>1
  <2>3. SetAgent(cur, "runnable")' = SetAgent(cur, "runnable") /\ agent'[cur] = "runnable"
    BY <1>1, <1>3, <2>1 DEF WillStay
  <2>4. \A i \in 1..Len(todo') :
          \/ todo'[i] = SetAgent(cur, "runnable")
          \/ todo'[i].op = "task" /\ todo'[i].status = status'[t]
    BY <1>3, <2>2 DEF WillStay
  <2>5. WillStay(t)'
    BY <1>4, <2>1, <2>3, <2>4 DEF WillStay
  <2> QED
    BY <2>1, <2>5 DEF Goes, Heading
<1> QED
  BY <1>5, <1>6

\* The commits that open a review.
LEMMA WriteReviewGoes ==
  ASSUME Inv, Write, NEW t, t = TaskOf(cur), NEW c \in AgentsOf(t), WillReview(t, c)
  PROVE  Goes(t)
<1> DEFINE r == SetAgent(c, "runnable")
           e == SetAgent(cur, "blocked")
<1>1. PICK n \in Nat :
        LET d == SetTask("in_review", n) IN
        \/ todo = <<r, e, d>>
        \/ todo = <<e, d>> /\ agent[c] = "runnable"
        \/ todo = <<d>> /\ agent[c] = "runnable" /\ agent[cur] = "blocked"
  BY DEF WillReview
<1> DEFINE d == SetTask("in_review", n)
<1>2. /\ cur = WorkerOf(t) /\ IsCritic(c) /\ ahead[t] /\ verified[t] /\ c # cur /\ t \in Tasks
      /\ c \in Agents /\ cur \in Agents
  <2>1. cur = WorkerOf(t) /\ IsCritic(c) /\ ahead[t] /\ verified[t] /\ t \in Tasks
    BY WriterFacts DEF WillReview
  <2>2. ~IsCritic(cur) /\ cur \in Agents /\ c \in Agents
    BY <2>1, AgentFacts, WorkerFacts
  <2> QED
    BY <2>1, <2>2
<1>3. /\ r.op = "agent" /\ r.who = c /\ r.state = "runnable"
      /\ e.op = "agent" /\ e.who = cur /\ e.state = "blocked"
      /\ d.op = "task" /\ d.status = "in_review"
  BY CommitFacts
<1>4. CASE todo = <<d>> /\ agent[c] = "runnable" /\ agent[cur] = "blocked"
  <2>1. Len(todo) = 1 /\ Head(todo) = d
    BY <1>4
  <2>2. WriteTask
    BY <1>3, <2>1, WriteOps
  <2>3. /\ status'[t] = "in_review" /\ UNCHANGED <<agent, ahead, verified>> /\ phase' = "free"
    BY <1>3, <2>1, <2>2, WriteTaskFacts, ContinueOn
  <2> QED
    BY <1>2, <1>4, <2>3 DEF Goes, Going
<1>5. CASE todo = <<r, e, d>> \/ (todo = <<e, d>> /\ agent[c] = "runnable")
  <2>1. /\ Len(todo) # 1 /\ Head(todo) \in {r, e}
        /\ \/ todo = <<r, e, d>> /\ Head(todo) = r /\ Tail(todo) = <<e, d>>
           \/ todo = <<e, d>> /\ agent[c] = "runnable" /\ Head(todo) = e /\ Tail(todo) = <<d>>
    <3> HIDE DEF r, e, d
    <3>1. CASE todo = <<r, e, d>>
      BY <3>1, HeadTail
    <3>2. CASE todo = <<e, d>> /\ agent[c] = "runnable"
      BY <3>2, HeadTail
    <3> QED
      BY <1>5, <3>1, <3>2
  <2>2. WriteAgent
    BY <1>3, <2>1, WriteOps
  <2>3. /\ phase' = "writing" /\ cur' = cur /\ todo' = Tail(todo) /\ UNCHANGED <<ahead, verified>>
        /\ \A a \in Agents : agent'[a] = IF a = Head(todo).who THEN Head(todo).state ELSE agent[a]
    BY <2>1, <2>2, WriteAgentFacts, ContinueOn
  <2>4. \/ todo' = <<e, d>> /\ agent'[c] = "runnable"
        \/ todo' = <<d>> /\ agent'[c] = "runnable" /\ agent'[cur] = "blocked"
    <3>1. CASE Head(todo) = r /\ Tail(todo) = <<e, d>>
      BY <1>2, <1>3, <2>3, <3>1
    <3>2. CASE agent[c] = "runnable" /\ Head(todo) = e /\ Tail(todo) = <<d>>
      BY <1>2, <1>3, <2>3, <3>2
    <3> QED
      BY <2>1, <3>1, <3>2
  <2>5. SetAgent(cur, "blocked")' = e /\ SetAgent(c, "runnable")' = r
    BY <2>3
  <2>6. WillReview(t, c)'
    BY <1>2, <2>3, <2>4, <2>5 DEF WillReview
  <2> QED
    BY <2>3, <2>6 DEF Goes, Heading
<1> QED
  BY <1>1, <1>4, <1>5

\* The merge of what a critic has passed, its failures, and the acceptance.
LEMMA WriteAcceptGoes ==
  ASSUME Inv, Write, NEW t, t = TaskOf(cur), WillAccept(t)
  PROVE  Goes(t)
<1> DEFINE W == WorkerOf(t)
           x == SetAgent(cur, "done")
           f == SetAgent(W, "done")
<1>1. t \in Tasks /\ W \in Agents /\ cur \in Agents
  BY WriterFacts, AgentFacts
<1>2. /\ x.op = "agent" /\ f.op = "agent" /\ Integrate.op = "integrate" /\ Accept.op = "accept"
  BY CommitFacts
<1>3. CASE todo = <<x, Integrate>>
  <2>1. Len(todo) # 1 /\ Head(todo) = x /\ Tail(todo) = <<Integrate>>
    BY <1>3, HeadTail
  <2>2. WriteAgent
    BY <1>2, <2>1, WriteOps
  <2>3. phase' = "writing" /\ cur' = cur /\ todo' = <<Integrate>>
    BY <2>1, <2>2, WriteAgentFacts, ContinueOn
  <2> QED
    BY <2>3 DEF Goes, Heading, WillAccept
<1>4. CASE todo = <<Integrate>>
  <2>1. Head(todo) = Integrate
    BY <1>4, HeadTail
  <2>2. Merge \/ MergeConflict \/ MergeError
    BY <1>2, <2>1, WriteOps
  <2>3. CASE Merge
    <3>1. phase' = "writing" /\ cur' = cur /\ todo' = <<Accept, f>>
      BY <2>3 DEF Merge, Perform
    <3> QED
      BY <3>1 DEF Goes, Heading, WillAccept
  <2>4. CASE MergeConflict
    <3>1. Decides(Rework(t, attempts[t]))
      BY <2>4 DEF MergeConflict, Decides
    <3> QED
      BY <1>1, <3>1, ReworkGoes
  <2>5. CASE MergeError
    <3>1. Decides(Block(cur, attempts[t]))
      BY <2>5 DEF MergeError, Decides
    <3>2. SendQuestion.op = "question"
      BY CommitFacts
    <3> QED
      BY <1>1, <3>1, <3>2, DecidesStop DEF Block
  <2> QED
    BY <2>2, <2>3, <2>4, <2>5
<1>5. CASE todo = <<Accept, f>>
  <2>1. Len(todo) # 1 /\ Head(todo) = Accept /\ Tail(todo) = <<f>>
    BY <1>5, HeadTail
  <2>2. WriteAccept
    BY <1>2, <2>1, WriteOps
  <2>3. status'[t] = "done" /\ Continue(Tail(todo))
    BY <1>1, <2>2 DEF WriteAccept, Inv, TypeOK
  <2>4. phase' = "writing" /\ cur' = cur /\ todo' = <<f>>
    BY <2>1, <2>3, ContinueOn
  <2> QED
    BY <2>3, <2>4 DEF Goes, Heading, WillAccept
<1>6. CASE todo = <<f>> /\ status[t] = "done"
  <2>1. Len(todo) = 1 /\ Head(todo) = f
    BY <1>6, HeadTail
  <2>2. WriteAgent
    BY <1>2, <2>1, WriteOps
  <2>3. phase' = "free" /\ status'[t] = "done"
    BY <1>6, <2>1, <2>2, WriteAgentFacts, ContinueOn
  <2> QED
    BY <2>3 DEF Goes, Going
<1> QED
  BY <1>3, <1>4, <1>5, <1>6 DEF WillAccept

\* Every commit of the holder leaves its task going or with commits that will.
LEMMA WriteGoes ==
  ASSUME Inv, GoingInv, Write, NEW t, t = TaskOf(cur)
  PROVE  Goes(t)
<1>1. Heading(t)
  BY WriterFacts DEF GoingInv
<1> QED
  BY <1>1, WriteBlockGoes, WriteStayGoes, WriteReviewGoes, WriteAcceptGoes DEF Heading


\* The holder's handlers and commits keep the invariant.
LEMMA HolderGoing ==
  ASSUME Inv, GoingInv, Handler \/ BudgetExhausted \/ Write
  PROVE  GoingInv'
<1> DEFINE t == TaskOf(cur)
<1>1. phase \in {"picked", "counted", "writing"} /\ run' = run
  BY DEF Handler, BudgetExhausted, Write, OnAsk, OnYield, OnFail, WorkerDoneRework,
         WorkerDoneChecked, HandlerError, ApplyVerdict, Handles, WriteTask, WriteAgent,
         WriteQuestion, Merge, MergeConflict, MergeError, WriteAccept, Next1, procs
<1>2. t \in Tasks /\ NoUnfinishedRun'
  BY <1>1, HolderFacts DEF Inv, RunInv, NoUnfinishedRun
<1>3. \A u \in Tasks : u # t => Going(u)'
  <2> SUFFICES ASSUME NEW u \in Tasks, u # t PROVE Going(u)'
    OBVIOUS
  <2>1. Going(u)
    BY DEF GoingInv
  <2> QED
    BY <2>1, OthersSame, GoingFrame
<1>4. PICK v \in Tasks : v = t
  BY <1>2
<1>5. Goes(v)
  BY <1>4, HandlerGoes, WriteGoes
<1>6. CASE phase' = "free" /\ Going(v)'
  <2>1. \A u \in Tasks : Going(u)'
    BY <1>3, <1>4, <1>6
  <2> QED
    BY <1>2, <1>6, <2>1 DEF GoingInv, TurnPhases
<1>7. CASE phase' = "writing" /\ cur' = cur /\ Heading(v)'
  <2>1. \A u \in Tasks : u # v => Going(u)'
    BY <1>3, <1>4
  <2>2. \A u \in Tasks : IF u # v THEN Going(u)' ELSE Heading(u)'
    BY <1>7, <2>1
  <2> QED
    BY <1>4, <1>7, <2>2 DEF GoingInv, TurnPhases
<1> QED
  BY <1>5, <1>6, <1>7 DEF Goes

\* The commits left to make do what they did before when nothing of the task changes.
LEMMA HeadingFrame ==
  ASSUME NEW t \in Tasks, Heading(t), status'[t] = status[t],
         UNCHANGED <<todo, cur, agent, ahead, verified>>
  PROVE  Heading(t)'
<1>1. Going(t)' <=> Going(t)
  BY DEF Going
<1>2. \A k, s : Leaves(t, k, s)' <=> Leaves(t, k, s)
  BY DEF Leaves
<1>3. WillBlock(t) \/ WillRun(t) => (WillBlock(t) \/ WillRun(t))'
  BY <1>2 DEF WillBlock, WillRun
<1>4. WillStay(t) => WillStay(t)'
  BY <1>1 DEF WillStay
<1>5. WillAccept(t) => WillAccept(t)'
  BY DEF WillAccept
<1>6. \A c : WillReview(t, c) => WillReview(t, c)'
  BY DEF WillReview
<1> QED
  BY <1>3, <1>4, <1>5, <1>6 DEF Heading

\* Every task can go on unless a handler is at work.
LEMMA AllGoing ==
  ASSUME Inv, GoingInv, phase \in TurnPhases \cup {"free"}
  PROVE  \A t \in Tasks : Going(t)
<1>1. phase = "free" => TaskOf(cur) \notin Tasks
  BY DEF Inv, TypeOK, NoAgent, TaskOf
<1> QED
  BY <1>1 DEF GoingInv

\* A step that changes neither rows, runs, branches nor the holder.
LEMMA SameGoing ==
  ASSUME GoingInv, UNCHANGED <<run, rows, repo, holder>>
  PROVE  GoingInv'
<1>1. UNCHANGED <<run, status, agent, ahead, verified, phase, cur, todo>>
  BY DEF rows, repo, holder
<1>2. \A t \in Tasks : Going(t) => Going(t)'
  BY <1>1, GoingFrame
<1>3. \A t \in Tasks : Heading(t) => Heading(t)'
  BY <1>1, HeadingFrame
<1> QED
  BY <1>1, <1>2, <1>3 DEF GoingInv, NoUnfinishedRun

\* The steps of a turn before the handler.
LEMMA TurnStepGoing ==
  ASSUME Inv, GoingInv, Turn
  PROVE  GoingInv'
<1>1. CASE BudgetExhausted
  BY <1>1, HolderGoing
<1>2. CASE TurnNotStarted \/ Deferred
  <2>1. /\ phase \in TurnPhases /\ phase' = "free"
        /\ UNCHANGED <<status, agent, ahead, verified>>
    BY <1>2 DEF TurnNotStarted, Deferred, Release, rows, repo, TurnPhases
  <2>2. \A t \in Tasks : Going(t)'
    BY <2>1, AllGoing, GoingFrame
  <2>3. NoUnfinishedRun'
    <3>1. CASE TurnNotStarted
      BY <3>1 DEF TurnNotStarted, procs, Inv, RunInv, NoUnfinishedRun
    <3>2. CASE Deferred
      BY <3>2, HolderFacts DEF Deferred, Inv, TypeOK, RunInv, SessionsExclusive, NoUnfinishedRun
    <3> QED
      BY <1>2, <3>1, <3>2
  <2> QED
    BY <2>1, <2>2, <2>3 DEF GoingInv, TurnPhases
<1>3. CASE StartRun \/ RecordAdapterOwner \/ (\E o \in Outcomes \ {"none"} : EndRun(o)) \/ CountTurn
  <2>1. phase \in TurnPhases /\ phase' \in TurnPhases /\ cur' = cur
    BY <1>3 DEF StartRun, RecordAdapterOwner, Hold, EndRun, CountTurn, TurnPhases
  <2>2. UNCHANGED <<status, agent, ahead, verified>>
    <3>1. CASE StartRun \/ RecordAdapterOwner \/ (\E o \in Outcomes \ {"none"} : EndRun(o))
      BY <3>1 DEF StartRun, RecordAdapterOwner, EndRun, rows, repo
    <3>2. CASE CountTurn
      BY <3>2 DEF CountTurn, repo
    <3> QED
      BY <1>3, <3>1, <3>2
  <2>3. \A t \in Tasks : Going(t)'
    BY <2>1, <2>2, AllGoing, GoingFrame
  <2>4. phase' # "free" /\ agent'[cur'] = "runnable"
    BY <2>1, <2>2 DEF GoingInv, TurnPhases
  <2> QED
    BY <2>1, <2>3, <2>4 DEF GoingInv
<1> QED
  BY <1>1, <1>2, <1>3 DEF Turn

\* A selection, with or without the claim of a task.
LEMMA SelectionGoing ==
  ASSUME Inv, GoingInv, Selection
  PROVE  GoingInv'
<1>1. ASSUME NEW a \in Agents, PickTurn(a)
      PROVE  GoingInv'
  <2>1. phase = "free" /\ phase' = "picked" /\ cur' = a /\ agent[a] = "runnable"
    BY <1>1 DEF PickTurn, Hold, Eligible
  <2>2. UNCHANGED <<status, agent, ahead, verified>>
    BY <1>1 DEF PickTurn, rows, repo
  <2>3. \A t \in Tasks : Going(t)'
    BY <2>1, <2>2, AllGoing, GoingFrame
  <2> QED
    BY <2>1, <2>2, <2>3 DEF GoingInv
<1>2. ASSUME NEW t \in Tasks, SpawnForQueuedTask(t)
      PROVE  GoingInv'
  <2> DEFINE W == WorkerOf(t)
  <2>1. phase = "free" /\ W \in AgentsOf(t) /\ AgentsOf(t) \subseteq Agents
    BY <1>2, AgentFacts DEF SpawnForQueuedTask
  <2>2. phase' = "picked" /\ cur' = W
    BY <1>2, <2>1 DEF SpawnForQueuedTask, Hold, GoingInv
  <2>3. /\ status' = [status EXCEPT ![t] = "in_progress"] /\ agent' = [agent EXCEPT ![W] = "runnable"]
        /\ UNCHANGED <<ahead, verified>>
    BY <1>2 DEF SpawnForQueuedTask, repo
  <2>4. /\ status'[t] = "in_progress" /\ \A u \in Tasks : u # t => status'[u] = status[u]
        /\ \A a \in Agents : agent'[a] = IF a = W THEN "runnable" ELSE agent[a]
    BY <2>1, <2>3 DEF Inv, TypeOK
  <2>5. ASSUME NEW u \in Tasks, u # t
        PROVE  Going(u)'
    <3>1. \A a \in AgentsOf(u) : agent'[a] = agent[a]
      BY <2>1, <2>4, <2>5, AgentFacts
    <3> QED
      BY <2>1, <2>3, <2>4, <2>5, <3>1, AllGoing, GoingFrame
  <2>6. Going(t)' /\ agent'[W] = "runnable"
    BY <2>1, <2>4 DEF Going
  <2>7. \A u \in Tasks : Going(u)'
    BY <2>5, <2>6
  <2> QED
    BY <2>2, <2>6, <2>7 DEF GoingInv
<1> QED
  BY <1>1, <1>2 DEF Selection

\* A session that works on its branch is the worker's of the turn under way: its task is
\* not in review.
LEMMA SessionGoing ==
  ASSUME Inv, GoingInv, Session
  PROVE  GoingInv'
<1>1. ASSUME NEW a \in Agents, CommitWork(a)
      PROVE  GoingInv'
  <2> DEFINE t == TaskOf(a)
  <2>1. /\ a \in live /\ ~IsCritic(a)
        /\ UNCHANGED <<status, agent, run, phase, cur, todo>>
        /\ ahead' = [ahead EXCEPT ![t] = TRUE] /\ verified' = [verified EXCEPT ![t] = FALSE]
    BY <1>1 DEF CommitWork, rows, procs, holder
  <2>2. run[a] # "none"
    BY <2>1 DEF Inv, RunInv, SessionsExclusive
  <2>3. phase \in {"registered", "session"}
    BY <2>2 DEF Inv, TypeOK, RunInv, GoingInv, NoUnfinishedRun
  <2>4. a = cur
    BY <2>2, <2>3, HolderFacts DEF Inv, RunInv, SessionsExclusive
  <2>5. \A u \in Tasks : Going(u)
    BY <2>3, AllGoing DEF TurnPhases
  <2>6. \A u \in Tasks : u # t => Going(u)'
    BY <2>1, <2>5, GoingFrame DEF Inv, TypeOK
  <2>7. Going(t)'
    <3>1. t \in Tasks /\ a \in AgentsOf(t) /\ agent[a] = "runnable"
      BY <2>3, <2>4, AgentFacts DEF GoingInv, TurnPhases
    <3>2. a = WorkerOf(t)
      BY <2>1, <3>1, WorkerFacts
    <3>3. status[t] # "in_review"
      BY <2>5, <3>1, <3>2 DEF Going
    <3> QED
      BY <2>1, <3>1, <3>3 DEF Going
  <2>8. \A u \in Tasks : Going(u)'
    BY <2>6, <2>7
  <2> QED
    BY <2>1, <2>3, <2>4, <2>8 DEF GoingInv
<1>2. ASSUME NEW a \in Agents, OrphanExits(a)
      PROVE  GoingInv'
  <2>1. UNCHANGED <<run, rows, repo, holder>>
    BY <1>2 DEF OrphanExits
  <2> QED
    BY <2>1, SameGoing
<1> QED
  BY <1>1, <1>2 DEF Session

\* The worker's row appears with the claim and stays; past the claim the task is never
\* "absent", and before it is queued or cancelled.
LEMMA StaffedStep ==
  ASSUME Staffed, NEW t \in Tasks,
         Claimed(t)' <=> Claimed(t),
         \/ status'[t] = status[t]
         \/ status'[t] \in {"queued", "cancelled"}
         \/ Claimed(t) /\ status'[t] # "absent"
  PROVE  /\ Claimed(t)' => status'[t] # "absent"
         /\ status'[t] \in ActiveStatuses \cup {"done"} => Claimed(t)'
BY DEF Staffed, ActiveStatuses

\* No commit takes the row of an agent or of a task away.
LEMMA WritesKeepRows ==
  ASSUME Inv, Write
  PROVE  /\ Head(todo).op = "task" => Head(todo).status \in ActiveStatuses
         /\ Head(todo).op = "agent" => Head(todo).state # "absent"
<1> DEFINE t == TaskOf(cur)
           H == HandlerWrites(AgentsOf(t))
           d == SetAgent(WorkerOf(t), "done")
<1>1. phase = "writing" /\ todo # <<>> /\ t \in Tasks /\ AgentsOf(t) \in SUBSET Agents
  BY WriterFacts, AgentFacts
<1>2. Head(todo) \in H \/ Head(todo) = Accept \/ Head(todo) = d
  BY <1>1, NextWrite
<1>3. d.op = "agent" /\ d.state = "done" /\ Accept.op = "accept"
  BY CommitFacts
<1>4. \A w \in H : /\ w.op = "task" => w.status \in ActiveStatuses
                   /\ w.op = "agent" => w.state # "absent"
  BY <1>1, WriteFacts
<1> HIDE DEF H, d
<1> QED
  BY <1>2, <1>3, <1>4

\* Every commit of the holder leaves the claimed tasks with a worker.
LEMMA WriteStaffed ==
  ASSUME Inv, Staffed, Write
  PROVE  Staffed'
<1>0. PICK t \in Tasks : t = TaskOf(cur)
  BY WriterFacts
<1>1. cur \in AgentsOf(t) /\ phase = "writing" /\ Claimed(t) /\ status[t] # "absent"
  BY <1>0, WriterFacts DEF Inv, HolderInv, Staffed
<1>2. ASSUME NEW u \in Tasks, u # t
      PROVE  /\ Claimed(u)' => status'[u] # "absent"
             /\ status'[u] \in ActiveStatuses \cup {"done"} => Claimed(u)'
  BY <1>0, <1>2, OthersSame, AgentFacts, StaffedStep DEF Claimed
<1>3. Claimed(t)'
  <2>1. WorkerOf(t) \in Agents
    BY <1>1, AgentFacts
  <2>2. CASE WriteAgent
    <3>1. Head(todo).state # "absent"
      BY <2>2, WritesKeepRows, WriteAgentFacts
    <3> QED
      BY <1>1, <2>1, <2>2, <3>1, WriteAgentFacts DEF Claimed
  <2>3. CASE ~WriteAgent
    <3>1. agent' = agent
      BY <2>3 DEF Write, WriteTask, WriteQuestion, Merge, MergeConflict, MergeError, WriteAccept, rows
    <3> QED
      BY <1>1, <3>1 DEF Claimed
  <2> QED
    BY <2>2, <2>3
<1>4. status'[t] # "absent"
  <2>1. CASE WriteTask
    BY <1>0, <1>1, <2>1, WritesKeepRows, WriteTaskFacts DEF ActiveStatuses
  <2>2. CASE WriteAccept
    BY <1>0, <1>1, <2>2 DEF WriteAccept, Inv, TypeOK
  <2>3. CASE ~WriteTask /\ ~WriteAccept
    BY <1>1, <2>3 DEF Write, WriteAgent, WriteQuestion, Merge, MergeConflict, MergeError, rows
  <2> QED
    BY <2>1, <2>2, <2>3
<1>5. \A u \in Tasks : /\ Claimed(u)' => status'[u] # "absent"
                       /\ status'[u] \in ActiveStatuses \cup {"done"} => Claimed(u)'
  BY <1>2, <1>3, <1>4
<1> QED
  BY <1>5 DEF Staffed

\* The owner's commands do as well: a blocked task, which resume --retry wakes the worker
\* of, has one.
LEMMA OwnerStaffed ==
  ASSUME Inv, Staffed, Owner
  PROVE  Staffed'
<1> SUFFICES ASSUME NEW u \in Tasks
             PROVE  /\ Claimed(u)' <=> Claimed(u)
                    /\ \/ status'[u] = status[u]
                       \/ status'[u] \in {"queued", "cancelled"}
                       \/ Claimed(u) /\ status'[u] # "absent"
  BY StaffedStep DEF Staffed
<1> DEFINE W == WorkerOf(u)
<1>1. W \in Agents /\ TaskOf(W) = u /\ ~IsCritic(W)
  BY AgentFacts, WorkerFacts
<1>2. \A t \in Tasks, s \in {"done", "blocked"} : agent' = SetAgentsOf(t, s) => (Claimed(u)' <=> Claimed(u))
  BY <1>1 DEF SetAgentsOf, Claimed
<1>3. \A t \in Tasks : RequeueRows(t) =>
        (Claimed(u)' <=> Claimed(u)) /\ status'[u] \in {status[u], "queued"}
  BY <1>2 DEF RequeueRows, Inv, TypeOK
<1>4. ASSUME NEW t \in Tasks, AddTask(t) \/ DiscardBranch(t) \/ RevertMerge(t)
      PROVE  agent' = agent /\ status'[u] \in {status[u], "queued"}
  BY <1>4 DEF AddTask, DiscardBranch, RevertMerge, rows, Inv, TypeOK
<1>5. ASSUME NEW t \in Tasks, CancelTask(t)
      PROVE  (Claimed(u)' <=> Claimed(u)) /\ status'[u] \in {status[u], "cancelled"}
  BY <1>2, <1>5 DEF CancelTask, Inv, TypeOK
<1>6. ASSUME NEW t \in Tasks, RequeueTask(t)
      PROVE  (Claimed(u)' <=> Claimed(u)) /\ status'[u] \in {status[u], "queued"}
  BY <1>3, <1>6 DEF RequeueTask
<1>7. CASE RequeueFresh \/ RollbackTask
  <2>1. TaskOf(cur) \in Tasks
    BY <1>7, HolderFacts DEF RequeueFresh, RollbackTask, Inv
  <2>2. CASE RequeueFresh
    BY <1>3, <2>1, <2>2 DEF RequeueFresh
  <2>3. CASE RollbackTask
    <3>1. status[TaskOf(cur)] = "done"
      BY <2>3 DEF RollbackTask, Inv, HolderInv
    <3>2. agent' = agent /\ status' = [status EXCEPT ![TaskOf(cur)] = "blocked"]
      BY <2>3 DEF RollbackTask
    <3>3. Claimed(TaskOf(cur))
      BY <2>1, <3>1 DEF Staffed
    <3> QED
      BY <3>2, <3>3 DEF Claimed, Inv, TypeOK
  <2> QED
    BY <1>7, <2>2, <2>3
<1>8. ASSUME NEW a \in Agents, AnswerMessage(a) \/ RecoverRun(a)
      PROVE  /\ Claimed(u)' <=> Claimed(u)
             /\ status'[u] = status[u] \/ (Claimed(u) /\ status'[u] # "absent")
  <2>1. Claimed(TaskOf(a)) /\ TaskOf(a) \in Tasks
    BY <1>8, AgentFacts DEF AnswerMessage, RecoverRun, Inv, RunInv, TaskInv
  <2>2. agent' = [agent EXCEPT ![a] = "runnable"] \/ agent' = [agent EXCEPT ![a] = "blocked"]
    BY <1>8 DEF AnswerMessage, RecoverRun
  <2>3. status' = [status EXCEPT ![TaskOf(a)] = "in_progress"] \/ status' = status
    BY <1>8 DEF AnswerMessage, RecoverRun
  <2>4. agent'[W] = agent[W] \/ (a = W /\ agent'[W] \in {"runnable", "blocked"})
    BY <1>1, <2>2 DEF Inv, TypeOK
  <2>5. Claimed(u)' <=> Claimed(u)
    BY <1>1, <2>1, <2>4 DEF Claimed
  <2>6. status'[u] = status[u] \/ (u = TaskOf(a) /\ status'[u] = "in_progress")
    BY <2>3 DEF Inv, TypeOK
  <2> QED
    BY <2>1, <2>5, <2>6
<1>9. CASE RetryBlockedTasks
  <2>1. status[u] = "blocked" => Claimed(u)
    BY DEF Staffed, ActiveStatuses
  <2>2. /\ status'[u] = IF status[u] = "blocked" THEN "in_progress" ELSE status[u]
        /\ agent'[W] = IF status[u] = "blocked" /\ agent[W] # "absent" THEN "runnable" ELSE agent[W]
    BY <1>1, <1>9 DEF RetryBlockedTasks, BlockedTasks
  <2> QED
    BY <2>1, <2>2 DEF Claimed
<1> QED
  BY <1>4, <1>5, <1>6, <1>7, <1>8, <1>9 DEF Owner, Claimed

\* Every step keeps the claimed tasks staffed, crashes included.
LEMMA NextStaffed ==
  ASSUME Inv, Staffed, [Next]_vars
  PROVE  Staffed'
<1>1. CASE UNCHANGED <<status, agent>>
  BY <1>1 DEF Staffed, Claimed
<1>2. ASSUME NEW t \in Tasks, SpawnForQueuedTask(t)
      PROVE  Staffed'
  <2>1. WorkerOf(t) \in Agents /\ \A u \in Tasks : u # t => WorkerOf(u) # WorkerOf(t) /\ WorkerOf(u) \in Agents
    BY AgentFacts
  <2>2. /\ status'[t] = "in_progress" /\ Claimed(t)'
        /\ \A u \in Tasks : u # t => status'[u] = status[u] /\ (Claimed(u)' <=> Claimed(u))
    BY <1>2, <2>1 DEF SpawnForQueuedTask, Claimed, Inv, TypeOK
  <2> QED
    BY <2>2 DEF Staffed
<1>3. CASE Turn \/ Handler \/ Session \/ Crash \/ UNCHANGED vars
  BY <1>1, <1>3
     DEF Turn, TurnNotStarted, BudgetExhausted, StartRun, RecordAdapterOwner, EndRun, Deferred,
         CountTurn, Handler, OnAsk, OnYield, OnFail, WorkerDoneRework, WorkerDoneChecked,
         HandlerError, ApplyVerdict, Session, CommitWork, OrphanExits, Crash, rows, vars
<1>4. ASSUME NEW a \in Agents, PickTurn(a)
      PROVE  Staffed'
  BY <1>1, <1>4 DEF PickTurn, rows
<1> QED
  BY <1>2, <1>3, <1>4, WriteStaffed, OwnerStaffed DEF Next, Selection

\* A command that starts with the lock free and changes task t alone.
LEMMA CommandGoing ==
  ASSUME Inv, GoingInv, phase = "free", NEW t \in Tasks, run' = run,
         \/ phase' = "free" /\ cur' = cur
         \/ phase' \in {"discarding", "reverting"} /\ cur' = WorkerOf(t),
         \A u \in Tasks \ {t} :
           /\ \A a \in AgentsOf(u) : agent'[a] = agent[a]
           /\ status'[u] = status[u] /\ ahead'[u] = ahead[u] /\ verified'[u] = verified[u],
         phase' = "free" => Going(t)'
  PROVE  GoingInv'
<1>1. \A u \in Tasks : u # t => Going(u)'
  BY AllGoing, GoingFrame
<1>2. NoUnfinishedRun'
  BY DEF GoingInv, NoUnfinishedRun
<1>3. CASE phase' = "free"
  <2>1. \A u \in Tasks : Going(u)'
    BY <1>1, <1>3
  <2> QED
    BY <1>2, <1>3, <2>1 DEF GoingInv
<1>4. CASE phase' \in {"discarding", "reverting"} /\ cur' = WorkerOf(t)
  <2>1. TaskOf(cur') = t
    BY <1>4 DEF TaskOf, WorkerOf
  <2>2. phase' # "free" /\ phase' \notin TurnPhases /\ phase' # "writing"
    BY <1>4
  <2> QED
    BY <1>1, <2>1, <2>2 DEF GoingInv
<1> QED
  BY <1>3, <1>4

\* A task that is added is in nobody's hands: it is not the lock holder's.
LEMMA AddGoing ==
  ASSUME Inv, Staffed, GoingInv, NEW t \in Tasks, AddTask(t)
  PROVE  GoingInv'
<1>1. /\ status[t] = "absent" /\ status' = [status EXCEPT ![t] = "queued"]
      /\ UNCHANGED <<agent, ahead, verified, run, phase, cur, todo>>
  BY DEF AddTask, repo, procs, holder
<1>2. status'[t] = "queued" /\ \A u \in Tasks : u # t => status'[u] = status[u]
  BY <1>1 DEF Inv, TypeOK
<1>3. \A u \in Tasks : Going(u) => Going(u)'
  BY <1>1, <1>2, GoingFrame DEF Going
<1>4. phase = "writing" => TaskOf(cur) # t
  BY <1>1 DEF Inv, HolderInv, Staffed
<1>5. \A u \in Tasks : u # t /\ Heading(u) => Heading(u)'
  BY <1>1, <1>2, HeadingFrame
<1>6. NoUnfinishedRun' <=> NoUnfinishedRun
  BY <1>1 DEF NoUnfinishedRun
<1> QED
  BY <1>1, <1>3, <1>4, <1>5, <1>6 DEF GoingInv

\* The owner's commands.  An answer wakes the agent that asked, and resume --retry the
\* worker of every blocked task.
LEMMA OwnerGoing ==
  ASSUME Inv, Staffed, GoingInv, Owner
  PROVE  GoingInv'
<1>1. ASSUME NEW t \in Tasks, CancelTask(t) \/ RequeueTask(t)
      PROVE  GoingInv'
  <2>1. /\ phase = "free"
        /\ \E s \in {"cancelled", "queued"} : status' = [status EXCEPT ![t] = s]
        /\ \E s \in {"done", "blocked"} : agent' = SetAgentsOf(t, s)
        /\ UNCHANGED <<ahead, verified, run, phase, cur>>
    BY <1>1 DEF CancelTask, RequeueTask, RequeueRows, repo, procs, holder
  <2>2. /\ status'[t] \in {"cancelled", "queued"}
        /\ \A u \in Tasks \ {t} : status'[u] = status[u] /\ \A a \in AgentsOf(u) : agent'[a] = agent[a]
    BY <2>1, AgentFacts DEF SetAgentsOf, Inv, TypeOK
  <2> QED
    BY <2>1, <2>2, CommandGoing DEF Going
<1>2. ASSUME NEW t \in Tasks, DiscardBranch(t) \/ RevertMerge(t)
      PROVE  GoingInv'
  <2>1. /\ phase = "free" /\ phase' \in {"discarding", "reverting"} /\ cur' = WorkerOf(t)
        /\ UNCHANGED <<status, agent, run>>
    BY <1>2 DEF DiscardBranch, RevertMerge, Hold, rows, procs
  <2>2. \A u \in Tasks \ {t} : ahead'[u] = ahead[u] /\ verified'[u] = verified[u]
    BY <1>2 DEF DiscardBranch, RevertMerge, Inv, TypeOK
  <2> QED
    BY <2>1, <2>2, CommandGoing
<1>3. CASE RequeueFresh \/ RollbackTask
  <2>1. /\ phase \in {"discarding", "reverting"} /\ phase' = "free"
        /\ UNCHANGED <<ahead, verified, run>>
    BY <1>3 DEF RequeueFresh, RollbackTask, Release, repo, procs
  <2>2. NoUnfinishedRun'
    BY <2>1 DEF Inv, RunInv, NoUnfinishedRun
  <2>3. PICK t \in Tasks : t = TaskOf(cur)
    BY <2>1, HolderFacts DEF Inv
  <2>4. /\ \E s \in {"queued", "blocked"} : status' = [status EXCEPT ![t] = s]
        /\ agent' = SetAgentsOf(t, "blocked") \/ agent' = agent
    BY <1>3, <2>3 DEF RequeueFresh, RollbackTask, RequeueRows
  <2>5. /\ status'[t] \in {"queued", "blocked"}
        /\ \A u \in Tasks \ {t} : status'[u] = status[u] /\ \A a \in AgentsOf(u) : agent'[a] = agent[a]
    BY <2>4, AgentFacts DEF SetAgentsOf, Inv, TypeOK
  <2>6. \A u \in Tasks \ {t} : Going(u)'
    BY <2>1, <2>3, <2>5, GoingFrame DEF GoingInv
  <2>7. \A u \in Tasks : Going(u)'
    BY <2>5, <2>6 DEF Going
  <2> QED
    BY <2>1, <2>2, <2>7 DEF GoingInv
<1>4. ASSUME NEW a \in Agents, AnswerMessage(a)
      PROVE  GoingInv'
  <2>1. PICK t \in Tasks : t = TaskOf(a) /\ a \in AgentsOf(t)
    BY AgentFacts
  <2>2. /\ phase = "free" /\ agent' = [agent EXCEPT ![a] = "runnable"]
        /\ status' = [status EXCEPT ![t] = "in_progress"]
        /\ UNCHANGED <<ahead, verified, run, phase, cur>>
    BY <1>4, <2>1 DEF AnswerMessage, repo, procs, holder
  <2>3. /\ status'[t] = "in_progress" /\ agent'[a] = "runnable"
        /\ \A u \in Tasks \ {t} : status'[u] = status[u] /\ \A b \in AgentsOf(u) : agent'[b] = agent[b]
    BY <2>1, <2>2, AgentFacts DEF Inv, TypeOK
  <2>4. Going(t)'
    BY <2>1, <2>3 DEF Going
  <2> QED
    BY <2>2, <2>3, <2>4, CommandGoing
<1>5. ASSUME NEW a \in Agents, RecoverRun(a)
      PROVE  GoingInv'
  BY <1>5 DEF RecoverRun, GoingInv, NoUnfinishedRun
<1>6. CASE RetryBlockedTasks
  <2>1. phase = "free" /\ UNCHANGED <<ahead, verified, run, phase, cur>>
    BY <1>6 DEF RetryBlockedTasks, repo, procs, holder
  <2>2. ASSUME NEW u \in Tasks, status[u] # "blocked"
        PROVE  Going(u)'
    <3>1. status'[u] = status[u] /\ \A a \in AgentsOf(u) : agent'[a] = agent[a]
      BY <1>6, <2>2, AgentFacts DEF RetryBlockedTasks, BlockedTasks
    <3> QED
      BY <2>1, <3>1, AllGoing, GoingFrame
  <2>3. ASSUME NEW u \in Tasks, status[u] = "blocked"
        PROVE  Going(u)'
    <3> DEFINE W == WorkerOf(u)
    <3>1. W \in AgentsOf(u) /\ W \in Agents /\ TaskOf(W) = u /\ ~IsCritic(W)
      BY AgentFacts, WorkerFacts
    <3>2. agent[W] # "absent"
      BY <2>3 DEF Staffed, Claimed, ActiveStatuses
    <3>3. status'[u] = "in_progress" /\ agent'[W] = "runnable"
      BY <1>6, <2>3, <3>1, <3>2 DEF RetryBlockedTasks, BlockedTasks
    <3> QED
      BY <3>1, <3>3 DEF Going
  <2>4. \A u \in Tasks : Going(u)'
    BY <2>2, <2>3
  <2> QED
    BY <2>1, <2>4 DEF GoingInv, NoUnfinishedRun
<1> QED
  BY <1>1, <1>2, <1>3, <1>4, <1>5, <1>6, AddGoing DEF Owner

\* Every step keeps the invariant, if no process dies.
LEMMA NextGoing ==
  ASSUME ~CrashPossible, Inv, Staffed, GoingInv, [Next]_vars
  PROVE  GoingInv'
<1>1. ~Crash
  BY DEF Crash
<1>2. CASE UNCHANGED vars
  BY <1>2, SameGoing DEF vars, procs
<1> QED
  BY <1>1, <1>2, SelectionGoing, TurnStepGoing, HolderGoing, OwnerGoing, SessionGoing DEF Next

\* Both hold initially, when no task was added.
LEMMA InitGoing == Init => Staffed /\ GoingInv
<1> SUFFICES ASSUME Init PROVE Staffed /\ GoingInv
  OBVIOUS
<1>1. \A t \in Tasks : status[t] = "absent" /\ ~Claimed(t)
  BY AgentFacts DEF Init, Claimed
<1>2. \A t \in Tasks : Going(t)
  BY <1>1 DEF Going
<1> QED
  BY <1>1, <1>2 DEF Init, GoingInv, NoUnfinishedRun, Staffed, ActiveStatuses

\* Whatever crashes and whatever the owner does, the tasks past the queue are those with a
\* worker, and their rows are there.
THEOREM ClaimedIsStaffed == Spec => []Staffed
<1>1. Inv /\ Staffed /\ [Next]_vars => Staffed'
  BY NextStaffed
<1> QED
  BY <1>1, InitGoing, Invariance, PTL DEF Spec

\* Without crashes, every task in nobody's hands can go on, and after the commits its
\* handler has still to make the holder's can, in every reachable state.
THEOREM GoingInvariance == ASSUME ~CrashPossible PROVE Spec => []GoingInv
<1>1. Inv /\ Staffed /\ GoingInv /\ [Next]_vars => GoingInv'
  BY NextGoing
<1> QED
  BY <1>1, InitGoing, Invariance, ClaimedIsStaffed, PTL DEF Spec

\* A task in review has a checked branch, a suspended worker and a critic to
\* be scheduled, unless a process died.
THEOREM ReviewsCanStart == ASSUME ~CrashPossible PROVE Spec => []InReviewIsReviewable
<1>1. Inv /\ GoingInv => InReviewIsReviewable
  BY AllGoing DEF Going, InReviewIsReviewable
<1> QED
  BY <1>1, GoingInvariance, Invariance, PTL

\* Every claimed task has an agent to schedule, unless a process died.
THEOREM NoTaskStranded == ASSUME ~CrashPossible PROVE Spec => []NoStrandedTask
<1>1. Inv /\ GoingInv => NoStrandedTask
  BY AllGoing DEF Going, NoStrandedTask
<1> QED
  BY <1>1, GoingInvariance, Invariance, PTL

(***************************************************************************)
(* What follows, for an owner who is orderly.                              *)
(***************************************************************************)

\* A task in no handler's hands is settled, and the commits a handler has
\* still to make settle the one it works on, in every reachable state.
THEOREM OrderlyInvariance == ASSUME Orderly PROVE Spec => []OrderlyInv
<1>1. Inv /\ OrderlyInv /\ [Next]_vars => OrderlyInv'
  BY NextOrderly
<1> QED
  BY <1>1, InitOrderly, Invariance, PTL DEF Spec

\* The review loop has one actor per task: a worker and its critic, or two
\* critics, never both wait for the scheduler.
THEOREM OneActorPerTask == ASSUME Orderly PROVE Spec => []OneActor
<1>1. ASSUME Inv, OrderlyInv
      PROVE  OneActor
  <2> SUFFICES ASSUME LockFree, NEW a \in Agents, NEW b \in Agents,
                      agent[a] = "runnable", agent[b] = "runnable", TaskOf(a) = TaskOf(b)
               PROVE  a = b
    BY DEF OneActor
  <2>1. PICK t \in Tasks : t = TaskOf(a) /\ a \in AgentsOf(t) /\ b \in AgentsOf(t)
    BY AgentFacts
  <2>2. Settled(t)
    BY <1>1, AllSettled
  <2> QED
    BY <2>1, <2>2 DEF Settled, Calm
<1>2. Inv /\ OrderlyInv => OneActor
  BY <1>1
<1> QED
  BY <1>2, OrderlyInvariance, Invariance, PTL

\* A critic reviews, and the arbiter merges, only a branch head on which the
\* arbiter's checks passed.
THEOREM ReviewsAreChecked == ASSUME Orderly PROVE Spec => []ReviewedIsChecked
<1>1. ASSUME Inv, OrderlyInv, NEW a \in live, IsCritic(a), ahead[TaskOf(a)]
      PROVE  verified[TaskOf(a)]
  <2>1. a \in Agents /\ run[a] # "none"
    BY <1>1 DEF Inv, TypeOK, RunInv, SessionsExclusive
  <2>2. phase \in {"registered", "session"}
    BY <1>1, <2>1 DEF Inv, TypeOK, RunInv, OrderlyInv, NoUnfinishedRun
  <2>3. a = cur
    BY <1>1, <2>1, <2>2, HolderFacts DEF Inv, RunInv, SessionsExclusive
  <2> QED
    BY <1>1, <2>2, <2>3, TurnFacts DEF InTurn, InHands, Checked
<1>2. ASSUME Inv, OrderlyInv, Next1("integrate")
      PROVE  verified[TaskOf(cur)]
  <2> DEFINE t == TaskOf(cur)
  <2>1. phase = "writing" /\ todo # <<>> /\ Head(todo).op = "integrate" /\ t \in Tasks
    BY <1>2, HolderFacts DEF Next1, Inv
  <2>2. Settling(t)
    BY <1>2, <2>1 DEF OrderlyInv
  <2>3. todo[1].op = "integrate"
    BY <1>2, <2>1, EmptySeq DEF Inv, TypeOK
  <2>4. ~ToBlock(t)
    BY <2>3 DEF ToBlock, Quiet
  <2>5. ~ToAsk(t) /\ ~ToAccept(t)
    BY <2>3, CommitFacts DEF ToAsk, ToAccept
  <2>6. \A a : ~ToRun(t, a) /\ ~ToReview(t, a)
    BY <2>3, CommitFacts DEF ToRun, ToReview
  <2>7. ToMerge(t)
    BY <2>2, <2>4, <2>5, <2>6 DEF Settling
  <2> QED
    BY <2>7 DEF ToMerge, Checked
<1>3. Inv /\ OrderlyInv => ReviewedIsChecked
  BY <1>1, <1>2 DEF ReviewedIsChecked
<1> QED
  BY <1>3, OrderlyInvariance, Invariance, PTL

\* An accepted task has its merge recorded and in effect, and nothing on its branch is
\* left unmerged; what an earlier rollback reverted is not in it ("partial").
THEOREM AcceptedWorkIsMerged == ASSUME Orderly PROVE Spec => []AcceptedIsMerged
<1>1. ASSUME Inv, OrderlyInv, NEW t \in Tasks, status[t] = "done", phase # "reverting"
      PROVE  recorded[t] /\ base[t] \in {"merged", "partial"} /\ ~ahead[t]
  <2>1. recorded[t]
    BY <1>1 DEF Inv, TaskInv
  <2>2. CASE Settled(t)
    BY <1>1, <2>1, <2>2 DEF Settled
  <2>3. CASE ~Settled(t)
    <3>1. t = TaskOf(cur) /\ phase \notin TurnPhases
      BY <1>1, <2>3 DEF OrderlyInv
    <3>2. phase # "free" /\ phase # "discarding"
      BY <1>1, <2>3, <3>1, AllSettled DEF Inv, HolderInv
    <3>3. phase = "writing"
      BY <1>1, <3>1, <3>2 DEF Inv, TypeOK
    <3>4. Settling(t) /\ WritesOf(t)
      BY <1>1, <3>1, <3>3 DEF OrderlyInv, Inv, HolderInv
    <3>5. todo = <<SetAgent(WorkerOf(t), "done")>>
      BY <1>1, <3>4 DEF WritesOf, ActiveStatuses
    <3> QED
      BY <2>1, <3>4, <3>5, LastWrite
  <2> QED
    BY <2>2, <2>3
<1>2. Inv /\ OrderlyInv => AcceptedIsMerged
  BY <1>1 DEF AcceptedIsMerged
<1> QED
  BY <1>2, OrderlyInvariance, Invariance, PTL

\* The scheduler never picks an agent whose step would return idle while the
\* agent stays the first to be picked.
THEOREM IdleIsIdle == ASSUME Orderly PROVE Spec => []IdleMeansNothingToDo
<1>1. ASSUME Inv, OrderlyInv, LockFree, NEW a \in Runnable
      PROVE  status[TaskOf(a)] \in ActiveStatuses
  <2>1. PICK t \in Tasks : t = TaskOf(a) /\ a \in AgentsOf(t)
    BY AgentFacts DEF Runnable
  <2>2. Settled(t) /\ agent[a] = "runnable"
    BY <1>1, <2>1, AllSettled DEF Runnable
  <2> QED
    BY <2>1, <2>2 DEF Settled, InHands, ActiveStatuses
<1>2. Inv /\ OrderlyInv => IdleMeansNothingToDo
  BY <1>1 DEF IdleMeansNothingToDo
<1> QED
  BY <1>2, OrderlyInvariance, Invariance, PTL

\* A task that used up its attempts is not worked on.
THEOREM ExhaustedIsBlocked == ASSUME Orderly PROVE Spec => []AttemptsExhausted
<1>1. Inv /\ OrderlyInv => AttemptsExhausted
  BY AllSettled DEF Settled, AttemptsExhausted
<1> QED
  BY <1>1, OrderlyInvariance, Invariance, PTL
=============================================================================
