# A verification project for Neocortex

Neocortex (`src/nc`) runs coding agents against git repositories. A task is
queued by the owner, worked on in a worktree by a *worker* agent, checked by the
*arbiter* (shell acceptance checks), reviewed by *critic* agents, and merged. One
`nc run` process takes one agent turn at a time; a timer starts it again after it
ends. The owner acts on the same SQLite database and the same repositories from
other processes (command line, web UI), and any of these processes may die at any
point while the adapter process it started lives on.

This directory holds TLA+ models translated from that code, the configurations
that model-check them, and machine-checked proofs about them.

    tlc -workers 2 -config LifecycleHostile.cfg MCLifecycle.tla
    tlapm LifecycleProofs.tla

The tables below name the configuration and the module of every run and the
modules with proofs.

`PROJECT.json` lists, for each definition, the source lines it stands for, and
for each property, the changes of the code that break it.

## Inventory

| Component | State it keeps | Operations | Talks to | What makes it correct |
|---|---|---|---|---|
| Scheduler (`scheduler.py`, `turn.py`) | `task`, `agent`, `run`, `message` rows; `consecutive_failures` | pick, spawn, turn, handlers of ASK / YIELD / FAIL / DONE, verdicts, escalation | arbiter (calls), adapter (subprocess), owner (rows, locks) | one session at a time; only checked heads are reviewed and merged; every claimed task goes on; attempts and turns bound the loop |
| Owner commands (`operations.py`, `state.py`, `lifecycle.py`) | the same rows, the lifecycle and repository file locks | add, cancel, requeue, requeue --fresh, rollback, answer, resume --retry, recover-runs, feedback, approve, reject | scheduler (shared rows) | no command steals a task under a session; cancelled, accepted and queued work stays quiet; dependencies hold |
| Arbiter (`arbiter.py`) | git branches, worktrees, the base branch | ensure_worktree, run_checks, integrate, mirror, revert, remove_worktree | scheduler, owner commands | what is accepted is on the base; what is merged was checked |
| Run ownership (`state.py`, `adapters.py`, `operations.py`) | run row's pid, start time, process group, cgroup | start_run, record_adapter_owner, _owner_status, recover_runs | adapter processes, the kernel's process table | a run is closed only when its processes are known to be gone |
| Scheduler loop (`scheduler.py` run, preflight) | `consecutive_failures`, STOP file, `defer_until`, probes | run, step, preflight, defer, trip, resume | provider, the turns | a deferral costs no turn; three failing turns trip the breaker |
| Planning (`turn.py`, `state.py`, `proposals.py`) | `proposal`, `plan_review`, planner messages, revisions | planner turn, plan-critic turn, feedback, approve, reject, revise | scheduler, owner | no word of the owner lost, one replacement per revision, no review lost or repeated, only workable batches approved |
| Backup (`backup_worker.py`, `snapshot.py`) | `backup_state` generations, manifests, blocks | run_once, status, backup, prune, restore | SQLite writers | an acknowledged generation is in a snapshot; every published manifest restores |
| ACP session (`acp_wire.py`, `acp_stream.py`, `acp_client.py`, `adapters.py`) | pending requests, stream transcript, deadlines | request, response, notification, prompt, cancel, close | adapter process | a session that failed is never reported as finished |
| ACP decoder, contract, runtime installation | none shared | parse, install | - | sequential; covered by the unit tests |
| Readiness probes, web UI, CLI, configuration, prompts | none of their own | call the operations above | - | input and output |

### Hard behaviours

* **Interleaving.** `nc run` gives the lifecycle lock up between turns; the owner
  acts in every gap. `add` takes no lock, so it acts even during a turn.
* **Atomicity.** A handler is several commits: `_on_done` runs the checks, adds
  the critic, blocks the worker, sets the task's status; `_apply_verdict`
  retires the critic, merges in git, and then writes the task and worker rows.
* **Crashes.** Between any two of those commits the process may die. The file
  lock dies with it, the adapter need not. `requeue --fresh` deletes the branch,
  and `rollback` reverts the merge, before their transaction commits.
* **Stale state.** `pick` reads without the repository lock and `_step_locked`
  rereads under it; questions are answered long after they were asked.
* **Deadlines.** In an ACP turn every answer, every malformed frame and the death
  of the server race a deadline, and the windows after it race them again; the
  child may leave helpers that outlive it.
* **No lock.** Feedback, approval and rejection take no lifecycle lock: they fall
  between any two transactions of a planner's or a critic's turn.
* **The kernel.** Recovery looks at a process table that changes while it looks:
  processes fork, leave their group, end, and their PIDs are used again.
* **Bounds.** `max_attempts` is compared on four paths, `budget_turns` on one;
  the limit on pending proposals is read long before it is used up.
* **Liveness.** A review loop that is not counted somewhere never ends.

The complete list, with the line where each hazard bites and the properties that
cover it, is `hazards` in `PROJECT.json`.

## Modules

| Module | What it is |
|---|---|
| `Lifecycle` | tasks, agents, run rows, branches, the lock: scheduler turns, owner commands and crashes, interleaved |
| `TaskBoard` | the abstract specification: which status may follow which, on what condition |
| `LifecycleInv` | the inductive invariant of `Lifecycle`, and that of what its turns cost |
| `LifecycleProofs` | theorems and proofs |
| `LifecycleOrderly` | the inductive invariant of `Lifecycle` under an orderly owner: no death inside a handler, no `resume --retry`; and the weaker one that `--retry` leaves |
| `OrderlyProofs` | theorems and proofs |
| `MCLifecycle` | the dependency chain the runs use |
| `Planning` | the planner's and the plan critic's turns, proposals, revisions, messages, reviews, and the owner who acts without the lock |
| `PlanningProofs` | inductive invariant, theorems and proofs |
| `SchedulerLoop` | composes `Planning` with `nc run` and `nc step`: probes, deferral, STOP, breaker; a task's turn appears by its outcome |
| `SchedulerLoopProofs` | inductive invariant, theorems (among them that the loop implements `Planning`) and proofs |
| `MCSchedulerLoop` | which roles share an adapter in the runs |
| `ProposalGraph` | the approval of a proposal: the search for cycles and the decision |
| `ProposalGraphProofs` | inductive invariant of the search, theorems and proofs |
| `RunOwnership` | processes, cgroups and the evidence of runs; `recover-runs` |
| `RunOwnershipProofs` | inductive invariant, theorems and proofs |
| `SnapshotStore` | incremental backups of several homes into one store of shared blocks: staging, blocks, manifests, pruning, errors, deaths |
| `BackupWorker` | the unattended worker on top of it: generations, acknowledgement, status; and the owner's own backups |
| `RecoveryPoint` | the abstract specification: coverage and acknowledgement of generations |
| `BackupInv` | the inductive invariant of `BackupWorker` |
| `BackupProofs` | theorems and proofs |
| `MCBackup` | the homes and processes the runs use |
| `AcpProcess` | the child process of an ACP turn: clock, process tree, the close sequence with its bounded waits |
| `AcpTurn` | on top of it, one turn: requests, reading and dispatch, deadlines, cancellation, assessment |
| `TurnPromise` | the abstract specification: what a turn promises to the scheduler |
| `AcpInv` | the inductive invariant of `AcpTurn` |
| `AcpProofs` | theorems and proofs |

How the modules divide the scheduler. `Lifecycle` has tasks and everything a task
turn does to them, and leaves open when the scheduler acts; `SchedulerLoop` has
when it acts, and of a task turn only what decides that, its outcome. Planning
turns touch no task, agent or branch of `Lifecycle`, so `Planning` has them
alone; `SchedulerLoop` EXTENDS it and takes its actions one by one.
`RunOwnership` opens up what `Lifecycle` takes as a fact: whether a run's adapter
is alive and whether the evidence says so.

### How `Lifecycle` corresponds to the code

*State.* `status`, `attempts` and `recorded` are columns of `task`; `agent` and
`turns` columns of `agent`; `questions` the undelivered QUESTION messages to the
owner, counted per agent; `run` the agent's unfinished row of `run`, with or
without the adapter's process evidence. `live` is the operating system's side:
which adapters are alive. `ahead`, `verified` and `base` are git: commits on
`nc/<task>` the base lacks, whether the arbiter's checks passed on that head, and
what the base branch holds of the merges of `nc/<task>`: there was none (`absent`),
all of them are in effect (`merged`), the last one was reverted (`reverted`), or the
last one is in effect but an earlier one is not (`partial`). A revert does not take
commits out of the history of the base, so a requeue after a rollback, which keeps the
branch, and a new acceptance lead to `partial`: `git merge` brings only the new commits
(`Merged`). Only `requeue --fresh` starts again from the base. `phase`, `cur`, `outcome` and `todo` are
the stack of the process that holds the lifecycle lock.

*Steps.* One action is one commit: an SQLite transaction or a git command. A
handler's action decides, from the outcome, which commits will follow (`todo`),
and `Write` makes them one at a time in the order of the code; the last one
leaves the lock. So a `Crash` may fall between any two. The selection is one step
(`PickTurn`, `SpawnForQueuedTask`): it runs under the lock, and its only commit
is the activation of the queued task. Commands that are one transaction under the
lock are one action; `requeue --fresh` and `rollback` are two, git first, as in
the code. A command that meets a taken lock is refused, which is no step.

*The turn.* `PickTurn` (pick and the reread) - `BudgetExhausted` or `StartRun` -
`RecordAdapterOwner` - `CommitWork` any number of times - `EndRun(o)` -
`CountTurn` - the handler - `Write`s. `TurnNotStarted` stands for a failed
preflight, a deferral before the session and a worktree that cannot be made;
`Deferred` for a provider outage in the session, which costs no turn.

*Crash.* The lock is free again, rows and branches stay as they are; the run, if
one was registered, stays unfinished, and its adapter may live on and keep
committing (`CommitWork` of an orphan) until `OrphanExits`. An adapter can be
alive although its evidence was never recorded.

*Abstractions.*

* The worktree is identified with the branch head: uncommitted files are not
  distinguished. That a check may pass on uncommitted files is a hazard that no
  property covers.
* `pick` orders agents by role, priority, creation, `updated_at`; the model keeps
  role and priority and leaves the order of two critics of one task open, which
  allows more than the code does. Task ids are their priority order.
* A critic is told not to commit (`roles.py`), and does not in the model.
* One scheduler: a second one meets the lock and returns.
* The findings a critic sends, the texts of messages, incidents, inbox delivery,
  the mirror push and the removal of worktrees (after acceptance, by `nc gc`)
  do not change what the lifecycle reads and are left out.
* The breaker, STOP and `defer_until` only stop the scheduler between steps,
  which the model always allows (no step is forced without fairness); they are
  the subject of `SchedulerLoop`.
* A question that another agent's role name is given is stored and reaches
  nobody (`AskWrites(FALSE)`).

### How `Planning` corresponds to the code

*State.* `planner` is the planner's `agent.state`; `touched` says that the row's
`updated_at` moved since the turn read it, on which `run_planner_turn`'s last
UPDATE is conditional. `sent` and `delivered` are the planner's messages,
`questions` its own to the owner. `proposal`, `revision`, `replacement` are
`proposal.status` and the columns of `proposal_revision`; `review` and `attempt`
are `plan_review.status` and whether a `plan_review_attempt` is running;
`unfinished` counts the open `run` rows. `stage` and `actor` say where the
scheduler is and for whom; `gotRevision`, `gotInbox`, `shown` are what a turn has
read and will use after later transactions. `heard`, `silenced` and `uses` are
history.

*Steps.* One action is one transaction, or one read used later. A planner's turn:
`Pick` - `SelectPlanner` - `ReadRevision` - `ReadInbox` - `StartPlannerRun` (the
second read of the revision, the brief, the run) - the session, which ends in
`AddProposal`, `AskOwner` or `NoEffect` - `Deliver` for each message -
`EndPlannerRun` - `UpdatePlanner`. A critic's: `SelectReview` - `ClaimReview` -
`StartReviewRun` - `RecordAttempt` - `CompleteReview`, or `ReviewDeferred` /
`ReviewFailed` and `CloseAttempt` - `EndReviewRun`. `Feedback`, `Revise` and
`Decide` (approve, reject) may fall anywhere; `Answer` and the recoveries need the
lock, which a turn holds. `Crash` falls anywhere in a turn.

*Abstractions.* One project with one planner. The texts of messages, proposals and
advice are left out, so is what approval creates: the lint that approval runs is
`ProposalGraph`, the tasks it adds are `AddTask` of `Lifecycle`. What `pick` reads
of tasks is two choices, `busy` and `crowded`. `MaxMessages`, `MaxProposals` and
`MaxCrashes` are bounds of the runs.

### How `SchedulerLoop` corresponds to the code

*State.* `loop` is the position in `Scheduler.run` and `step`; `failures` and
`probed` are `consecutive_failures` and `_preflight_pairs`; `stop` is the STOP
file; `deferred` says that the largest recorded `defer_until` is in the future;
`left` bounds the task turns. `bad` and `row` are history: turns in a row that
failed by their outcome, and by their outcome or while it was applied.

*Steps.* `Start` - `BeginStep` if neither STOP nor a deferral stands - `PickTask`
or `PickPlanning` - `ProbePasses` or `ProbeFails` for the role's pair, unless this
run has probed it - a task turn (`TaskSession`, then `Handled` or `HandlerFails`;
`TaskExhausted`, `TaskStale`) or the steps of a planning turn - `Count`, which
trips the breaker. `Dies` ends the process anywhere.

*Abstractions.* Which worker or critic is picked, and what its turn does to the
task, is `Lifecycle`'s. The readiness check that precedes the loop only decides
whether `Start` happens. The escalation of questions that are too old writes a
message and is left out.

### How `ProposalGraph` corresponds to the code

The model is one approval. `ids`, `refs`, `textual` and `force` are the input: any
list of `N` tasks with any ids and references. `stack`, `colors`, `node`, `todo`
and `cycles` are the locals of the iterative search of `check_proposal`, each
iteration of its loops one action; `rank` is history, the order in which nodes are
finished. The local id of two tasks names the later one (`Local`), as the code's
dictionary does, besides being a finding. `Decide` is what `approve_proposal` does
with the findings.

### How `RunOwnership` corresponds to the code

*State.* `proc` is the kernel's process table: a PID is free, live or a zombie,
with its start ticks (`born`), its process group, its cgroup and, as history, the
run it works for. `row` is what table `run` says of ownership, by
`ownership_version`; `self`, `run`, `child` and `step` are the scheduler and its
turn; `checked` and `listed` are the locals of an inspection.

*Steps.* `StartRun` - `PrepareCgroup` - `Launch` (the child joins the cgroup
before its code runs) or `LaunchFails` - `Record` or `RecordFails` - `Finished` or
`TimedOut`, both of which remove the cgroup if it is empty - `EndRun`. Session
processes fork, leave their group, exit and are reaped at any moment, PIDs are used
again, and the scheduler `Dies` between any two steps. `recover-runs` under the
lifecycle lock: `Inspect` (the owner is gone; the processes of the cgroup, or of
/proc for a row of version 1, are listed), `LookAt` each of them, then `Recover`, or
`Refuse` at the first that counts. `Acknowledge` is the owner's word for a row of
version 0.

*Abstractions.* A fact that cannot be read when it should be recorded is a choice
(`Read`); an inspection that cannot read ends like `Refuse`. Start ticks are unique.
The cgroup of a run is named for the run.

### How `SnapshotStore` and `BackupWorker` correspond to the code

*State.* `content` and `dirty` are a home's database: the blocks its file
consists of, and `backup_state.dirty_generation`. `blocks` and `damaged` are the
files of `blocks/`, those whose bytes do not match their name apart;
`snapshots[h]` are the published manifests of a home, oldest first. A snapshot's
`gen` and `at` are not in the manifest: they are the generation that the copied
database holds and the time of the copy, which the properties speak about. `pc`,
`staged` and `left` are the stack of a backup process; `generation` and `started`
are the locals of `run_once`; `acked`, `lastSuccess` and `lastError` are the rest
of the `backup_state` row.

*Steps.* A worker: `ReadRow` (the row is read, and a backup is pending or due) -
`NoteAttempt` - `EnterStore` (the file lock) - `StageDatabase` - for each block
`ReuseBlock`, `WriteBlock`, `WriteDamagedBlock` or `CorruptBlock` -
`PublishManifest` - `PruneSnapshot` one by one - `CollectBlocks` - `UnlinkBlock`
one by one - `LeaveStore` - `Acknowledge`, or `NoteFailure` after an error.
`OwnerBackup` is `nc backup --incremental`: the same without the row. `Commit` is
any transaction on the database, `Dies` the death of a process at any point,
which frees the file lock. All of these interleave except what the lock excludes.

*Abstractions.* A database is a non-empty set of blocks: their order and the
checksum of the whole file add nothing to the digests of its blocks. Names are the
order of publication, so the clock does not step back. Staging directories,
temporary files and leaf directories without a manifest are not recognized by
anything and are left out. Loss of power is not modelled: what was written stays.
A refused destination (`DestinationRefused`) is recorded like an error. The bounds
are `MaxEvents` (events per home), `MaxTime` (the clock) and `MaxFailures`
(errors, deaths, damaged writes and refusals together); the proofs hold for any
values of them. Deadlock is not checked: with nothing pending and the
clock at its bound the worker has nothing to do.

### How `AcpProcess` and `AcpTurn` correspond to the code

*State.* `proc` and `helpers` are the operating system's side: the server and the
rest of its tree, still in its process group or escaped from it. `pipe` is the
server's stdout; `buffer` the stream's `_buffer`, in whole frames. `step` counts
the requests of the turn and is also the id of the last one (`_next_id` - 1);
`refused`, `reply`, `timedOut`, `owed`, `closes`, `deadline`, `phases`,
`uncertain` are the locals and fields `server_request_rejection`, `prompt_fact`,
`timed_out`, `cancel_deadline`, `close_advertised`, `child.deadline`,
`timeout_phases`, `cleanup_uncertain`. `failed` says that the turn has an
exception or a `shutdown_failure`. `answered` is a history variable: the server
did write `end_turn` under the id of the prompt, maybe before the prompt went out.

*Time.* `now` is the monotonic clock, `until` the bound of the operation that is
waiting. Time passes only in such a wait and not beyond its bound, since each
wait is a `select` or a `wait` with a timeout; the rest of the client takes no
time. The server acts at any time.

*Steps.* `Launch` (or `LaunchFails`; or the owner callback fails, and the new
process is cleaned up at once) - for each request `SendRequest`, `EnterWait`,
then `Read` of one frame or more and `Dispatch` of one frame at a time until the
answer - after the prompt's answer `Watch` - `EofWait`, `TermWait`, `Reap` -
`Finish`, the assessment. `FindsDead` is the supervisor's poll before each
operation on the wire and after a failed one. When the prompt's time is over:
`PromptExpires` - `SendCancel` - `EnterCancelWait` - `LateAnswer` or
`CancelExpires` - `SendClose` - `CloseAnswered` or `CloseExpires`, and
`DeadlineExpires` when the supervisor's own deadline is over too.
`BoundDeadline` is the stream's: an operation can only make the connection's
deadline sooner. Bytes that are read as the deadline passes are discarded
(`_read` checks after the read), so the next frame may be a torn one (`Lost`).

*Abstractions.*

* A frame is what the client tells apart: a response by id and by whether its
  content is accepted, a request by whether the policy knows it, an update only
  if it brings an active AIR error, malformed output and evidence overflow as
  `broken`. The categories of an AIR error (throttled, transient, unknown) are
  one verdict, `provider`.
* The answer to a request of the server is written at once; a pipe of the client
  that stays full is covered only for the client's own requests, which the
  deadline ends.
* Whether the cgroup exists and can be read or killed is decided when the cleanup
  looks.
* At this commit `CodexAcpAdapter._run` calls `run_codex_acp_turn` with
  `launch=`, a parameter that function does not have (it wants `runtime_root`),
  so the bridge ends every real turn by a `TypeError` and the verdict `protocol`.
  The model joins the engine, `_run_codex_acp_turn`, with `_assess_acp` as the
  bridge does with the facts it is given.
* The server answers the request in progress, the one before it, or the next one, whose
  id it can foresee: a response is accepted if its id is pending when it is dispatched,
  so one that was already in the pipe when its request went out counts. Ids further
  away are not answered in the model.
* The bounds are `MaxFrames` (frames of the server in a turn) and `PipeSize`; the
  proofs hold for all values.

## What the runs check

| Run | Module, configuration | Instance | States | Shows |
|---|---|---|---|---|
| `lifecycle_hostile` | `MCLifecycle`, `LifecycleHostile.cfg` | 2 tasks in a chain, 2 attempts, 1 turn, 2 reviews; all commands; crashes | 1 459 413 | `SessionsExclusive`, `IdleTaskIsQuiet`, `DependenciesBeforeWork`, `CostIsBounded`, `ImplementsBoard`, `SessionOwnsBranch` |
| `lifecycle_orderly` | `MCLifecycle`, `LifecycleOrderly.cfg` | 2 tasks in a chain, 2 attempts, 2 turns, 2 reviews; no `retry`, no crash | 3 349 174 | `OneActor`, `ReviewedIsChecked`, `AcceptedIsMerged`, `InReviewIsReviewable`, `NoStrandedTask`, `IdleMeansNothingToDo`, `AttemptsExhausted` |
| `lifecycle_live` | `MCLifecycle`, `LifecycleLive.cfg` | 2 tasks in a chain, 2 attempts, 2 turns, 2 reviews; no `rollback`, no `fresh`, no `retry`, no crash; fair | 61 807 | `ClaimSettles` |
| `planning` | `Planning`, `Planning.cfg` | 2 messages, 3 proposals, capacity 2, 1 death; fair | 186 022 | `FeedbackIsHeard`, `RevisionLineage`, `PendingWithinCapacity`, `FeedbackUsedOnce`, `ReviewFinal`, `ReviewsConclude`, `FeedbackGetsHeard` |
| `scheduler_loop` | `MCSchedulerLoop`, `SchedulerLoop.cfg` | 3 task turns, 1 message, 1 proposal, limit 2, two roles per pair; 1 death in a planning turn, others any number of times; fair | 346 918 | `DeferralHonoured`, `BreakerTrips`, `RunEnds` |
| `proposal_graph` | `ProposalGraph`, `ProposalGraph.cfg` | every batch of 3 tasks over 3 names, one of them an existing task | 2 747 136 | `CycleFoundIffCyclic`, `ApprovedCanFinish`, `SearchEnds` |
| `run_ownership` | `RunOwnership`, `RunOwnership.cfg` | 3 PIDs, 4 processes in all, 1 run, rows of all versions; fair | 109 133 | `SurvivorsAreLate`, `RecordedGetsRecovered` |
| `backup_store` | `MCBackup`, `BackupStore.cfg` | a worker on one home, the owner on another, one store, 2 shared blocks, retention 1, 3 ticks, 1 failure | 1 288 016 | `SnapshotsRestorable`, `HealthyIsFresh` |
| `backup_worker` | `MCBackup`, `BackupWorker.cfg` | 2 workers on one home, 2 events, 1 block, 2 ticks, 1 failure; fair | 94 958 | `AckedIsCovered`, `ImplementsRecoveryPoint`, `EventsGetCovered` |
| `acp_turn` | `AcpTurn`, `AcpTurn.cfg` | 1 setup request, budget 2, windows 2 and 1, grace 1, 3 frames, pipe of 2; fair | 976 288 | `SuccessIsEarned`, `ExpiredIsTimeout`, `CertainMeansGone`, `TurnBounded`, `ImplementsPromise`, `TurnEnds` |
| `wedged_scheduler` | `MCLifecycle`, `WedgedScheduler.cfg` | 1 task, 2 critics; answers and `resume --retry` | violation | finding 1 |
| `breaker_resets` | `MCSchedulerLoop`, `BreakerResets.cfg` | 3 task turns, limit 3 | violation | finding 2 |

The properties of the lifecycle fall in two groups. The first holds whatever the owner does and
whoever dies. The second holds as long as no process dies inside a handler and
the owner does not use `resume --retry`: finding 1 and the first two entries of
*Other disagreements* are the ways in which those two break it, so the second
group is checked without them. (Two of the second group,
`InReviewIsReviewable` and `NoStrandedTask`, need only the first condition: they are
proved with `resume --retry`, see `GoingInvariance` below.) This
is a restriction of the environment, not of the code: every action of the
scheduler is as before.

*Bounds.* `MaxReviews` caps the critic rows ever created for one task (a turn
that would need one more cannot report a checked DONE; it may report rework). Two
reviews suffice for a second critic to coexist with a first one; between the two
large runs `Budget` is 1 and 2 and `MaxAttempts` 2, so every counter is met below,
at and above its limit. In `lifecycle_live` a task goes through a rework and a second
review before its attempts are used up, and through yields and merge conflicts until
its turns are; since every review follows a turn of the worker, the two reviews allowed
are no fewer than the two turns, so it is the limits of the code and not `MaxReviews`
that end a loop, up to the first requeue. Two
tasks in a chain give every order of a dependent and its prerequisite, and
cross-task selection. Runs, messages and base branch are bounded by these. The
passing runs together fire every disjunct of every `Next`. In planning two messages
give a request and a revision, two revisions in either order, or feedback during
the turn that answers the first one; three proposals at a capacity of two give a
planner that waits, and one death a repeated use of a message. Two failures trip
the breaker with a third turn, and two pairs of two roles give a probe that a
later role of the run reuses. Three tasks give self-references, cycles of two and
three, hidden and ambiguous ids. Three PIDs are the scheduler, the adapter and a
helper; the fourth process takes over one of their PIDs. For the backup, two blocks
give a shared and an unshared one, retention one makes every second snapshot of a
home prune, three ticks make a status fresh, at the limit and stale (`Stale` and
`Fallback` are 1), and two workers with two events acknowledge in both orders.
In the ACP turn the one setup request names the session, so
both a request of the server before the session and one after it occur; time 5 is
the total deadline and every window is met before, at and after its end; three
frames are enough for an answer, a late or second one and a request of the server
between them.

*Deadlock* is not checked in the lifecycle: the system stops when every task is accepted and the
owner is content. That it does not stop early is `NoStrandedTask`,
`IdleMeansNothingToDo` and `ClaimSettles`.

*Fairness.* `deploy/neocortex.timer` starts `nc run` for ever, so a selection
that stays possible is made (`WF(Selection)`), and a process that holds the lock
goes on (`WF` of the deterministic steps of turn, handlers, and the two-step
commands). A provider may refuse preflight or end a session by a deferral, but
not for ever: the retry after `defer_until` eventually gets a session and an
outcome, hence the strong fairness of `StartRun \/ BudgetExhausted` and
`EndRun`. An owner who trips STOP, or meets a tripped breaker, resumes. Nothing
is assumed of what agents answer, and no owner command is fair. `fresh` is left
out of this run: an owner who takes the lock again and again keeps a weakly fair
scheduler out of it, which says nothing of the code. `rollback` is left out for the
size of the run (it multiplies the states by twenty): it applies to accepted tasks and
leaves them blocked, where a requeue starts the loop from what the run has anyway.

For `ReviewsConclude` and `FeedbackGetsHeard`: the timer picks again and again, and
since other turns may be picked instead, the selection of planning turns is
strongly fair (`SF` of `Pick(FALSE, FALSE)`: workers and critics are done from time
to time and the queue gets short); the steps of a turn follow each other (`WF`);
probes and the critic's sessions do not fail every time (`SF` of `ClaimReview`,
`ReadRevision` and of the ends of a critic's session other than an outage).
Nothing is assumed of what the planner answers, nor of the owner. The
properties exclude what the code excludes: a proposal limit that only the owner can
clear, reviews that a death left behind, and a planner that `recover-runs` has put to
sleep, until the owner speaks again (`silenced`; see *Other disagreements* for both).

For `RunEnds` only that the scheduler's process goes on (`WF(Scheduler)`): task
turns are finite in number, as `ClaimSettles` shows for real ones, a review ends or
defers, and the planner's turns end with its messages.

For `RecordedGetsRecovered`: turns go on, every session process ends and is reaped
sooner or later, an inspection proceeds (`WF`), and the owner repeats
`recover-runs` (`SF(Inspect)`, since the lock may be taken). Forks are bounded by
`MaxBirths`. A finished process table is the end of that model, so deadlock is not
checked there, nor in `proposal_graph`, where the decision ends a behaviour.

For `EventsGetCovered`: `deploy/neocortex-backup.timer` starts the worker every
minute, and a started process goes on (`WF` of its steps). The file lock is
released after every backup and goes to a waiting process sooner or later (`SF`
of `EnterStore`). Failures are finite in number; a damaged block that stays in the
store may fail every later backup, which the property allows.

For `TurnEnds`: the client is a running program (`WF(Client)`) and time does not
stop (`WF(Pass)`). Nothing is assumed of the server or its helpers. A finished turn
is the end of the model, so deadlock is not checked there.

### Findings

1. **A leftover critic stops the scheduler** (`wedged_scheduler`). After `resume
   --retry` and a late answer two critics of one task can both be runnable. When
   one passes, the other remains runnable on an accepted task; `pick` always
   selects it (it excludes cancelled tasks only), the reread refuses it, and every
   step is idle while other work is ready.
2. **Failures after a DONE never trip the breaker** (`breaker_resets`).
   `_task_turn` sets `consecutive_failures` to 0 for a DONE before its handler
   runs. A DONE without verdict, or one whose handler raises, then counts 1, every
   time: any number of them in a row stays below the limit of three. `README.md`
   says that three failing turns in a row trip the breaker.

### Other disagreements

What modelling brought up besides, without a run of its own. The models do what the
code does, and the properties are stated so that they hold of it.

* `recover_runs` closes an interrupted run and sets its agent to `blocked`; the
  task stays `in_progress` with nothing to schedule. `resume --retry` takes up
  blocked tasks only and `cancel` refuses a task in progress; requeue is the one way
  out. `docs/bugs/run-93-interrupted-claim.md` expects such a claim to become
  eligible or durably blocked. (`NoStrandedTask` holds without crashes, as proved.)
* A critic asks; `resume --retry` makes the *worker* runnable; it commits; the owner
  answers the critic, which reviews, and whose pass merges, a head that the checks
  never saw. (`ReviewedIsChecked` holds without `retry`.)
* The UPDATE that records a backup's success is conditional on a newer generation. A
  first or fallback backup with nothing dirty never sets `last_success_at`:
  `backup-status` stays nonzero over a fresh snapshot and the worker backs up every
  minute. (`HealthyIsFresh` is the direction that holds.)
* After a slow setup the prompt ends at the total deadline. The client extends
  `child.deadline` for the cancellation, but the stream still has the old one:
  `session/cancel` and `session/close` expire before anything is written.
* A planner's turn reads the open revision twice, `turn.py:301` and, through
  `build_planner_brief`, `turn.py:153`. If the owner revises an older proposal in
  between, the brief shows one request and the replacement is recorded for the
  other. (`RevisionLineage` still holds, and the request stays open.)
* `recover-runs` sets the agent of an interrupted run to `blocked`, the planner too
  (`operations.py:244`), even if feedback is waiting that no brief has shown. Nothing
  wakes it but the owner's next word: until then the feedback stays unheard (`nc status`
  shows it as undelivered, as it does while a turn is still due). This is a lost
  wake-up; `FeedbackIsHeard`, `FeedbackGetsHeard` and the theorem `NoLostFeedback`
  except it by name (`silenced`) and hold of everything else, and once the owner speaks
  they require the old feedback to be heard with the new.
* A rollback reverts a merge in git but keeps the branch; after a requeue without
  `--fresh` ("same branch and history", `README.md:169`) the reverted commits count as
  merged. When the task is accepted again, `git merge` (`arbiter.py:331`) brings only
  what was committed since, or says "Already up to date": the head that was checked and
  reviewed holds the whole work, the base only the new part of it. `AcceptedIsMerged`
  says what holds: the last merge is in effect and nothing is left to merge (`base` is
  then `partial`); it does not say that all of the work is on the base.
* Two smaller gaps of `rollback`. A death between the merge and the acceptance may be
  followed by a second merge, and rollback reverts only that one. A task accepted with
  nothing to merge records the head of the base as its merge, which may be the merge of
  another task, and rollback then reverts that; this second case is not in the model.
* A death between `claim_plan_review` and `record_plan_review_attempt` leaves the
  review `running`: no later step claims it, and recovery finds no attempt to
  release. (`ReviewsConclude` excludes runs with a death.)
* A turn whose outcome is FAIL and whose handler raises counts two failures, so the
  breaker may trip after fewer turns than the limit.
* Inspection of a run lists the processes and then looks at each. A process that
  forks and ends in between hides its child, although `docs/ui-access.md` says that
  recovery is refused when a child survives. (`SurvivorsAreLate` says what holds:
  a survivor was started after the listing.)
* A helper that left the process group survives the normal end of a session: the
  cgroup is kept, since it is not empty, but the run is closed and nothing looks at
  it again.
* A run without recorded evidence, from a host without cgroups or after a death
  before `record_adapter_owner`, can never be recovered, deliberately
  (`adapters.py:36-39`); as long as it is open, no task turn starts.

## What is proved

Every theorem is proved for all values of the constants, from the named assumptions
on them only.

`LifecycleProofs` proves, for every set of tasks, every dependency relation, all
limits, all subsets of the owner's commands, with and without crashes (from
`ConstantsAssumption` only):

| Theorem | States |
|---|---|
| `Invariance` | `Spec => []Inv` |
| `TypeCorrect` | `Spec => []TypeOK` |
| `OneSession` | `Spec => []SessionsExclusive` |
| `IdleTasksAreQuiet` | `Spec => []IdleTaskIsQuiet` |
| `DependenciesComeFirst` | `Spec => []DependenciesBeforeWork` |
| `OrphanKeepsBranch` | `Spec => SessionOwnsBranch` |
| `CostBounded` | `Spec => []CostIsBounded` |
| `LifecycleImplementsBoard` | `Spec => ImplementsBoard` |

*The argument.* None of the properties is inductive. A session's exclusiveness
rests on the reread's `NoUnfinishedRun`, but the reread happens steps before the
run is registered: the invariant must say that from `picked` on no run is
unfinished but the holder's own (`RunInv`). A queued task stays quiet only if no
handler under way can still wake one of its agents: the invariant says that the
holder's task is claimed at every point of its turn and that each commit left in
`todo` is about that task and keeps it claimed, except the acceptance, which is
followed by nothing but the worker's retirement (`HolderInv`). An interrupted run
must keep its task claimed so that requeue, cancel, rollback and answers cannot
move it (`RunInv`, last conjunct). Dependencies need acceptance to be recorded
for ever (`TaskInv`). One lemma per action proves that it keeps `Inv`;
`BoardNext` maps each step to a step of the board or to a stutter, and needs
`Inv` for the preconditions the code does not test again, such as that a task is
still claimed when its acceptance is written.

*What a task costs.* `CostIsBounded` says that an agent takes no more turns than
`budget_turns` and that no more critics of a task take a turn than its worker has
taken, so that between two requeues at most `Budget * (Budget + 1)` turns of a task
are counted, in every environment: crashes, recovery and `resume --retry` included,
where the attempts bound nothing. The argument is an account (`CostInv`). `Sponsored`
are the critics that have taken a turn or may take one; they are never more than the
worker's turns. A critic becomes runnable by a checked DONE of the worker, or by an
answer to a question it asked in a turn that was counted; the handler that wakes a new
critic does so with its first commit (`Paid`), while the turn just counted has
paid for no critic yet (`Affords`). So a crash after any of its commits leaves the
account in order. Of the theorem's two conjuncts the first needs that a turn begins
only below the budget and that nothing else counts one. Sessions whose turn is not
counted, because of a crash before `CountTurn` or of a deferral, are not in this bound.

`OrderlyProofs` proves, for the same tasks, dependencies and limits, and every
subset of the owner's commands without `retry` and without crashes (from
`ConstantsAssumption` and, in each theorem, `Orderly`):

| Theorem | States |
|---|---|
| `OrderlyInvariance` | `Spec => []OrderlyInv` |
| `OneActorPerTask` | `Spec => []OneActor` |
| `ReviewsAreChecked` | `Spec => []ReviewedIsChecked` |
| `AcceptedWorkIsMerged` | `Spec => []AcceptedIsMerged` |
| `IdleIsIdle` | `Spec => []IdleMeansNothingToDo` |
| `ExhaustedIsBlocked` | `Spec => []AttemptsExhausted` |

*The argument.* These properties of `lifecycle_orderly` speak of a task that
nobody works on. They follow from `Settled`: such a task has at most one runnable
agent, one that can go on with it; if it is claimed it has one; a question waits
only at a blocked task, there is one, and its answer puts an agent in charge; the last
merge of an accepted task is in effect. A handler makes its changes in several commits, and the
task is not settled between them. So the invariant says of the commits still in
`todo` that they will settle it: they are of one of six kinds, the rest of a list
that blocks (`ToBlock`), asks (`ToAsk`), goes on (`ToRun`), hands over to a critic
(`ToReview`), merges (`ToMerge`) or accepts (`ToAccept`). There is one lemma per
handler, that it decides such a list; one per kind, that a commit leaves a list of
a kind or a settled task; and one per owner command, which runs under the lock and
so finds, and leaves, the task settled. A crash would leave the list half
written, and `retry` wakes the worker where a critic's question waits; the states
described under *Other disagreements* are what then happens.

For every subset of the owner's commands, `retry` included, it proves

| Theorem | States | Assumes |
|---|---|---|
| `ClaimedIsStaffed` | `Spec => []Staffed` | |
| `GoingInvariance` | `Spec => []GoingInv` | `~CrashPossible` |
| `ReviewsCanStart` | `Spec => []InReviewIsReviewable` | `~CrashPossible` |
| `NoTaskStranded` | `Spec => []NoStrandedTask` | `~CrashPossible` |

*The argument.* With `retry`, a worker and a critic can be runnable at once, a
question can wait at a task that is in progress, and attempts start again: nothing of
`Settled` is left but that a claimed task can go on (`Going`). What was one actor's
turn may now find another agent runnable that it knows nothing of, so the commits in
`todo` are described by what they come to whatever else is awake (`Heading`): the last
status they write is `blocked`, or it is `in_progress` and the last commit wakes
somebody, or the turn is repeated and its agent never stops being runnable, or they
open a review in the order critic, worker, task, or they accept. `Staffed` is what
the owner's part rests on: `retry` wakes the worker of each blocked task, and there is
one to wake, since the worker's row appears with the claim and no command takes it
away; and a task that is being added is not the lock holder's. It holds across crashes
too. `Going` does not: recovery leaves a task in progress with nobody to run, as
described under *Other disagreements*.

`BackupProofs` proves, for any homes, processes, retentions, blocks, limits and
numbers of failures (from `StoreAssumption` and `WorkerAssumption`):

| Theorem | States |
|---|---|
| `Invariance` | `Spec => []Inv` |
| `SnapshotsStayRestorable` | `Spec => []SnapshotsRestorable` |
| `AcknowledgedIsCovered` | `Spec => []AckedIsCovered` |
| `HealthyHomesAreFresh` | `Spec => []HealthyIsFresh` |
| `BackupImplementsRecoveryPoint` | `Spec => ImplementsRecoveryPoint` |

*The argument.* That snapshots are restorable rests on the lock: of the processes
inside the store there is one (`StoreInv`), so what it has copied or reused is
still there when it publishes, and what it collected for unlinking is still
unreferenced when it unlinks. That an acknowledgement is covered is a chain from
the row to the snapshot: what a worker read is not ahead of the copy it makes
later, nor of the snapshot it publishes (`WorkerInv`), and later snapshots of the
same home are not behind earlier ones, whoever takes them, because the copies are
made under the lock too (`OrderInv`). Pruning keeps the newest snapshot, as the
retention is positive (`PruneFacts`). The same chain for the dates gives
`HealthyIsFresh`. `RecoveryNext` maps the publication of a manifest to `Cover`, a
commit to `Event` or a stutter, and the acknowledgement to `Acknowledge`.

`AcpProofs` proves, for any number of setup requests, budget, windows, grace
period and pipe, and any number of frames (from `ProcessAssumption` and
`TurnAssumption`):

| Theorem | States |
|---|---|
| `TypeCorrect` | `Spec => []TypeOK` |
| `BoundedTurn` | `Spec => []TurnBounded` |
| `CertainCleanup` | `Spec => []CertainMeansGone` |
| `InvCorrect` | `Spec => []Inv` |
| `EarnedSuccess` | `Spec => []SuccessIsEarned` |
| `ExpiredTurn` | `Spec => []ExpiredIsTimeout` |
| `TurnKeepsPromise` | `Spec => ImplementsPromise` |

*The argument.* The bound of a turn is a bound of each of its parts (`OnTime`):
every operation on the wire is armed within the total deadline, and every wait of
the cleanup starts at most one grace period after the one before it. A success is
earned because the facts it is assessed from stay true: an answer to the prompt
in the pipe, in the buffer or recorded was written by the server
(`AnswersAreTrue`; a discarded chunk leaves frames of the pipe and a torn one,
`LostFrames`), the answer is recorded only while the prompt is awaited
(`PromptSent`), a refusal always ends in a failure that is kept until the
assessment (`FailureIsKept`), and after the assessment only a process the cleanup
was uncertain of can still change (`Assessed`, `CertainMeansGone`). Each conjunct
of `Inv` has a lemma with one step per action.

*The refinement.* `TurnPromise` knows no clock, no pipe and no process tree: a turn
starts, advances from request to request, meets a refusal, an error, an answer, the end
of its time, a cancellation, and decides. `Promise` maps the position in the turn, the
pipe and the tree to those facts. That a request never follows a refusal, that the
answer is taken once and, after a refusal, only when the time is over, and that the
turn is cancelled only then and only without an answer, needs `SettledOnce`: at each
point of the turn the invariant says what has not happened yet.

`PlanningProofs` proves, for any numbers of messages, proposals and deaths and any
capacity (from `PlanningAssumption`):

| Theorem | States |
|---|---|
| `PlanInvariant` | `PlanSpec => []PlanInv` |
| `NoLostFeedback` | `PlanSpec => []FeedbackIsHeard` |
| `LineageKept` | `PlanSpec => []RevisionLineage` |
| `CapacityKept` | `PlanSpec => []PendingWithinCapacity` |
| `UsedOnce` | `PlanSpec => []FeedbackUsedOnce` |
| `AdviceIsFinal` | `PlanSpec => ReviewFinal` |

*The argument.* The owner acts without the lock, so what a turn has read may be old
when it is used; the invariant says how old it can be. Unless `touched`, the inbox
it read is complete, and from the session on everything sent was heard (`HeardInv`):
so the last UPDATE, which is conditional on `updated_at`, puts no planner to sleep
over unheard feedback. `recover-runs` does, which is the exception that the theorem
states; it ends with the next word of the owner. A picked planner has room for its one proposal, since only a
planner's turn adds any and the owner only takes away (`RoomInv`). The revision read
has been asked for, and replacements are recorded in order (`LineageInv`). A message
is used before it is marked delivered, and again only after a death (`UsesInv`). That
advice is final rests on `TurnInv`: whoever writes a review has claimed it, and a
claimed review is running.

`SchedulerLoopProofs` proves, for any limit, any sharing of adapters among roles and
any number of turns (from `PlanningAssumption` and `LoopAssumption`):

| Theorem | States |
|---|---|
| `LoopImplementsPlanning` | `Spec => PlanSpec` |
| `LoopInvariant` | `Spec => []LoopInv` |
| `BreakerWorks` | `Spec => []BreakerTrips` |
| `DeferralIsHonoured` | `Spec => []DeferralHonoured` |

*The argument.* Every step of the loop is a step of `Planning` or leaves its variables
alone, so the theorems above hold of the turns that the loop makes. The breaker's
count is never behind the failing turns (`CountInv`): it is reset only with them. A
deferral can only be recorded by a session or by a probe, and a probe's ends the run,
so while one stands an `nc run` is between steps or in a turn whose session has
begun (`DeferInv`).

`ProposalGraphProofs` proves, for batches of any size, any ids and references (from
`GraphAssumption`):

| Theorem | States |
|---|---|
| `SearchInvariant` | `Spec => []SearchInv` |
| `LintIsRight` | `Spec => []CycleFoundIffCyclic` |
| `ApprovalIsSafe` | `Spec => []ApprovedCanFinish` |
| `LintEnds` | `Spec => [](StepsLeft \in Nat) /\ SearchEnds` |

*The argument.* The open entries of the stack are a path of dependencies through the
gray nodes (`GrayInv`, `PathInv`), so an edge to a gray node closes a cycle
(`CyclesAreReal`). Conversely, as long as none was found, every dependency of a gray
node is finished or still ahead of it on the stack (`AheadInv`), so a node is
finished after all it depends on; the ranks then decrease along dependencies, and no
set of finished nodes is cyclic (`BlackInv`). In the end all are finished
(`StartInv`). That the end comes is proved as far as it can be without liveness:
`StepsLeft` is a natural number that every step makes smaller, since the entries a node
pushes when it is entered are less than what the node itself weighed (`EnteredSum`,
`StepsLeftShrinks`).

`RunOwnershipProofs` proves, for any PIDs, runs and number of processes (from
`OwnershipAssumption`):

| Theorem | States |
|---|---|
| `EvidenceIsSound` | `Spec => []Inv` (the invariant of this module) |
| `SurvivorsLate` | `Spec => []SurvivorsAreLate` |

*The argument.* A child inherits its cgroup and joins it before it can fork, so a
recorded cgroup contains all that works for its run (`TurnInv`, `Contained`) and is
not removed while one of them lives (`Kept`). While an inspection goes on, whoever
could have been seen is still to be looked at (`Inspecting`); what is not listed was
started later, since start ticks only grow (`Past`).

*Only model-checked:* liveness (`ClaimSettles`, `ReviewsConclude`,
`FeedbackGetsHeard`, `RunEnds`, `RecordedGetsRecovered`, `EventsGetCovered`,
`TurnEnds`), which is outside the prover's reach. Of `ClaimSettles` the bound that
ends a review loop is proved (`CostBounded`), of the lint's end the measure
(`LintEnds`). Every invariant and action property that a passing run checks is proved.

## Not modelled

* `acp_decoder.py`, `acp_contract.py` and `acp_runtime.py`: a projection of records
  and the verification of an installed release, each one sequential pass over input
  that does not change, with no state kept. What they decide enters `AcpTurn` as the
  class of a frame.
* `adapter_readiness.py`, the readiness part of the arbiter: probes of the host, whose
  verdict enters as `ProbeFails` or as a start that does not happen.
* `ui.py`: a handler parses a form, calls one of the operations that are modelled, and
  renders a page. `cli.py`, `config.py`, `roles.py`, `protocol.py`: arguments,
  settings and texts; the commands that change state call modelled operations.
* Of `scheduler.py`: the escalation of questions that are too old, and incidents,
  which nothing reads back.
* Of `arbiter.py`: the mirror push, scratch worktrees and `nc gc`, which no other
  component depends on; the difference of worktree and branch head, a listed hazard.
* Of `snapshot.py`: the full (v1) backup, restore and the validation of paths, which
  are sequential; a clock that steps back and a loss of power, listed hazards.
* Of the ACP client: limits on pending requests and message sizes, and the contents
  of AIR records.
