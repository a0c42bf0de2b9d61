--------------------------- MODULE SchedulerLoop ---------------------------
(***************************************************************************)
(* nc run and nc step: the scheduler's loop (nc/scheduler.py run, step,    *)
(* preflight, the circuit breaker, the provider's deferral and the STOP    *)
(* file) around the planning turns of module Planning.                     *)
(*                                                                         *)
(* A worker's or critic's turn appears here by its outcome only; module    *)
(* Lifecycle has the rest of it.  One scheduler process runs at a time.    *)
(***************************************************************************)
EXTENDS Planning

CONSTANTS
  PairOf,       \* the (adapter, model) pair of each role
  MaxFailures,  \* config max_consecutive_failures
  TaskTurns     \* bound: turns of workers and critics, all together

Roles == {"worker", "critic", "plan_critic", "planner"}
Pairs == {PairOf[r] : r \in Roles}

ASSUME LoopAssumption ==
  /\ DOMAIN PairOf = Roles
  /\ MaxFailures \in Nat \ {0}
  /\ TaskTurns \in Nat

VARIABLES
  loop,      \* where the scheduler is
  single,    \* it is an nc step, not an nc run
  failures,  \* Scheduler.consecutive_failures
  probed,    \* Scheduler._preflight_pairs
  stop,      \* the STOP file exists
  deferred,  \* some recorded defer_until lies in the future
  left,      \* turns of workers and critics still to be had
  bad,       \* history: turns in a row whose outcome was FAIL or NO_OUTCOME, and
  row        \*   turns in a row that failed so or while the outcome was applied,
             \*   since this invocation began

loopVars == <<loop, single, failures, probed, stop, deferred, left, bad, row>>
vars == <<planVars, loopVars>>

LoopTypeOK ==
  /\ loop \in {"down", "top", "step", "task", "handler", "counted"}
  /\ single \in BOOLEAN
  /\ failures \in Nat
  /\ probed \subseteq Pairs
  /\ stop \in BOOLEAN
  /\ deferred \in BOOLEAN
  /\ left \in 0..TaskTurns
  /\ bad \in Nat /\ row \in Nat

Init ==
  /\ PlanInit
  /\ loop = "down" /\ single = FALSE
  /\ failures = 0 /\ probed = {} /\ bad = 0 /\ row = 0
  /\ stop = FALSE /\ deferred = FALSE
  /\ left = TaskTurns
----------------------------------------------------------------------------
(* The loop.                                                               *)

\* A new process, or run after its readiness check: _preflight_pairs.clear().
Start(s) ==
  /\ loop = "down"
  /\ single' = s
  /\ loop' = IF s THEN "step" ELSE "top"
  /\ failures' = 0 /\ probed' = {} /\ bad' = 0 /\ row' = 0
  /\ UNCHANGED <<planVars, stop, deferred, left>>

\* Mutant of Halted: only the result of a step defers, not a recorded deferral.
HaltedMutant == stop

Halted == deferred \/ stop

\* A deferral in the future, the STOP file, --max-turns or another holder of the lock.
Leave ==
  /\ loop = "top"
  /\ loop' = "down"
  /\ UNCHANGED <<planVars, single, failures, probed, stop, deferred, left, bad, row>>

BeginStep ==
  /\ loop = "top" /\ ~Halted
  /\ loop' = "step"
  /\ UNCHANGED <<planVars, single, failures, probed, stop, deferred, left, bad, row>>

\* step returns: nc step ends, nc run counts the turn.
Returns == loop' = IF single THEN "down" ELSE "counted"

\* Mutant of Count: one failure more is let pass.
CountMutant ==
  /\ loop = "counted"
  /\ IF failures > MaxFailures
     THEN stop' = TRUE /\ loop' = "down"
     ELSE stop' = stop /\ loop' = "top"
  /\ UNCHANGED <<planVars, single, failures, probed, deferred, left, bad, row>>

Count ==
  /\ loop = "counted"
  /\ IF failures >= MaxFailures
     THEN stop' = TRUE /\ loop' = "down"
     ELSE stop' = stop /\ loop' = "top"
  /\ UNCHANGED <<planVars, single, failures, probed, deferred, left, bad, row>>

\* What the outcome of a worker's, critic's or planner's turn does to the breaker.
Failing == {"FAIL", "NO_OUTCOME", "hostfailed"}

Tally(r) ==
  IF r \in Failing
  THEN failures' = failures + 1 /\ bad' = bad + 1
  ELSE failures' = 0 /\ bad' = 0

\* A session whose host failed may leave a defer_until, whatever the category.
MayDefer == deferred' \in {deferred, TRUE}
----------------------------------------------------------------------------
(* One step: preflight.                                                    *)

\* The role whose session is next, when there is one.
ProbedRoles ==
  CASE stage = "claiming" -> {"plan_critic"}
    [] stage = "planning" -> {"planner"}
    [] loop = "task" -> {"worker", "critic"}
    [] OTHER -> {}

Ready(r) == single \/ PairOf[r] \in probed

ProbePasses ==
  /\ loop \in {"step", "task"}
  /\ \E r \in ProbedRoles : ~Ready(r) /\ probed' = probed \cup {PairOf[r]}
  /\ UNCHANGED <<planVars, loop, single, failures, stop, deferred, left, bad, row>>

\* A temporary failure is recorded and deferred, any other is an incident: the run ends.
ProbeFails ==
  /\ loop \in {"step", "task"}
  /\ \E r \in ProbedRoles : ~Ready(r) /\ probed' = probed \cup {PairOf[r]}
  /\ IF loop = "task" THEN UNCHANGED planVars ELSE NotProbed
  /\ MayDefer
  /\ loop' = "down"
  /\ UNCHANGED <<single, failures, stop, left, bad, row>>
----------------------------------------------------------------------------
(* One step: a worker's or critic's turn.                                  *)

PickTask ==
  /\ loop = "step" /\ left > 0
  /\ \E crowded \in BOOLEAN : Pick(TRUE, crowded)
  /\ loop' = "task"
  /\ UNCHANGED <<single, failures, probed, stop, deferred, left, bad, row>>

\* The agent or its task changed since it was picked, or a run is unfinished.
TaskStale ==
  /\ loop = "task"
  /\ loop' = "down"
  /\ UNCHANGED <<planVars, single, failures, probed, stop, deferred, left, bad, row>>

\* The turn budget is exhausted: no session, and the breaker is left alone.
TaskExhausted ==
  /\ loop = "task" /\ \E r \in {"worker", "critic"} : Ready(r)
  /\ left' = left - 1
  /\ Returns
  /\ UNCHANGED <<planVars, single, failures, probed, stop, deferred, bad, row>>

TaskSession ==
  /\ loop = "task" /\ \E r \in {"worker", "critic"} : Ready(r)
  /\ \E r \in Results \ {"none"} :
       /\ IF r \in {"hostfailed", "deferred", "NO_OUTCOME"} THEN MayDefer ELSE deferred' = deferred
       /\ IF r = "deferred"
          THEN loop' = "down" /\ UNCHANGED <<failures, left, bad>>
          ELSE loop' = "handler" /\ left' = left - 1 /\ Tally(r)
  /\ UNCHANGED <<planVars, single, probed, stop, row>>

\* The handler applies the outcome ...
Handled ==
  /\ loop = "handler"
  /\ row' = IF bad > 0 THEN row + 1 ELSE 0
  /\ Returns
  /\ UNCHANGED <<planVars, single, failures, probed, stop, deferred, left, bad>>

\* ... or it raises, or finds no verdict in a review, and the breaker counts that.
HandlerFails ==
  /\ loop = "handler"
  /\ failures' = failures + 1 /\ row' = row + 1
  /\ Returns
  /\ UNCHANGED <<planVars, single, probed, stop, deferred, left, bad>>
----------------------------------------------------------------------------
(* One step: a review of the plan critic, or a planner's turn.             *)

PickPlanning ==
  /\ loop = "step"
  /\ \E crowded \in BOOLEAN : Pick(FALSE, crowded)
  /\ UNCHANGED loopVars

Choose ==
  /\ loop = "step"
  /\ SelectReview \/ SelectPlanner
  /\ UNCHANGED loopVars

Idle ==
  /\ loop = "step"
  /\ SelectNobody
  /\ loop' = "down"
  /\ UNCHANGED <<single, failures, probed, stop, deferred, left, bad, row>>

\* Steps of a turn that end no session and no turn.
Within ==
  /\ loop = "step"
  /\ \/ Ready("plan_critic") /\ ClaimReview
     \/ StartReviewRun \/ RecordAttempt \/ CloseAttempt \/ CompleteReview
     \/ Ready("planner") /\ ReadRevision
     \/ ReadInbox \/ StartPlannerRun
     \/ \E p \in Proposals : AddProposal(p)
     \/ AskOwner
     \/ \E m \in Messages : Deliver(m)
     \/ AllDelivered \/ EndPlannerRun
  /\ UNCHANGED loopVars

\* Sessions whose host may have failed.
HostFails ==
  /\ loop = "step"
  /\ ReviewDeferred \/ ReviewFailed \/ NoEffect
  /\ MayDefer
  /\ UNCHANGED <<loop, single, failures, probed, stop, left, bad, row>>

\* Mutant of ReviewOver: nc run goes on after an outage.
ReviewOverMutant ==
  /\ loop = "step"
  /\ \/ Ready("plan_critic") /\ ClaimRefused
     \/ EndReviewRun
  /\ Returns
  /\ UNCHANGED <<single, failures, probed, stop, deferred, left, bad, row>>

\* Advisory turns leave the breaker alone.
ReviewOver ==
  /\ loop = "step"
  /\ \/ Ready("plan_critic") /\ ClaimRefused /\ Returns
     \/ /\ EndReviewRun
        /\ IF result = "deferred" THEN loop' = "down" ELSE Returns
  /\ UNCHANGED <<single, failures, probed, stop, deferred, left, bad, row>>

PlannerOver ==
  /\ loop = "step"
  /\ UpdatePlanner
  /\ IF result = "deferred"
     THEN loop' = "down" /\ UNCHANGED <<failures, bad, row>>
     ELSE Returns /\ Tally(result) /\ row' = IF result \in Failing THEN row + 1 ELSE 0
  /\ UNCHANGED <<single, probed, stop, deferred, left>>
----------------------------------------------------------------------------
(* The environment.                                                        *)

\* feedback, approve and reject at any moment; answer and recover-runs when no
\* step holds the lifecycle lock.
OwnerActs ==
  /\ Owner
  /\ UNCHANGED loopVars

OwnerStops == ~stop /\ stop' = TRUE /\ UNCHANGED <<planVars, loop, single, failures, probed, deferred, left, bad, row>>
OwnerResumes == stop /\ stop' = FALSE /\ UNCHANGED <<planVars, loop, single, failures, probed, deferred, left, bad, row>>

DeferralPasses == deferred /\ deferred' = FALSE /\ UNCHANGED <<planVars, loop, single, failures, probed, stop, left, bad, row>>

Dies ==
  /\ loop # "down"
  /\ IF stage = "idle" THEN UNCHANGED planVars ELSE Crash
  /\ loop' = "down"
  /\ UNCHANGED <<single, failures, probed, stop, deferred, left, bad, row>>
----------------------------------------------------------------------------
Step ==
  \/ ProbePasses \/ ProbeFails
  \/ PickTask \/ TaskStale \/ TaskExhausted \/ TaskSession \/ Handled \/ HandlerFails
  \/ PickPlanning \/ Choose \/ Idle \/ Within \/ HostFails \/ ReviewOver \/ PlannerOver

Scheduler == Leave \/ BeginStep \/ Step \/ Count

Environment ==
  \/ \E s \in BOOLEAN : Start(s)
  \/ OwnerActs \/ OwnerStops \/ OwnerResumes \/ DeferralPasses \/ Dies

Next == Scheduler \/ Environment

\* The scheduler's process goes on as long as it lives.
Spec == Init /\ [][Next]_vars /\ WF_vars(Scheduler)
----------------------------------------------------------------------------
(* Properties.                                                             *)

\* A session is about to be launched.
AboutToStart ==
  loop = "task" \/ stage \in {"picked", "claiming", "claimed", "attempting",
                              "planning", "revision", "inbox"}

\* nc run launches nothing while a deferral it has recorded lies in the future,
\* whichever role's session the provider refused and however that turn was counted.
DeferralHonoured == deferred /\ ~single => ~AboutToStart

\* As many failing turns in a row as the limit are the last of the invocation,
\* whatever advisory reviews came between them.
BreakerTrips == bad >= MaxFailures => loop \in {"handler", "counted", "down"}

\* README: "A failing turn costs one cycle; three in a row trip the breaker", with
\* the turns counted as failed that fail while their outcome is applied.
FailuresTrip == row >= MaxFailures => loop \in {"counted", "down"}

\* nc run ends: it defers, trips or runs out of work, even if the owner stays away.
RunEnds == loop # "down" ~> loop = "down"
=============================================================================
