------------------------- MODULE SchedulerLoopProofs -------------------------
(***************************************************************************)
(* The scheduler's loop: it runs the planning turns as module Planning     *)
(* specifies them, trips its breaker in time and honours the deferrals it  *)
(* has recorded.  For every limit, every sharing of adapters among the     *)
(* roles, and any number of messages, proposals, turns and deaths.         *)
(***************************************************************************)
EXTENDS SchedulerLoop, TLAPS

\* A turn whose session has been started.
Underway == {"reviewing", "noted", "reviewed", "session", "applied", "closing", "ended"}

\* A failing turn adds one to the breaker's count, which is looked at between the turns.
CountInv ==
  /\ loop \in {"down", "top", "step", "task", "handler", "counted"}
  /\ failures \in Nat /\ bad \in Nat /\ bad <= failures
  /\ loop \in {"top", "step", "task"} => bad < MaxFailures

\* A planning turn lies within a step, and a deferral is noticed before the next one.
DeferInv ==
  /\ stage # "idle" => loop = "step"
  /\ deferred /\ ~single /\ loop \in {"step", "task"} => stage \in Underway

LoopInv == CountInv /\ DeferInv

(***************************************************************************)
(* The planning turns of the loop are those of module Planning.            *)
(***************************************************************************)

LEMMA StepIsPlanning == [Next]_vars => [PlanNext]_planVars
<1> SUFFICES ASSUME [Next]_vars PROVE PlanNext \/ UNCHANGED planVars
  OBVIOUS
<1>1. CASE ProbePasses \/ TaskStale \/ TaskExhausted \/ TaskSession \/ Handled \/ HandlerFails
  BY <1>1 DEF ProbePasses, TaskStale, TaskExhausted, TaskSession, Handled, HandlerFails
<1>2. CASE ProbeFails
  BY <1>2 DEF ProbeFails, PlanNext, Select
<1>3. CASE PickTask \/ PickPlanning
  <2>1. \E busy, crowded \in BOOLEAN : Pick(busy, crowded)
    BY <1>3, Zenon DEF PickTask, PickPlanning
  <2> QED
    BY <2>1, Zenon DEF PlanNext
<1>4. CASE Choose \/ Idle
  BY <1>4 DEF Choose, Idle, PlanNext, Select
<1>5. CASE Within \/ HostFails \/ ReviewOver \/ PlannerOver
  BY <1>5 DEF Within, HostFails, ReviewOver, PlannerOver, PlanNext, CriticTurn, PlannerTurn
<1>6. CASE Leave \/ BeginStep \/ Count
  BY <1>6 DEF Leave, BeginStep, Count
<1>7. ASSUME NEW s \in BOOLEAN, Start(s) PROVE UNCHANGED planVars
  BY <1>7 DEF Start
<1>8. CASE OwnerActs \/ OwnerStops \/ OwnerResumes \/ DeferralPasses
  BY <1>8 DEF OwnerActs, OwnerStops, OwnerResumes, DeferralPasses, PlanNext
<1>9. CASE Dies
  BY <1>9 DEF Dies, PlanNext
<1>10. CASE UNCHANGED vars
  BY <1>10 DEF vars
<1> QED
  BY <1>1, <1>2, <1>3, <1>4, <1>5, <1>6, <1>7, <1>8, <1>9, <1>10
     DEF Next, Scheduler, Step, Environment

\* Every behaviour of the loop is one of Planning: what is proved of its turns holds
\* of the turns that the loop makes.
THEOREM LoopImplementsPlanning == Spec => PlanSpec
<1>1. Init => PlanInit
  BY DEF Init
<1> QED
  BY <1>1, StepIsPlanning, PTL DEF Spec, PlanSpec

(***************************************************************************)
(* The breaker.                                                            *)
(***************************************************************************)

LEMMA StepCount == ASSUME CountInv, [Next]_vars PROVE CountInv'
<1> USE LoopAssumption DEF CountInv
<1>1. CASE ProbePasses \/ ProbeFails \/ TaskStale
  BY <1>1 DEF ProbePasses, ProbeFails, TaskStale
<1>2. CASE TaskExhausted \/ Handled
  BY <1>2 DEF TaskExhausted, Handled, Returns
<1>3. CASE HandlerFails
  BY <1>3 DEF HandlerFails, Returns
<1>4. CASE TaskSession
  BY <1>4 DEF TaskSession, Tally
<1>5. CASE PickTask
  BY <1>5 DEF PickTask
<1>6. CASE PickPlanning \/ Choose \/ Within
  BY <1>6 DEF PickPlanning, Choose, Within, loopVars
<1>7. CASE Idle \/ HostFails
  BY <1>7 DEF Idle, HostFails
<1>8. CASE ReviewOver
  BY <1>8 DEF ReviewOver, Returns
<1>9. CASE PlannerOver
  BY <1>9 DEF PlannerOver, Returns, Tally
<1>10. CASE Leave \/ BeginStep
  BY <1>10 DEF Leave, BeginStep
<1>11. CASE Count
  BY <1>11 DEF Count
<1>12. ASSUME NEW s \in BOOLEAN, Start(s) PROVE CountInv'
  BY <1>12 DEF Start
<1>13. CASE OwnerActs \/ OwnerStops \/ OwnerResumes \/ DeferralPasses \/ Dies
  BY <1>13 DEF OwnerActs, OwnerStops, OwnerResumes, DeferralPasses, Dies, loopVars
<1>14. CASE UNCHANGED vars
  BY <1>14 DEF vars, loopVars
<1> QED
  BY <1>1, <1>2, <1>3, <1>4, <1>5, <1>6, <1>7, <1>8, <1>9, <1>10, <1>11, <1>12, <1>13, <1>14
     DEF Next, Scheduler, Step, Environment

(***************************************************************************)
(* Deferrals.                                                              *)
(***************************************************************************)

LEMMA OwnerKeepsStage == Owner => stage' = stage
  BY DEF Owner, Feedback, Answer, RecoverPlannerRun, Revise, Decide, RecoverReviewRun,
     RecoverReviewWith

LEMMA StepDefer == ASSUME DeferInv, [Next]_vars PROVE DeferInv'
<1> USE DEF DeferInv
\* The turn is over, and so is the step.
<1>1. ASSUME stage' = "idle", loop' \notin {"step", "task"} PROVE DeferInv'
  BY <1>1
\* The turn goes on, and nothing was deferred or its session has been started.
<1>2. ASSUME stage # "idle", loop' = loop, single' = single,
             deferred' = deferred \/ stage' \in Underway,
             stage' # "idle", stage \in Underway => stage' \in Underway
      PROVE  DeferInv'
  BY <1>2
<1> USE DEF planVars, mail, plans, reviews, reading, history, Forget, loopVars
<1>3. CASE ProbePasses
  BY <1>3 DEF ProbePasses
<1>4. CASE ProbeFails
  BY <1>1, <1>4 DEF ProbeFails, NotProbed
<1>5. CASE TaskStale \/ TaskSession \/ TaskExhausted \/ Handled \/ HandlerFails
  <2>1. stage' = stage /\ loop # "step" /\ loop' \in {"down", "counted", "handler"}
    BY <1>5 DEF TaskStale, TaskSession, TaskExhausted, Handled, HandlerFails, Returns
  <2> QED
    BY <1>1, <2>1
<1>6. ASSUME NEW busy \in BOOLEAN, NEW crowded \in BOOLEAN, Pick(busy, crowded)
      PROVE  stage = "idle" /\ (busy => stage' = "idle")
  BY <1>6 DEF Pick, PickWith
<1>7a. CASE PickTask
  <2>1. stage = "idle" /\ stage' = "idle"
    BY <1>6, <1>7a, Zenon DEF PickTask
  <2>2. loop = "step" /\ UNCHANGED <<single, deferred>>
    BY <1>7a DEF PickTask
  <2> QED
    BY <2>1, <2>2 DEF Underway
<1>7b. CASE PickPlanning
  <2>1. stage = "idle"
    BY <1>6, <1>7b, Zenon DEF PickPlanning
  <2>2. UNCHANGED <<loop, single, deferred>> /\ loop = "step"
    BY <1>7b DEF PickPlanning
  <2> QED
    BY <2>1, <2>2 DEF Underway
<1>7. CASE Choose
  <2>1. stage = "picked" /\ stage' \in {"claiming", "planning"} /\ UNCHANGED <<loop, single, deferred>>
    BY <1>7 DEF Choose, SelectReview, SelectPlanner
  <2> QED
    BY <1>2, <2>1 DEF Underway
<1>8. CASE Idle
  BY <1>1, <1>8 DEF Idle, SelectNobody
<1>9. CASE Within
  <2>1. UNCHANGED <<loop, single, deferred>>
    BY <1>9 DEF Within
  <2>2. stage # "idle" /\ stage' # "idle" /\ (stage \in Underway => stage' \in Underway)
    BY <1>9 DEF Within, ClaimReview, StartReviewRun, RecordAttempt, CloseAttempt, CompleteReview,
       ReadRevision, ReadInbox, StartPlannerRun, AddProposal, AskOwner, Deliver, AllDelivered,
       EndPlannerRun, Underway
  <2> QED
    BY <1>2, <2>1, <2>2
<1>10. CASE HostFails
  <2>1. stage # "idle" /\ stage' \in {"noted", "closing"} /\ UNCHANGED <<loop, single>>
    BY <1>10 DEF HostFails, ReviewDeferred, ReviewFailed, NoAdvice, NoEffect
  <2> QED
    BY <1>2, <2>1 DEF Underway
<1>11. CASE ReviewOver \/ PlannerOver
  <2>1. stage' = "idle" /\ loop' \in {"down", "counted"}
    BY <1>11 DEF ReviewOver, PlannerOver, ClaimRefused, EndReviewRun, UpdatePlanner, Returns
  <2> QED
    BY <1>1, <2>1
<1>12. CASE Leave \/ Count
  <2>1. loop # "step" /\ stage' = stage /\ loop' \in {"down", "top"}
    BY <1>12 DEF Leave, Count
  <2> QED
    BY <1>1, <2>1
<1>13. CASE BeginStep
  <2>1. stage' = stage /\ loop = "top" /\ loop' = "step" /\ ~deferred'
    BY <1>13 DEF BeginStep, Halted
  <2> QED
    BY <2>1
<1>14. ASSUME NEW s \in BOOLEAN, Start(s) PROVE DeferInv'
  <2>1. stage' = stage /\ loop = "down" /\ single' = s /\ (s \/ loop' = "top")
    BY <1>14 DEF Start
  <2>2. stage' = "idle"
    BY <2>1
  <2>3. CASE s
    <3>1. single'
      BY <2>1, <2>3, Zenon
    <3> QED
      BY <2>2, <3>1
  <2>4. CASE ~s
    BY <1>1, <2>1, <2>2, <2>4
  <2> QED
    BY <2>3, <2>4
<1>15. CASE OwnerActs \/ OwnerStops \/ OwnerResumes
  <2>1. UNCHANGED <<stage, loop, single, deferred>>
    BY <1>15, OwnerKeepsStage DEF OwnerActs, OwnerStops, OwnerResumes
  <2> QED
    BY <2>1
<1>16. CASE DeferralPasses
  <2>1. UNCHANGED <<stage, loop>> /\ ~deferred'
    BY <1>16 DEF DeferralPasses
  <2> QED
    BY <2>1
<1>17. CASE Dies
  <2>1. stage' = "idle" /\ loop' = "down"
    BY <1>17 DEF Dies, Crash
  <2> QED
    BY <1>1, <2>1
<1>18. CASE UNCHANGED vars
  BY <1>18 DEF vars
<1> QED
  BY <1>3, <1>4, <1>5, <1>7a, <1>7b, <1>7, <1>8, <1>9, <1>10, <1>11, <1>12, <1>13, <1>14, <1>15,
     <1>16, <1>17, <1>18 DEF Next, Scheduler, Step, Environment

(***************************************************************************)
(* The theorems.                                                           *)
(***************************************************************************)

\* The breaker's count is never behind the failing turns, and a planning turn lies
\* within a step.
THEOREM LoopInvariant == Spec => []LoopInv
<1>1. Init => LoopInv
  BY LoopAssumption DEF Init, PlanInit, LoopInv, CountInv, DeferInv
<1>2. LoopInv /\ [Next]_vars => LoopInv'
  BY StepCount, StepDefer DEF LoopInv
<1> QED
  BY <1>1, <1>2, PTL DEF Spec

\* The invocation ends with as many failing turns in a row as the limit, for every
\* limit and whatever advisory reviews come between.
THEOREM BreakerWorks == Spec => []BreakerTrips
<1>1. LoopInv => BreakerTrips
  BY LoopAssumption DEF LoopInv, CountInv, BreakerTrips
<1> QED
  BY <1>1, LoopInvariant, PTL

\* nc run launches no session while a deferral it recorded lies in the future.
THEOREM DeferralIsHonoured == Spec => []DeferralHonoured
<1>1. LoopInv => DeferralHonoured
  BY DEF LoopInv, CountInv, DeferInv, DeferralHonoured, AboutToStart, Underway
<1> QED
  BY <1>1, LoopInvariant, PTL
=============================================================================
