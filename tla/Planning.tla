------------------------------ MODULE Planning ------------------------------
(***************************************************************************)
(* Planning in Neocortex: the planner's turns and the plan critic's        *)
(* reviews (nc/turn.py, nc/scheduler.py), the proposals, revisions,        *)
(* messages and review claims they work on (nc/state.py), and the owner,   *)
(* who sends feedback, approves and rejects WITHOUT the lifecycle lock,    *)
(* that is, at any moment of a turn.                                       *)
(*                                                                         *)
(* One project, one planner.  One action is one SQLite transaction, or one *)
(* read whose result is used after a later one; what a turn has read is    *)
(* kept in gotRevision, gotInbox and shown.  The process may die between   *)
(* any two steps.                                                          *)
(***************************************************************************)
EXTENDS Integers, FiniteSets

CONSTANTS
  MaxMessages,   \* bound: messages ever sent to the planner
  MaxProposals,  \* bound: proposals ever recorded
  Capacity,      \* config planner_max_pending_proposals
  MaxCrashes     \* bound: deaths of the scheduler's process

ASSUME PlanningAssumption ==
  /\ MaxMessages \in Nat /\ MaxProposals \in Nat
  /\ Capacity \in Nat /\ MaxCrashes \in Nat

Messages == 1..MaxMessages      \* message ids, in the order they were sent
Proposals == 1..MaxProposals    \* proposal ids, in the order they were recorded
None == 0                       \* NULL, where an id is optional

Planner == 0                    \* whose turn it is: the planner's, or that of
Nobody == -1                    \*   the plan critic of a proposal, or nobody's

ProposalStatuses == {"absent", "pending", "approved", "rejected", "superseded"}
ReviewStatuses == {"absent", "running", "retryable", "done", "failed"}
PlannerStates == {"absent", "runnable", "waiting", "blocked", "done"}
Results == {"none", "DONE", "ASK", "FAIL", "NO_OUTCOME", "hostfailed", "deferred"}
Stages == {"idle", "picked",
           "claiming", "claimed", "attempting", "reviewing", "noted", "reviewed",
           "planning", "revision", "inbox", "session", "applied", "closing", "ended"}

VARIABLES
  planner,      \* agent.state of the planner, "absent" before its row exists
  touched,      \* agent.updated_at moved since the turn read the row
  sent,         \* number of messages to the planner
  delivered,    \* messages with delivered = 1
  questions,    \* the planner's undelivered QUESTIONs to the owner
  proposal,     \* proposal.status
  revision,     \* proposal_revision.feedback_id of an original, or None
  replacement,  \* proposal_revision.replacement_id of an original, or None
  review,       \* plan_review.status
  attempt,      \* whether a plan_review_attempt is 'running'
  unfinished,   \* run rows without ended_at, per actor
  stage,        \* how far the turn is
  actor,        \* whose turn it is
  gotRevision,  \* run_planner_turn: revision
  gotInbox,     \* run_planner_turn: inbox_ids not yet marked delivered
  shown,        \* the revision that the brief shows
  result,       \* the outcome of the session
  crashes       \* deaths so far

\* History: messages some brief showed; whether recover-runs blocked the planner and
\* the owner has not spoken since; how often a message of the inbox was used for a
\* proposal or a question.
VARIABLES heard, silenced, uses

mail == <<sent, delivered, questions>>
plans == <<proposal, revision, replacement>>
reviews == <<review, attempt>>
reading == <<gotRevision, gotInbox, shown>>
history == <<heard, silenced, uses>>
planVars == <<planner, touched, mail, plans, reviews, unfinished, stage, actor,
              reading, result, crashes, history>>

Actors == {Planner} \cup Proposals

PlanTypeOK ==
  /\ planner \in PlannerStates
  /\ touched \in BOOLEAN
  /\ sent \in 0..MaxMessages
  /\ delivered \subseteq Messages
  /\ questions \in Nat
  /\ proposal \in [Proposals -> ProposalStatuses]
  /\ revision \in [Proposals -> Messages \cup {None}]
  /\ replacement \in [Proposals -> Proposals \cup {None}]
  /\ review \in [Proposals -> ReviewStatuses]
  /\ attempt \in [Proposals -> BOOLEAN]
  /\ unfinished \in [Actors -> Nat]
  /\ stage \in Stages
  /\ actor \in Actors \cup {Nobody}
  /\ gotRevision \in Proposals \cup {None}
  /\ gotInbox \subseteq Messages
  /\ shown \in Proposals \cup {None}
  /\ result \in Results
  /\ crashes \in Nat
  /\ heard \subseteq Messages
  /\ silenced \in BOOLEAN
  /\ uses \in [Messages -> Nat]

PlanInit ==
  /\ planner = "absent"
  /\ touched = FALSE
  /\ sent = 0 /\ delivered = {} /\ questions = 0
  /\ proposal = [p \in Proposals |-> "absent"]
  /\ revision = [p \in Proposals |-> None]
  /\ replacement = [p \in Proposals |-> None]
  /\ review = [p \in Proposals |-> "absent"]
  /\ attempt = [p \in Proposals |-> FALSE]
  /\ unfinished = [a \in Actors |-> 0]
  /\ stage = "idle" /\ actor = Nobody
  /\ gotRevision = None /\ gotInbox = {} /\ shown = None
  /\ result = "none"
  /\ crashes = 0
  /\ heard = {} /\ silenced = FALSE
  /\ uses = [m \in Messages |-> 0]

Pending == {p \in Proposals : proposal[p] = "pending"}
Sent == 1..sent
Undelivered == Sent \ delivered
OpenRevisions == {p \in Proposals : revision[p] # None /\ replacement[p] = None}
Unreviewed == {p \in Pending : review[p] \in {"absent", "retryable"}}

\* x is the least element of S.
Least(x, S) == x \in S /\ \A y \in S : x <= y

\* pending_revision: by original id, whatever the order of the feedback.
PendingRevision(r) == IF OpenRevisions = {} THEN r = None ELSE Least(r, OpenRevisions)

\* The turn is over, or never began.
Forget ==
  /\ stage' = "idle" /\ actor' = Nobody
  /\ gotRevision' = None /\ gotInbox' = {} /\ shown' = None
  /\ result' = "none"
----------------------------------------------------------------------------
(* Selection: pick, and the choice of a proposal to review.                *)

\* pick, as far as the planner is concerned: busy, a worker or critic is
\* runnable; active, the planner is one of the candidates; gated, it has to wait.
PickWith(busy, active, gated) ==
  /\ stage = "idle"
  /\ planner' = IF active THEN IF gated THEN "waiting" ELSE "runnable" ELSE planner
  /\ touched' = FALSE
  /\ stage' = IF busy THEN "idle" ELSE "picked"
  /\ actor' = IF active /\ ~gated THEN Planner ELSE Nobody
  /\ UNCHANGED <<mail, plans, reviews, unfinished, reading, result, crashes, history>>

\* Mutant of Pick: one pending proposal too many does not hold the planner back.
PickMutant(busy, crowded) ==
  PickWith(busy, planner \in {"runnable", "waiting"},
           busy \/ crowded \/ Cardinality(Pending) > Capacity)

\* Mutant of Pick: planners that wait are no candidates.
PickForgetful(busy, crowded) ==
  PickWith(busy, planner = "runnable", busy \/ crowded \/ Cardinality(Pending) >= Capacity)

\* crowded: more than planner_max_queued tasks are queued.
Pick(busy, crowded) ==
  PickWith(busy, planner \in {"runnable", "waiting"},
           busy \/ crowded \/ Cardinality(Pending) >= Capacity)

SelectReview ==
  /\ stage = "picked"
  /\ \E p \in Proposals :
       /\ Least(p, Unreviewed)
       /\ actor' = p
  /\ stage' = "claiming"
  /\ UNCHANGED <<planner, touched, mail, plans, reviews, unfinished, reading, result, crashes, history>>

SelectPlanner ==
  /\ stage = "picked" /\ Unreviewed = {} /\ actor = Planner
  /\ stage' = "planning"
  /\ UNCHANGED <<planner, touched, mail, plans, reviews, unfinished, actor, reading, result, crashes, history>>

SelectNobody ==
  /\ stage = "picked" /\ Unreviewed = {} /\ actor = Nobody
  /\ stage' = "idle"
  /\ UNCHANGED <<planner, touched, mail, plans, reviews, unfinished, actor, reading, result, crashes, history>>

\* The preflight of the role defers or fails.
NotProbed ==
  /\ stage \in {"claiming", "planning"}
  /\ Forget
  /\ UNCHANGED <<planner, touched, mail, plans, reviews, unfinished, crashes, history>>
----------------------------------------------------------------------------
(* A plan critic's turn.                                                   *)

\* Mutant of Claimable: a review that an outage interrupted is not claimed again.
ClaimableMutant(p) == proposal[p] = "pending" /\ review[p] = "absent"

Claimable(p) == proposal[p] = "pending" /\ review[p] \in {"absent", "retryable"}

ClaimReview ==
  /\ stage = "claiming" /\ Claimable(actor)
  /\ review' = [review EXCEPT ![actor] = "running"]
  /\ stage' = "claimed"
  /\ UNCHANGED <<planner, touched, mail, plans, attempt, unfinished, actor, reading, result, crashes, history>>

\* "Proposal is no longer reviewable".
ClaimRefused ==
  /\ stage = "claiming" /\ ~Claimable(actor)
  /\ Forget
  /\ UNCHANGED <<planner, touched, mail, plans, reviews, unfinished, crashes, history>>

StartReviewRun ==
  /\ stage = "claimed"
  /\ unfinished' = [unfinished EXCEPT ![actor] = @ + 1]
  /\ stage' = "attempting"
  /\ UNCHANGED <<planner, touched, mail, plans, reviews, actor, reading, result, crashes, history>>

RecordAttempt ==
  /\ stage = "attempting"
  /\ attempt' = [attempt EXCEPT ![actor] = TRUE]
  /\ stage' = "reviewing"
  /\ UNCHANGED <<planner, touched, mail, plans, review, unfinished, actor, reading, result, crashes, history>>

\* No advice: the review gets its status, then the attempt, in two transactions.
NoAdvice(s, r) ==
  /\ stage = "reviewing"
  /\ review' = [review EXCEPT ![actor] = s]
  /\ result' = r
  /\ stage' = "noted"
  /\ UNCHANGED <<planner, touched, mail, plans, attempt, unfinished, actor, reading, crashes, history>>

\* A temporary failure of the provider; another failed host, or no usable outcome.
ReviewDeferred == NoAdvice("retryable", "deferred")
ReviewFailed == NoAdvice("failed", "FAIL")

CloseAttempt ==
  /\ stage = "noted"
  /\ attempt' = [attempt EXCEPT ![actor] = FALSE]
  /\ stage' = "reviewed"
  /\ UNCHANGED <<planner, touched, mail, plans, review, unfinished, actor, reading, result, crashes, history>>

\* complete_plan_review: the advice is kept if the proposal is still pending.
CompleteReview ==
  /\ stage = "reviewing"
  /\ review' = [review EXCEPT ![actor] = IF proposal[actor] = "pending" THEN "done" ELSE "failed"]
  /\ attempt' = [attempt EXCEPT ![actor] = FALSE]
  /\ result' = "DONE"
  /\ stage' = "reviewed"
  /\ UNCHANGED <<planner, touched, mail, plans, unfinished, actor, reading, crashes, history>>

EndReviewRun ==
  /\ stage = "reviewed"
  /\ unfinished' = [unfinished EXCEPT ![actor] = @ - 1]
  /\ Forget
  /\ UNCHANGED <<planner, touched, mail, plans, reviews, crashes, history>>
----------------------------------------------------------------------------
(* A planner's turn.                                                       *)

ReadRevision ==
  /\ stage = "planning"
  /\ PendingRevision(gotRevision')
  /\ stage' = "revision"
  /\ UNCHANGED <<planner, touched, mail, plans, reviews, unfinished, actor, gotInbox, shown,
                 result, crashes, history>>

\* build_planner_brief: the inbox, after a git ls-files of the project ...
ReadInbox ==
  /\ stage = "revision"
  /\ gotInbox' = Undelivered
  /\ stage' = "inbox"
  /\ UNCHANGED <<planner, touched, mail, plans, reviews, unfinished, actor, gotRevision, shown,
                 result, crashes, history>>

\* ... and the revision again, for the brief; then start_run.
StartPlannerRun ==
  /\ stage = "inbox"
  /\ PendingRevision(shown')
  /\ heard' = heard \cup gotInbox
                \cup (IF shown' = None THEN {} ELSE {revision[shown']})
  /\ unfinished' = [unfinished EXCEPT ![Planner] = @ + 1]
  /\ stage' = "session"
  /\ UNCHANGED <<planner, touched, mail, plans, reviews, actor, gotRevision, gotInbox,
                 result, crashes, silenced, uses>>

\* The session's proposal p, recorded as the replacement of the revision read first.
AddProposal(p) ==
  /\ stage = "session"
  /\ proposal[p] = "absent" /\ \A q \in Proposals : q < p => proposal[q] # "absent"
  /\ gotRevision # None => replacement[gotRevision] = None
  /\ proposal' = [proposal EXCEPT ![p] = "pending"]
  /\ replacement' = [r \in Proposals |-> IF r = gotRevision THEN p ELSE replacement[r]]
  /\ uses' = [m \in Messages |-> IF m \in gotInbox THEN uses[m] + 1 ELSE uses[m]]
  /\ result' = "DONE" /\ stage' = "applied"
  /\ UNCHANGED <<planner, touched, mail, revision, reviews, unfinished, actor, reading,
                 crashes, heard, silenced>>

\* Mutant of AskOwner: only a proposal consumes the inbox.
AskOwnerMutant ==
  /\ stage = "session"
  /\ questions' = questions + 1
  /\ uses' = [m \in Messages |-> IF m \in gotInbox THEN uses[m] + 1 ELSE uses[m]]
  /\ result' = "ASK" /\ stage' = "closing"
  /\ UNCHANGED <<planner, touched, sent, delivered, plans, reviews, unfinished, actor, reading,
                 crashes, heard, silenced>>

AskOwner ==
  /\ stage = "session"
  /\ questions' = questions + 1
  /\ uses' = [m \in Messages |-> IF m \in gotInbox THEN uses[m] + 1 ELSE uses[m]]
  /\ result' = "ASK" /\ stage' = "applied"
  /\ UNCHANGED <<planner, touched, sent, delivered, plans, reviews, unfinished, actor, reading,
                 crashes, heard, silenced>>

\* The session failed, or its outcome is missing, refused by the protocol or void
\* because its host failed: nothing is recorded and nothing marked delivered.
NoEffect ==
  /\ stage = "session"
  /\ result' \in {"FAIL", "NO_OUTCOME", "hostfailed", "deferred"}
  /\ stage' = "closing"
  /\ UNCHANGED <<planner, touched, mail, plans, reviews, unfinished, actor, reading, crashes, history>>

\* mark_delivered: one transaction for each message.
Deliver(m) ==
  /\ stage = "applied" /\ Least(m, gotInbox)
  /\ delivered' = delivered \cup {m}
  /\ gotInbox' = gotInbox \ {m}
  /\ UNCHANGED <<planner, touched, sent, questions, plans, reviews, unfinished, stage, actor,
                 gotRevision, shown, result, crashes, history>>

AllDelivered ==
  /\ stage = "applied" /\ gotInbox = {}
  /\ stage' = "closing"
  /\ UNCHANGED <<planner, touched, mail, plans, reviews, unfinished, actor, reading, result,
                 crashes, history>>

EndPlannerRun ==
  /\ stage = "closing"
  /\ unfinished' = [unfinished EXCEPT ![Planner] = @ - 1]
  /\ stage' = "ended"
  /\ UNCHANGED <<planner, touched, mail, plans, reviews, actor, reading, result, crashes, history>>

\* A DONE with a revision still open keeps the planner awake.
AfterTurn ==
  CASE result = "deferred" -> "runnable"
    [] result = "DONE" -> IF OpenRevisions = {} THEN "done" ELSE "runnable"
    [] OTHER -> "blocked"

\* Mutant of UpdatePlanner: the state is written whatever came in meanwhile.
UpdatePlannerForgetful ==
  /\ stage = "ended"
  /\ planner' = AfterTurn
  /\ Forget
  /\ UNCHANGED <<touched, mail, plans, reviews, unfinished, crashes, history>>

UpdatePlanner ==
  /\ stage = "ended"
  /\ planner' = IF touched THEN planner ELSE AfterTurn
  /\ Forget
  /\ UNCHANGED <<touched, mail, plans, reviews, unfinished, crashes, history>>
----------------------------------------------------------------------------
(* The owner, and the scheduler's death.                                   *)

Wake ==
  /\ sent' = sent + 1
  /\ planner' = "runnable" /\ touched' = TRUE
  /\ silenced' = FALSE

\* planner_feedback without a proposal: a note, or a request for a plan.
Feedback ==
  /\ sent < MaxMessages
  /\ Wake
  /\ UNCHANGED <<delivered, questions, plans, reviews, unfinished, stage, actor, reading, result,
                 crashes, heard, uses>>

\* planner_feedback on a pending proposal.
Revise(p) ==
  /\ sent < MaxMessages /\ proposal[p] = "pending"
  /\ Wake
  /\ proposal' = [proposal EXCEPT ![p] = "superseded"]
  /\ revision' = [revision EXCEPT ![p] = sent + 1]
  /\ UNCHANGED <<delivered, questions, replacement, reviews, unfinished, stage, actor, reading,
                 result, crashes, heard, uses>>

\* Mutant of Decide: a proposal under revision can still be approved.
DecideMutant(p) ==
  /\ proposal[p] \in {"pending", "superseded"}
  /\ \E s \in {"approved", "rejected"} : proposal' = [proposal EXCEPT ![p] = s]
  /\ UNCHANGED <<planner, touched, mail, revision, replacement, reviews, unfinished, stage, actor,
                 reading, result, crashes, history>>

\* approve_proposal and reject_proposal.
Decide(p) ==
  /\ proposal[p] = "pending"
  /\ \E s \in {"approved", "rejected"} : proposal' = [proposal EXCEPT ![p] = s]
  /\ UNCHANGED <<planner, touched, mail, revision, replacement, reviews, unfinished, stage, actor,
                 reading, result, crashes, history>>

\* answer_message and recover_runs take the lifecycle lock: no turn is in progress.
Answer ==
  /\ stage = "idle" /\ questions > 0 /\ sent < MaxMessages
  /\ Wake
  /\ questions' = questions - 1
  /\ UNCHANGED <<delivered, plans, reviews, unfinished, stage, actor, reading, result, crashes,
                 heard, uses>>

\* The planner is put to sleep, also over what it has not heard.
RecoverPlannerRun ==
  /\ stage = "idle" /\ unfinished[Planner] > 0
  /\ unfinished' = [unfinished EXCEPT ![Planner] = @ - 1]
  /\ planner' = "blocked" /\ touched' = TRUE
  /\ silenced' = TRUE
  /\ UNCHANGED <<mail, plans, reviews, stage, actor, reading, result, crashes, heard, uses>>

\* A critic's run of proposal p; s, what becomes of its review if the run has an
\* attempt still running.
RecoverReviewWith(p, s) ==
  /\ stage = "idle"
  /\ unfinished' = [unfinished EXCEPT ![p] = @ - 1]
  /\ \/ /\ attempt[p]
        /\ attempt' = [attempt EXCEPT ![p] = FALSE]
        /\ review' = [review EXCEPT ![p] = s]
     \/ /\ attempt[p] => unfinished[p] > 1
        /\ UNCHANGED reviews
  /\ UNCHANGED <<planner, touched, mail, plans, stage, actor, reading, result, crashes, history>>

\* Mutant of RecoverReviewRun: a review concluded before the death is released too.
RecoverReviewRunMutant(p) == unfinished[p] > 0 /\ RecoverReviewWith(p, "retryable")

RecoverReviewRun(p) ==
  /\ unfinished[p] > 0
  /\ RecoverReviewWith(p, IF review[p] = "running" THEN "retryable" ELSE review[p])

Crash ==
  /\ stage # "idle" /\ crashes < MaxCrashes
  /\ crashes' = crashes + 1
  /\ Forget
  /\ UNCHANGED <<planner, touched, mail, plans, reviews, unfinished, history>>
----------------------------------------------------------------------------
CriticTurn ==
  \/ ClaimReview \/ ClaimRefused \/ StartReviewRun \/ RecordAttempt
  \/ ReviewDeferred \/ ReviewFailed \/ CloseAttempt \/ CompleteReview \/ EndReviewRun

PlannerTurn ==
  \/ ReadRevision \/ ReadInbox \/ StartPlannerRun
  \/ \E p \in Proposals : AddProposal(p)
  \/ AskOwner \/ NoEffect
  \/ \E m \in Messages : Deliver(m)
  \/ AllDelivered \/ EndPlannerRun \/ UpdatePlanner

Select == SelectReview \/ SelectPlanner \/ SelectNobody \/ NotProbed

Owner ==
  \/ Feedback \/ Answer \/ RecoverPlannerRun
  \/ \E p \in Proposals : Revise(p) \/ Decide(p) \/ RecoverReviewRun(p)

PlanNext ==
  \/ \E busy, crowded \in BOOLEAN : Pick(busy, crowded)
  \/ Select \/ CriticTurn \/ PlannerTurn \/ Owner \/ Crash

PlanSpec == PlanInit /\ [][PlanNext]_planVars

\* What the timer and a working provider give: the scheduler picks again once no
\* worker or critic is runnable and the queue is short, the steps of a turn follow
\* each other, and probes and sessions of the critic do not fail every time.
PlanFairness ==
  /\ SF_planVars(Pick(FALSE, FALSE))
  /\ WF_planVars(SelectReview \/ SelectPlanner \/ SelectNobody)
  /\ WF_planVars(CriticTurn) /\ SF_planVars(ClaimReview)
  /\ SF_planVars(ReviewFailed \/ CompleteReview)
  /\ WF_planVars(PlannerTurn) /\ SF_planVars(ReadRevision)

PlanFairSpec == PlanSpec /\ PlanFairness
----------------------------------------------------------------------------
(* Properties.                                                             *)

\* No wake-up is lost but to recovery: whenever the owner has said something that no
\* brief has shown yet, the planner is due for a turn, even if the owner spoke in
\* the middle of a turn or of its end.  The exception is a planner that recover-runs
\* put to sleep over unheard feedback: it sleeps until the owner speaks again, and is
\* then due for all of it.
FeedbackIsHeard ==
  \A m \in Sent : m \in heard \/ planner \in {"runnable", "waiting"} \/ silenced

\* Revisions: exactly the superseded proposals await or have a replacement, no two
\* have the same one, and a planner that is done has none left to write.
RevisionLineage ==
  /\ \A p \in Proposals : revision[p] # None <=> proposal[p] = "superseded"
  /\ \A p \in Proposals : replacement[p] # None => revision[p] # None /\ replacement[p] > p
  /\ \A p, q \in Proposals : replacement[p] = replacement[q] /\ p # q => replacement[p] = None
  /\ planner = "done" => OpenRevisions = {}

\* The planner never exceeds the owner's limit on pending proposals, although the
\* limit is checked when the turn is picked and the proposal recorded at its end.
PendingWithinCapacity == Cardinality(Pending) <= Capacity

\* A message of the inbox leads to one proposal or question, and to another one
\* only if the process died between recording it and marking the message delivered.
FeedbackUsedOnce == \A m \in Messages : uses[m] <= 1 + crashes

\* Concluded advice is final: a proposal is reviewed again only after an outage or
\* an interrupted run.
ReviewFinal ==
  [][\A p \in Proposals : review[p] \in {"done", "failed"} => review'[p] = review[p]]_planVars

\* The critic catches up: in the end every pending proposal has its review, unless
\* the scheduler died.
Unconcluded == {p \in Pending : review[p] \notin {"done", "failed"}}
ReviewsConclude == Unconcluded # {} ~> Unconcluded = {} \/ crashes > 0

\* What the owner said is shown to a planner in the end: the gates that make it
\* wait do not keep it waiting, but for proposals that only the owner can decide.
\* Excepted is a planner that recover-runs put to sleep, until the owner speaks again.
FeedbackGetsHeard ==
  ~(Sent \subseteq heard)
    ~> Sent \subseteq heard \/ silenced \/ Cardinality(Pending) >= Capacity
=============================================================================
