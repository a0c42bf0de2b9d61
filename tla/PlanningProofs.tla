--------------------------- MODULE PlanningProofs ---------------------------
(***************************************************************************)
(* Proofs of the safety properties of planning, for any number of          *)
(* messages, proposals and deaths, and any limit on pending proposals.     *)
(***************************************************************************)
EXTENDS Planning, FiniteSetTheorems, TLAPS

(***************************************************************************)
(* The inductive invariant.                                                *)
(***************************************************************************)

Reviewing == {"claiming", "claimed", "attempting", "reviewing", "noted", "reviewed"}
PlannerStages == {"planning", "revision", "inbox", "session", "applied", "closing", "ended"}

\* Whose turn it is, what it has claimed, and the run it will close.
TurnInv ==
  /\ stage \in Reviewing => actor \in Proposals
  /\ stage \in PlannerStages => actor = Planner
  /\ stage \in {"claimed", "attempting", "reviewing"} => review[actor] = "running"
  /\ stage \in {"attempting", "reviewing", "noted", "reviewed", "session", "applied", "closing"}
       => unfinished[actor] > 0

\* Proposals are recorded in order; a replacement is recorded, and what a turn read
\* as the pending revision has been asked for.
LineageInv ==
  /\ \A p, q \in Proposals : q < p /\ proposal[p] # "absent" => proposal[q] # "absent"
  /\ \A p \in Proposals : replacement[p] # None => proposal[replacement[p]] # "absent"
  /\ gotRevision # None => revision[gotRevision] # None

\* A picked planner has room for the proposal of its turn.
RoomInv ==
  actor = Planner /\ stage \in {"picked", "planning", "revision", "inbox", "session"} =>
    Cardinality(Pending) < Capacity

\* What the planner's turn has read, and whether the owner has spoken since.
HeardInv ==
  /\ delivered \subseteq heard
  /\ stage = "inbox" /\ ~touched => Sent \subseteq delivered \cup gotInbox
  /\ stage \in {"session", "applied", "closing", "ended"} =>
       /\ gotInbox \subseteq heard
       /\ ~touched => Sent \subseteq heard

\* A message is used again only before it is marked delivered, after a death.
UsesInv ==
  /\ gotInbox \cap delivered = {}
  /\ \A m \in Messages :
       uses[m] <= crashes \/ m \in delivered \/ (stage = "applied" /\ m \in gotInbox)

PlanInv ==
  /\ PlanTypeOK /\ TurnInv /\ LineageInv /\ RoomInv /\ HeardInv /\ UsesInv
  /\ FeedbackIsHeard /\ RevisionLineage /\ PendingWithinCapacity /\ FeedbackUsedOnce

(***************************************************************************)
(* Initially.                                                              *)
(***************************************************************************)

LEMMA InitInv == PlanInit => PlanInv
<1> SUFFICES ASSUME PlanInit PROVE PlanInv
  OBVIOUS
<1> USE PlanningAssumption
<1>1. PlanTypeOK
  <2>1. /\ proposal \in [Proposals -> ProposalStatuses] /\ review \in [Proposals -> ReviewStatuses]
        /\ revision \in [Proposals -> Messages \cup {None}]
        /\ replacement \in [Proposals -> Proposals \cup {None}]
    BY DEF PlanInit, ProposalStatuses, ReviewStatuses
  <2>2. /\ attempt \in [Proposals -> BOOLEAN] /\ unfinished \in [Actors -> Nat]
        /\ uses \in [Messages -> Nat]
    BY DEF PlanInit
  <2>3. /\ planner \in PlannerStates /\ stage \in Stages /\ result \in Results
        /\ actor \in Actors \cup {Nobody}
    BY DEF PlanInit, PlannerStates, Stages, Results
  <2>4. touched \in BOOLEAN /\ silenced \in BOOLEAN
    BY DEF PlanInit
  <2>5. sent \in 0..MaxMessages /\ questions \in Nat /\ crashes \in Nat
    BY DEF PlanInit
  <2>6. /\ delivered \subseteq Messages /\ gotInbox \subseteq Messages
        /\ heard \subseteq Messages
        /\ gotRevision \in Proposals \cup {None} /\ shown \in Proposals \cup {None}
    BY DEF PlanInit
  <2> QED
    BY <2>1, <2>2, <2>3, <2>4, <2>5, <2>6, Zenon DEF PlanTypeOK
<1>2. Pending = {} /\ OpenRevisions = {} /\ Sent = {}
  BY DEF PlanInit, Pending, OpenRevisions, Sent
<1>3. Cardinality(Pending) = 0
  BY <1>2, FS_EmptySet
<1>4. TurnInv /\ RoomInv
  BY DEF PlanInit, TurnInv, RoomInv, Reviewing, PlannerStages, Planner, Nobody
<1>5. LineageInv /\ RevisionLineage
  BY <1>2 DEF PlanInit, LineageInv, RevisionLineage
<1>6. HeardInv /\ UsesInv /\ FeedbackIsHeard /\ FeedbackUsedOnce
  BY <1>2 DEF PlanInit, HeardInv, UsesInv, FeedbackIsHeard, FeedbackUsedOnce
<1>7. PendingWithinCapacity
  BY <1>3 DEF PendingWithinCapacity
<1> QED
  BY <1>1, <1>4, <1>5, <1>6, <1>7 DEF PlanInv

(***************************************************************************)
(* Types.                                                                  *)
(***************************************************************************)

LEMMA StepTyped == ASSUME PlanTypeOK, TurnInv, [PlanNext]_planVars PROVE PlanTypeOK'
<1> USE PlanningAssumption
<1> USE DEF planVars, mail, plans, reviews, reading, history, Forget, Stages, Actors
<1>1. ASSUME NEW busy \in BOOLEAN, NEW crowded \in BOOLEAN, Pick(busy, crowded) PROVE PlanTypeOK'
  BY <1>1 DEF Pick, PickWith, PlanTypeOK, PlannerStates
<1>2. CASE SelectReview
  BY <1>2 DEF SelectReview, Least, PlanTypeOK
<1>3. CASE SelectPlanner \/ SelectNobody \/ NotProbed
  BY <1>3 DEF SelectPlanner, SelectNobody, NotProbed, PlanTypeOK, None, Results
<1>4. CASE ClaimRefused
  BY <1>4 DEF ClaimRefused, PlanTypeOK, None, Results
<1>5. CASE ClaimReview
  BY <1>5 DEF ClaimReview, PlanTypeOK, ReviewStatuses
<1>6. CASE StartReviewRun
  <2>1. unfinished' \in [Actors -> Nat]
    BY <1>6 DEF StartReviewRun, PlanTypeOK, TurnInv, Reviewing
  <2>2. stage' \in Stages /\ UNCHANGED <<planner, touched, mail, plans, reviews, actor, reading, result, crashes, history>>
    BY <1>6 DEF StartReviewRun
  <2> QED
    BY <2>1, <2>2 DEF PlanTypeOK
<1>7. CASE RecordAttempt
  <2>1. attempt' \in [Proposals -> BOOLEAN]
    BY <1>7, Zenon DEF RecordAttempt, PlanTypeOK
  <2> QED
    BY <1>7, <2>1 DEF RecordAttempt, PlanTypeOK
<1>8. CASE ReviewDeferred \/ ReviewFailed
  BY <1>8 DEF ReviewDeferred, ReviewFailed, NoAdvice, PlanTypeOK, ReviewStatuses, Results
<1>9. CASE CloseAttempt
  <2>1. attempt' \in [Proposals -> BOOLEAN]
    BY <1>9, Zenon DEF CloseAttempt, PlanTypeOK
  <2> QED
    BY <1>9, <2>1 DEF CloseAttempt, PlanTypeOK
<1>10. CASE CompleteReview
  <2>1. attempt' \in [Proposals -> BOOLEAN]
    BY <1>10, Zenon DEF CompleteReview, PlanTypeOK
  <2>2. review' \in [Proposals -> ReviewStatuses]
    BY <1>10 DEF CompleteReview, PlanTypeOK, ReviewStatuses
  <2> QED
    BY <1>10, <2>1, <2>2 DEF CompleteReview, PlanTypeOK, Results
<1>11. CASE EndReviewRun
  <2>1. actor \in Proposals /\ unfinished[actor] > 0
    BY <1>11 DEF EndReviewRun, TurnInv, Reviewing
  <2>2. unfinished' \in [Actors -> Nat]
    BY <1>11, <2>1 DEF EndReviewRun, PlanTypeOK
  <2> QED
    BY <1>11, <2>2 DEF EndReviewRun, PlanTypeOK, None, Results
<1>12. ASSUME NEW r \in {gotRevision', shown'}, PendingRevision(r) PROVE r \in Proposals \cup {None}
  BY <1>12 DEF PendingRevision, Least, OpenRevisions
<1>13. CASE ReadRevision
  BY <1>12, <1>13 DEF ReadRevision, PlanTypeOK
<1>14. CASE ReadInbox
  <2>1. Undelivered \subseteq Messages
    BY DEF Undelivered, Sent, Messages, PlanTypeOK
  <2> QED
    BY <1>14, <2>1 DEF ReadInbox, PlanTypeOK
<1>15. CASE StartPlannerRun
  <2>1. shown' \in Proposals \cup {None}
    BY <1>12, <1>15 DEF StartPlannerRun
  <2>2. shown' # None => revision[shown'] \in Messages
    BY <1>15, <2>1 DEF StartPlannerRun, PendingRevision, Least, OpenRevisions, PlanTypeOK
  <2>3. heard' \subseteq Messages
    BY <1>15, <2>2 DEF StartPlannerRun, PlanTypeOK
  <2>4. unfinished' \in [Actors -> Nat]
    BY <1>15 DEF StartPlannerRun, PlanTypeOK
  <2> QED
    BY <1>15, <2>1, <2>3, <2>4 DEF StartPlannerRun, PlanTypeOK
<1>16. uses \in [Messages -> Nat] =>
         [m \in Messages |-> IF m \in gotInbox THEN uses[m] + 1 ELSE uses[m]] \in [Messages -> Nat]
  OBVIOUS
<1>17. ASSUME NEW p \in Proposals, AddProposal(p) PROVE PlanTypeOK'
  <2>1. proposal' \in [Proposals -> ProposalStatuses]
    BY <1>17 DEF AddProposal, PlanTypeOK, ProposalStatuses
  <2>2. replacement' \in [Proposals -> Proposals \cup {None}]
    BY <1>17 DEF AddProposal, PlanTypeOK
  <2>3. uses' \in [Messages -> Nat]
    BY <1>16, <1>17 DEF AddProposal, PlanTypeOK
  <2> QED
    BY <1>17, <2>1, <2>2, <2>3 DEF AddProposal, PlanTypeOK, Results
<1>18. CASE AskOwner
  <2>1. uses' \in [Messages -> Nat] /\ questions' \in Nat
    BY <1>16, <1>18 DEF AskOwner, PlanTypeOK
  <2> QED
    BY <1>18, <2>1 DEF AskOwner, PlanTypeOK, Results
<1>19. CASE NoEffect \/ AllDelivered
  BY <1>19 DEF NoEffect, AllDelivered, PlanTypeOK, Results
<1>20. ASSUME NEW m \in Messages, Deliver(m) PROVE PlanTypeOK'
  BY <1>20 DEF Deliver, PlanTypeOK
<1>21. CASE EndPlannerRun
  <2>1. actor = Planner /\ unfinished[Planner] > 0
    BY <1>21 DEF EndPlannerRun, TurnInv, PlannerStages
  <2>2. unfinished' \in [Actors -> Nat]
    BY <1>21, <2>1 DEF EndPlannerRun, PlanTypeOK
  <2> QED
    BY <1>21, <2>2 DEF EndPlannerRun, PlanTypeOK
<1>22. CASE UpdatePlanner
  <2>1. planner' \in PlannerStates
    BY <1>22 DEF UpdatePlanner, AfterTurn, PlanTypeOK, PlannerStates
  <2> QED
    BY <1>22, <2>1 DEF UpdatePlanner, PlanTypeOK, None, Results
<1>23. CASE Feedback \/ Answer
  <2>1. sent' \in 0..MaxMessages /\ planner' \in PlannerStates
    BY <1>23 DEF Feedback, Answer, Wake, PlanTypeOK, PlannerStates
  <2>2. touched' \in BOOLEAN /\ silenced' \in BOOLEAN
    BY <1>23, Zenon DEF Feedback, Answer, Wake
  <2>3. questions' \in Nat
    BY <1>23 DEF Feedback, Answer, PlanTypeOK
  <2>4. UNCHANGED <<delivered, plans, reviews, unfinished, stage, actor, reading, result, crashes,
                    heard, uses>>
    BY <1>23 DEF Feedback, Answer
  <2> QED
    BY <2>1, <2>2, <2>3, <2>4 DEF PlanTypeOK
<1>24. ASSUME NEW p \in Proposals, Revise(p) PROVE PlanTypeOK'
  <2>1. proposal' \in [Proposals -> ProposalStatuses]
    BY <1>24 DEF Revise, PlanTypeOK, ProposalStatuses
  <2>2. sent + 1 \in Messages
    BY <1>24 DEF Revise, PlanTypeOK, Messages
  <2>3. revision' \in [Proposals -> Messages \cup {None}]
    BY <1>24, <2>2 DEF Revise, PlanTypeOK
  <2>4. touched' \in BOOLEAN /\ silenced' \in BOOLEAN
    BY <1>24, Zenon DEF Revise, Wake
  <2>5. sent' \in 0..MaxMessages /\ planner' \in PlannerStates
    BY <1>24 DEF Revise, Wake, PlanTypeOK, PlannerStates
  <2>6. UNCHANGED <<delivered, questions, replacement, reviews, unfinished, stage, actor, reading,
                    result, crashes, heard, uses>>
    BY <1>24 DEF Revise
  <2> QED
    BY <2>1, <2>3, <2>4, <2>5, <2>6 DEF PlanTypeOK
<1>25. ASSUME NEW p \in Proposals, Decide(p) PROVE PlanTypeOK'
  <2>1. proposal' \in [Proposals -> ProposalStatuses]
    BY <1>25 DEF Decide, PlanTypeOK, ProposalStatuses
  <2> QED
    BY <1>25, <2>1 DEF Decide, PlanTypeOK
<1>26. CASE RecoverPlannerRun
  <2>1. unfinished' \in [Actors -> Nat]
    BY <1>26 DEF RecoverPlannerRun, PlanTypeOK
  <2> QED
    BY <1>26, <2>1 DEF RecoverPlannerRun, PlanTypeOK, PlannerStates
<1>27. ASSUME NEW p \in Proposals, RecoverReviewRun(p) PROVE PlanTypeOK'
  <2> DEFINE s == IF review[p] = "running" THEN "retryable" ELSE review[p]
  <2>1. unfinished[p] > 0 /\ RecoverReviewWith(p, s)
    BY <1>27 DEF RecoverReviewRun
  <2>2. s \in ReviewStatuses
    BY DEF PlanTypeOK, ReviewStatuses
  <2> HIDE DEF s
  <2>3. unfinished' \in [Actors -> Nat]
    BY <2>1 DEF RecoverReviewWith, PlanTypeOK
  <2>4. attempt' \in [Proposals -> BOOLEAN]
    BY <2>1, Zenon DEF RecoverReviewWith, PlanTypeOK
  <2>5. review' \in [Proposals -> ReviewStatuses]
    BY <2>1, <2>2 DEF RecoverReviewWith, PlanTypeOK
  <2> QED
    BY <2>1, <2>3, <2>4, <2>5 DEF RecoverReviewWith, PlanTypeOK
<1>28. CASE Crash
  BY <1>28 DEF Crash, PlanTypeOK, None, Results
<1>29. CASE UNCHANGED planVars
  BY <1>29 DEF PlanTypeOK
<1>30. CASE Select
  BY <1>2, <1>3, <1>30 DEF Select
<1>31. CASE CriticTurn
  BY <1>4, <1>5, <1>6, <1>7, <1>8, <1>9, <1>10, <1>11, <1>31 DEF CriticTurn
<1>32. CASE PlannerTurn
  BY <1>13, <1>14, <1>15, <1>17, <1>18, <1>19, <1>20, <1>21, <1>22, <1>32 DEF PlannerTurn
<1>33. CASE Owner
  BY <1>23, <1>24, <1>25, <1>26, <1>27, <1>33 DEF Owner
<1> QED
  BY <1>1, <1>28, <1>29, <1>30, <1>31, <1>32, <1>33, Zenon DEF PlanNext

(***************************************************************************)
(* The turn.                                                               *)
(***************************************************************************)

LEMMA StepTurn == ASSUME PlanTypeOK, TurnInv, [PlanNext]_planVars PROVE TurnInv'
<1> USE DEF planVars, mail, plans, reviews, reading, history, Forget, Reviewing, PlannerStages
<1>1. ASSUME UNCHANGED <<stage, actor, reviews, unfinished>> PROVE TurnInv'
  BY <1>1 DEF TurnInv
<1>2. ASSUME stage' = "idle" PROVE TurnInv'
  BY <1>2 DEF TurnInv
<1>3. ASSUME NEW busy \in BOOLEAN, NEW crowded \in BOOLEAN, Pick(busy, crowded) PROVE TurnInv'
  BY <1>3 DEF Pick, PickWith, TurnInv
<1>4. CASE Select
  BY <1>4 DEF Select, SelectReview, SelectPlanner, SelectNobody, NotProbed, Least, TurnInv, Planner
<1>5. actor \in Proposals => actor \in Actors /\ unfinished[actor] \in Nat
  BY DEF PlanTypeOK, Actors
<1>6. CASE CriticTurn
  <2>1. CASE ClaimReview
    BY <1>6, <2>1 DEF ClaimReview, TurnInv, PlanTypeOK
  <2>2. CASE StartReviewRun
    BY <1>5, <2>2 DEF StartReviewRun, TurnInv, PlanTypeOK
  <2>3. CASE RecordAttempt \/ ReviewDeferred \/ ReviewFailed \/ CloseAttempt \/ CompleteReview
    BY <2>3 DEF RecordAttempt, ReviewDeferred, ReviewFailed, NoAdvice, CloseAttempt,
       CompleteReview, TurnInv
  <2>4. CASE ClaimRefused \/ EndReviewRun
    BY <1>2, <2>4 DEF ClaimRefused, EndReviewRun
  <2> QED
    BY <1>6, <2>1, <2>2, <2>3, <2>4 DEF CriticTurn
<1>7. CASE PlannerTurn
  <2>1. CASE StartPlannerRun
    <3>1. actor = Planner /\ Planner \in Actors /\ unfinished[Planner] \in Nat
      BY <2>1 DEF StartPlannerRun, TurnInv, PlanTypeOK, Actors
    <3>2. unfinished'[Planner] = unfinished[Planner] + 1 /\ actor' = actor /\ stage' = "session"
      BY <2>1, <3>1 DEF StartPlannerRun, PlanTypeOK
    <3> QED
      BY <3>1, <3>2 DEF TurnInv
  <2>2. CASE ReadRevision \/ ReadInbox \/ NoEffect \/ AllDelivered \/ AskOwner
    BY <2>2 DEF ReadRevision, ReadInbox, NoEffect, AllDelivered, AskOwner, TurnInv
  <2>3. ASSUME NEW p \in Proposals, AddProposal(p) PROVE TurnInv'
    BY <2>3 DEF AddProposal, TurnInv
  <2>4. ASSUME NEW m \in Messages, Deliver(m) PROVE TurnInv'
    BY <2>4 DEF Deliver, TurnInv
  <2>5. CASE EndPlannerRun
    BY <2>5 DEF EndPlannerRun, TurnInv
  <2>6. CASE UpdatePlanner
    BY <1>2, <2>6 DEF UpdatePlanner
  <2> QED
    BY <1>7, <2>1, <2>2, <2>3, <2>4, <2>5, <2>6 DEF PlannerTurn
<1>8. CASE Owner
  <2>1. ASSUME NEW p \in Proposals, Revise(p) \/ Decide(p) PROVE TurnInv'
    BY <1>1, <2>1 DEF Revise, Decide
  <2>2. ASSUME NEW p \in Proposals, RecoverReviewRun(p) PROVE TurnInv'
    BY <1>2, <2>2 DEF RecoverReviewRun, RecoverReviewWith
  <2>3. CASE Feedback \/ Answer
    BY <1>1, <2>3 DEF Feedback, Answer
  <2>4. CASE RecoverPlannerRun
    BY <1>2, <2>4 DEF RecoverPlannerRun
  <2> QED
    BY <1>8, <2>1, <2>2, <2>3, <2>4 DEF Owner
<1>9. CASE Crash
  BY <1>2, <1>9 DEF Crash
<1>10. CASE UNCHANGED planVars
  BY <1>1, <1>10
<1> QED
  BY <1>3, <1>4, <1>6, <1>7, <1>8, <1>9, <1>10, Zenon DEF PlanNext

(***************************************************************************)
(* Revisions.                                                              *)
(***************************************************************************)

\* The only steps that disturb what is known of proposals and revisions.
LineageStep ==
  \/ \E p \in Proposals : AddProposal(p) \/ Revise(p) \/ Decide(p)
  \/ ReadRevision \/ UpdatePlanner

LEMMA OtherLineage ==
  ASSUME [PlanNext]_planVars, ~LineageStep
  PROVE  /\ UNCHANGED plans
         /\ gotRevision' \in {gotRevision, None}
         /\ planner' = "done" => planner = "done"
<1> USE DEF planVars, mail, plans, reviews, reading, history, Forget
<1>1. ASSUME NEW busy \in BOOLEAN, NEW crowded \in BOOLEAN, Pick(busy, crowded)
      PROVE  /\ UNCHANGED plans /\ gotRevision' \in {gotRevision, None}
             /\ planner' = "done" => planner = "done"
  BY <1>1 DEF Pick, PickWith
<1>2. ASSUME Select \/ CriticTurn \/ Crash \/ UNCHANGED planVars
      PROVE  UNCHANGED plans /\ gotRevision' \in {gotRevision, None} /\ planner' = planner
  BY <1>2 DEF Select, SelectReview, SelectPlanner, SelectNobody, NotProbed, CriticTurn, ClaimReview,
     ClaimRefused, StartReviewRun, RecordAttempt, ReviewDeferred, ReviewFailed, NoAdvice,
     CloseAttempt, CompleteReview, EndReviewRun, Crash
<1>3. ASSUME PlannerTurn
      PROVE  UNCHANGED plans /\ gotRevision' = gotRevision /\ planner' = planner
  BY <1>3 DEF PlannerTurn, LineageStep, ReadInbox, StartPlannerRun, AskOwner, NoEffect, Deliver,
     AllDelivered, EndPlannerRun
<1>4. ASSUME Owner
      PROVE  UNCHANGED plans /\ gotRevision' = gotRevision /\ planner' \in {planner, "runnable", "blocked"}
  BY <1>4 DEF Owner, LineageStep, Feedback, Answer, Wake, RecoverPlannerRun, RecoverReviewRun,
     RecoverReviewWith
<1> QED
  BY <1>1, <1>2, <1>3, <1>4 DEF PlanNext

LEMMA StepLineage ==
  ASSUME PlanTypeOK, LineageInv, RevisionLineage, TurnInv, [PlanNext]_planVars
  PROVE  LineageInv' /\ RevisionLineage'
<1> USE PlanningAssumption DEF plans
<1>1. /\ proposal \in [Proposals -> ProposalStatuses]
      /\ revision \in [Proposals -> Messages \cup {None}]
      /\ replacement \in [Proposals -> Proposals \cup {None}]
      /\ gotRevision \in Proposals \cup {None}
      /\ Proposals \subseteq Nat /\ None \notin Proposals /\ None \notin Messages
  BY DEF PlanTypeOK, Proposals, None, Messages
<1>2. ASSUME NEW p \in Proposals, AddProposal(p) PROVE LineageInv' /\ RevisionLineage'
  <2>1. /\ proposal[p] = "absent" /\ \A q \in Proposals : q < p => proposal[q] # "absent"
        /\ proposal' = [proposal EXCEPT ![p] = "pending"]
        /\ replacement' = [r \in Proposals |-> IF r = gotRevision THEN p ELSE replacement[r]]
        /\ revision' = revision /\ gotRevision' = gotRevision /\ planner' = planner
        /\ gotRevision # None => replacement[gotRevision] = None
    BY <1>2 DEF AddProposal, reading
  <2>2. gotRevision # None => /\ gotRevision \in Proposals /\ proposal[gotRevision] = "superseded"
                              /\ gotRevision < p
    <3>1. ASSUME gotRevision # None PROVE proposal[gotRevision] = "superseded" /\ gotRevision \in Proposals
      BY <1>1, <3>1 DEF LineageInv, RevisionLineage
    <3>2. ASSUME gotRevision # None PROVE ~(p < gotRevision) /\ gotRevision # p
      BY <2>1, <3>1, <3>2 DEF LineageInv
    <3> QED
      BY <1>1, <3>1, <3>2
  <2>3. \A q \in Proposals : proposal'[q] = IF q = p THEN "pending" ELSE proposal[q]
    BY <1>1, <2>1
  <2>4. \A q \in Proposals : replacement'[q] = IF q = gotRevision THEN p ELSE replacement[q]
    BY <2>1
  <2>5. LineageInv'
    <3>1. \A q, r \in Proposals : r < q /\ proposal'[q] # "absent" => proposal'[r] # "absent"
      BY <1>1, <2>1, <2>3 DEF LineageInv
    <3>2. \A q \in Proposals : replacement'[q] # None => proposal'[replacement'[q]] # "absent"
      <4>1. ASSUME NEW q \in Proposals, replacement'[q] # None
            PROVE  proposal'[replacement'[q]] # "absent"
        <5>1. CASE q = gotRevision
          <6>1. replacement'[q] = p
            BY <2>4, <5>1
          <6> QED
            BY <1>1, <2>3, <6>1
        <5>2. CASE q # gotRevision
          <6>1. replacement'[q] = replacement[q]
            BY <2>4, <5>2
          <6>2. replacement[q] \in Proposals /\ proposal[replacement[q]] # "absent"
            BY <1>1, <4>1, <6>1 DEF LineageInv
          <6> QED
            BY <2>3, <6>1, <6>2
        <5> QED
          BY <5>1, <5>2
      <4> QED
        BY <4>1
    <3> QED
      BY <2>1, <3>1, <3>2 DEF LineageInv
  <2>6. \A q \in Proposals : revision'[q] # None <=> proposal'[q] = "superseded"
    BY <2>1, <2>3 DEF RevisionLineage
  <2>7. \A q \in Proposals : replacement'[q] # None => revision'[q] # None /\ replacement'[q] > q
    BY <1>1, <2>1, <2>2, <2>4 DEF RevisionLineage, LineageInv
  <2>8. \A q, r \in Proposals : replacement'[q] = replacement'[r] /\ q # r => replacement'[q] = None
    <3>1. \A q \in Proposals : replacement[q] # p
      BY <1>1, <2>1 DEF LineageInv
    <3> QED
      BY <1>1, <2>4, <3>1 DEF RevisionLineage
  <2>9. planner' = "done" => OpenRevisions' = {}
    BY <1>1, <2>1, <2>4 DEF RevisionLineage, OpenRevisions
  <2> QED
    BY <2>5, <2>6, <2>7, <2>8, <2>9 DEF RevisionLineage
<1>3. ASSUME NEW p \in Proposals, Revise(p) PROVE LineageInv' /\ RevisionLineage'
  <2>1. /\ proposal[p] = "pending" /\ proposal' = [proposal EXCEPT ![p] = "superseded"]
        /\ revision' = [revision EXCEPT ![p] = sent + 1]
        /\ replacement' = replacement /\ gotRevision' = gotRevision /\ planner' = "runnable"
        /\ sent + 1 # None
    BY <1>3 DEF Revise, Wake, reading, None, PlanTypeOK
  <2>2. \A q \in Proposals : /\ proposal'[q] = IF q = p THEN "superseded" ELSE proposal[q]
                             /\ revision'[q] = IF q = p THEN sent + 1 ELSE revision[q]
    BY <1>1, <2>1
  <2>3. LineageInv'
    BY <1>1, <2>1, <2>2 DEF LineageInv
  <2>4. RevisionLineage'
    BY <1>1, <2>1, <2>2 DEF RevisionLineage
  <2> QED
    BY <2>3, <2>4
<1>4. ASSUME NEW p \in Proposals, Decide(p) PROVE LineageInv' /\ RevisionLineage'
  <2>1. PICK s \in {"approved", "rejected"} : proposal' = [proposal EXCEPT ![p] = s]
    BY <1>4 DEF Decide
  <2>2. /\ proposal[p] = "pending" /\ UNCHANGED <<revision, replacement, gotRevision, planner>>
    BY <1>4 DEF Decide, reading
  <2>3. \A q \in Proposals : proposal'[q] = IF q = p THEN s ELSE proposal[q]
    BY <1>1, <2>1
  <2>4. s \in {"approved", "rejected"}
    BY <2>1
  <2>5. LineageInv'
    BY <1>1, <2>2, <2>3, <2>4 DEF LineageInv
  <2>6. RevisionLineage'
    BY <1>1, <2>2, <2>3, <2>4 DEF RevisionLineage, OpenRevisions
  <2> QED
    BY <2>5, <2>6
<1>5. CASE ReadRevision
  <2>1. UNCHANGED <<proposal, revision, replacement, planner>> /\ PendingRevision(gotRevision')
    BY <1>5 DEF ReadRevision
  <2>2. gotRevision' # None => revision[gotRevision'] # None
    BY <2>1 DEF PendingRevision, Least, OpenRevisions
  <2> QED
    BY <2>1, <2>2 DEF LineageInv, RevisionLineage, OpenRevisions
<1>6. CASE UpdatePlanner
  <2>1. /\ UNCHANGED <<proposal, revision, replacement>> /\ gotRevision' = None
        /\ planner' = "done" => planner = "done" \/ OpenRevisions = {}
    BY <1>6 DEF UpdatePlanner, Forget, AfterTurn
  <2> QED
    BY <2>1 DEF LineageInv, RevisionLineage, OpenRevisions
<1>7. CASE ~LineageStep
  <2>1. /\ UNCHANGED <<proposal, revision, replacement>> /\ gotRevision' \in {gotRevision, None}
        /\ planner' = "done" => planner = "done"
    BY <1>7, OtherLineage
  <2> QED
    BY <2>1 DEF LineageInv, RevisionLineage, OpenRevisions
<1> QED
  BY <1>2, <1>3, <1>4, <1>5, <1>6, <1>7 DEF LineageStep

(***************************************************************************)
(* The limit on pending proposals.                                         *)
(***************************************************************************)

LEMMA PendingFinite == PlanTypeOK => IsFiniteSet(Pending) /\ Cardinality(Pending) \in Nat
<1>1. IsFiniteSet(Proposals)
  BY PlanningAssumption, FS_Interval DEF Proposals
<1>2. IsFiniteSet(Pending)
  BY <1>1, FS_Subset DEF Pending
<1> QED
  BY <1>2, FS_CardinalityType

LEMMA StepRoom ==
  ASSUME PlanTypeOK, TurnInv, LineageInv, RoomInv, PendingWithinCapacity, [PlanNext]_planVars
  PROVE  RoomInv' /\ PendingWithinCapacity'
<1> USE PlanningAssumption
<1>1. IsFiniteSet(Pending) /\ Cardinality(Pending) \in Nat /\ Capacity \in Nat
  BY PendingFinite
<1>2. ASSUME Pending' \subseteq Pending
      PROVE  /\ PendingWithinCapacity'
             /\ Cardinality(Pending) < Capacity => Cardinality(Pending') < Capacity
  <2>1. Cardinality(Pending') \in Nat /\ Cardinality(Pending') <= Cardinality(Pending)
    BY <1>1, <1>2, FS_Subset, FS_CardinalityType
  <2> QED
    BY <1>1, <2>1 DEF PendingWithinCapacity
<1>3. ASSUME NEW p \in Proposals, AddProposal(p) PROVE RoomInv' /\ PendingWithinCapacity'
  <2>1. Pending' = Pending \cup {p}
    BY <1>3 DEF AddProposal, Pending, PlanTypeOK
  <2>2. Cardinality(Pending) < Capacity
    BY <1>3 DEF AddProposal, RoomInv, TurnInv, PlannerStages
  <2>3. Cardinality(Pending') \in Nat /\ Cardinality(Pending') <= Cardinality(Pending) + 1
    BY <1>1, <2>1, FS_AddElement
  <2>4. stage' = "applied"
    BY <1>3 DEF AddProposal
  <2> QED
    BY <1>1, <2>2, <2>3, <2>4 DEF RoomInv, PendingWithinCapacity
<1>4. ASSUME NEW busy \in BOOLEAN, NEW crowded \in BOOLEAN, Pick(busy, crowded)
      PROVE  RoomInv' /\ PendingWithinCapacity'
  <2>1. Pending' = Pending
    BY <1>4 DEF Pick, PickWith, plans, Pending
  <2>2. actor' = Planner => ~(Cardinality(Pending) >= Capacity)
    BY <1>4 DEF Pick, PickWith, Planner, Nobody
  <2> QED
    BY <1>1, <2>1, <2>2 DEF RoomInv, PendingWithinCapacity
<1>5. ASSUME NEW p \in Proposals, Revise(p) \/ Decide(p) PROVE RoomInv' /\ PendingWithinCapacity'
  <2>1. Pending' \subseteq Pending /\ UNCHANGED <<stage, actor>>
    BY <1>5 DEF Revise, Decide, Pending, PlanTypeOK
  <2> QED
    BY <1>2, <2>1 DEF RoomInv
<1>6. ASSUME proposal' = proposal,
             stage' \in {"picked", "planning", "revision", "inbox", "session"} /\ actor' = Planner =>
               actor = Planner /\ stage \in {"picked", "planning", "revision", "inbox", "session"}
      PROVE  RoomInv' /\ PendingWithinCapacity'
  <2>1. Pending' = Pending
    BY <1>6 DEF Pending
  <2> QED
    BY <1>6, <2>1 DEF RoomInv, PendingWithinCapacity
<1> USE DEF planVars, mail, plans, reviews, reading, history, Forget
<1>7. CASE Select \/ Crash \/ UNCHANGED planVars
  BY <1>6, <1>7 DEF Select, SelectReview, SelectPlanner, SelectNobody, NotProbed, Crash, Least,
     Unreviewed, Pending
<1>8. CASE CriticTurn
  BY <1>6, <1>8 DEF CriticTurn, ClaimReview, ClaimRefused, StartReviewRun, RecordAttempt,
     ReviewDeferred, ReviewFailed, NoAdvice, CloseAttempt, CompleteReview, EndReviewRun
<1>9. CASE PlannerTurn
  <2>1. CASE ReadRevision \/ ReadInbox \/ StartPlannerRun
    BY <1>6, <2>1 DEF ReadRevision, ReadInbox, StartPlannerRun
  <2>2. CASE AskOwner \/ NoEffect \/ AllDelivered \/ EndPlannerRun \/ UpdatePlanner
    BY <1>6, <2>2 DEF AskOwner, NoEffect, AllDelivered, EndPlannerRun, UpdatePlanner
  <2>3. ASSUME NEW m \in Messages, Deliver(m) PROVE RoomInv' /\ PendingWithinCapacity'
    BY <1>6, <2>3 DEF Deliver
  <2> QED
    BY <1>3, <1>9, <2>1, <2>2, <2>3 DEF PlannerTurn
<1>10. CASE Owner
  <2>1. CASE Feedback \/ Answer \/ RecoverPlannerRun
    BY <1>6, <2>1 DEF Feedback, Answer, RecoverPlannerRun
  <2>2. ASSUME NEW p \in Proposals, RecoverReviewRun(p) PROVE RoomInv' /\ PendingWithinCapacity'
    BY <1>6, <2>2 DEF RecoverReviewRun, RecoverReviewWith
  <2> QED
    BY <1>5, <1>10, <2>1, <2>2 DEF Owner
<1> QED
  BY <1>4, <1>7, <1>8, <1>9, <1>10, Zenon DEF PlanNext

(***************************************************************************)
(* Feedback.                                                               *)
(***************************************************************************)

LEMMA StepHeard ==
  ASSUME PlanTypeOK, HeardInv, FeedbackIsHeard, [PlanNext]_planVars
  PROVE  HeardInv' /\ FeedbackIsHeard'
<1> USE PlanningAssumption
<1> DEFINE Closing == {"session", "applied", "closing", "ended"}
<1>1. sent \in Nat
  BY DEF PlanTypeOK
\* A turn that is over, or has not reached the inbox, and what it leaves alone.
<1>2. ASSUME stage' \notin {"inbox"} \cup Closing, UNCHANGED <<sent, delivered, heard, silenced>>,
             planner \in {"runnable", "waiting"} => planner' \in {"runnable", "waiting"}
      PROVE  HeardInv' /\ FeedbackIsHeard'
  BY <1>2 DEF HeardInv, FeedbackIsHeard, Sent
\* A step within the session and its end.
<1>3. ASSUME stage \in Closing, stage' \in Closing, UNCHANGED <<planner, touched, sent, heard, silenced>>,
             gotInbox' \subseteq gotInbox, delivered' \subseteq delivered \cup gotInbox
      PROVE  HeardInv' /\ FeedbackIsHeard'
  <2>1. Sent' = Sent
    BY <1>3 DEF Sent
  <2>2. delivered' \subseteq heard'
    BY <1>3 DEF HeardInv
  <2>3. gotInbox' \subseteq heard' /\ (~touched' => Sent' \subseteq heard')
    BY <1>3, <2>1 DEF HeardInv
  <2>4. stage' # "inbox"
    BY <1>3
  <2> QED
    BY <1>3, <2>1, <2>2, <2>3, <2>4 DEF HeardInv, FeedbackIsHeard
\* The owner speaks.
<1>4. ASSUME Wake, UNCHANGED <<stage, gotInbox, delivered, heard>>
      PROVE  HeardInv' /\ FeedbackIsHeard'
  <2>1. touched' /\ planner' = "runnable"
    BY <1>4, Zenon DEF Wake
  <2> QED
    BY <1>4, <2>1 DEF HeardInv, FeedbackIsHeard
<1> USE DEF planVars, mail, plans, reviews, reading, history, Forget
<1>5. ASSUME NEW busy \in BOOLEAN, NEW crowded \in BOOLEAN, Pick(busy, crowded)
      PROVE  HeardInv' /\ FeedbackIsHeard'
  <2>1. stage' \in {"idle", "picked"} /\ UNCHANGED <<sent, delivered, heard, silenced>>
    BY <1>5 DEF Pick, PickWith
  <2>2. planner \in {"runnable", "waiting"} => planner' \in {"runnable", "waiting"}
    BY <1>5 DEF Pick, PickWith
  <2> QED
    BY <1>2, <2>1, <2>2
<1>6. CASE Select \/ Crash
  BY <1>2, <1>6 DEF Select, SelectReview, SelectPlanner, SelectNobody, NotProbed, Crash
<1>7. CASE UNCHANGED planVars
  BY <1>7 DEF HeardInv, FeedbackIsHeard, Sent
<1>8. CASE CriticTurn
  BY <1>2, <1>8 DEF CriticTurn, ClaimReview, ClaimRefused, StartReviewRun, RecordAttempt,
     ReviewDeferred, ReviewFailed, NoAdvice, CloseAttempt, CompleteReview, EndReviewRun
<1>9. CASE PlannerTurn
  <2>1. CASE ReadRevision
    BY <1>2, <2>1 DEF ReadRevision
  <2>2. CASE ReadInbox
    <3>1. stage' = "inbox" /\ UNCHANGED <<planner, touched, sent, delivered, heard, silenced>>
      BY <2>2 DEF ReadInbox
    <3>2. Sent' \subseteq delivered' \cup gotInbox'
      BY <2>2 DEF ReadInbox, Undelivered, Sent
    <3> QED
      BY <3>1, <3>2 DEF HeardInv, FeedbackIsHeard, Sent
  <2>3. CASE StartPlannerRun
    <3>1. /\ stage = "inbox" /\ stage' = "session"
          /\ UNCHANGED <<planner, touched, sent, delivered, silenced, gotInbox>>
          /\ heard \cup gotInbox \subseteq heard'
      BY <2>3 DEF StartPlannerRun
    <3>2. Sent' = Sent
      BY <3>1 DEF Sent
    <3> QED
      BY <3>1, <3>2 DEF HeardInv, FeedbackIsHeard
  <2>4. CASE AskOwner \/ NoEffect \/ AllDelivered \/ EndPlannerRun
    BY <1>3, <2>4 DEF AskOwner, NoEffect, AllDelivered, EndPlannerRun
  <2>5. ASSUME NEW p \in Proposals, AddProposal(p) PROVE HeardInv' /\ FeedbackIsHeard'
    BY <1>3, <2>5 DEF AddProposal
  <2>6. ASSUME NEW m \in Messages, Deliver(m) PROVE HeardInv' /\ FeedbackIsHeard'
    <3>1. m \in gotInbox /\ delivered' = delivered \cup {m} /\ gotInbox' = gotInbox \ {m}
      BY <2>6 DEF Deliver, Least
    <3>2. stage = "applied" /\ UNCHANGED <<stage, planner, touched, sent, heard, silenced>>
      BY <2>6 DEF Deliver
    <3> QED
      BY <1>3, <3>1, <3>2
  <2>7. CASE UpdatePlanner
    <3>1. stage = "ended" /\ stage' = "idle" /\ UNCHANGED <<sent, delivered, heard, silenced>>
      BY <2>7 DEF UpdatePlanner
    <3>2. CASE touched
      BY <1>2, <2>7, <3>1, <3>2 DEF UpdatePlanner
    <3>3. CASE ~touched
      <4>1. Sent \subseteq heard
        BY <3>1, <3>3 DEF HeardInv
      <4> QED
        BY <3>1, <4>1 DEF HeardInv, FeedbackIsHeard, Sent
    <3> QED
      BY <3>2, <3>3
  <2> QED
    BY <1>9, <2>1, <2>2, <2>3, <2>4, <2>5, <2>6, <2>7 DEF PlannerTurn
<1>10. CASE Owner
  <2>1. CASE Feedback \/ Answer
    BY <1>4, <2>1 DEF Feedback, Answer
  <2>2. ASSUME NEW p \in Proposals, Revise(p) PROVE HeardInv' /\ FeedbackIsHeard'
    BY <1>4, <2>2 DEF Revise
  <2>3. ASSUME NEW p \in Proposals, Decide(p) PROVE HeardInv' /\ FeedbackIsHeard'
    BY <2>3 DEF Decide, HeardInv, FeedbackIsHeard, Sent
  <2>4. CASE RecoverPlannerRun
    <3>1. stage' = "idle" /\ silenced' /\ UNCHANGED <<sent, delivered, heard>>
      BY <2>4 DEF RecoverPlannerRun
    <3> QED
      BY <3>1 DEF HeardInv, FeedbackIsHeard, Sent
  <2>5. ASSUME NEW p \in Proposals, RecoverReviewRun(p) PROVE HeardInv' /\ FeedbackIsHeard'
    BY <1>2, <2>5 DEF RecoverReviewRun, RecoverReviewWith
  <2> QED
    BY <1>10, <2>1, <2>2, <2>3, <2>4, <2>5 DEF Owner
<1> QED
  BY <1>5, <1>6, <1>7, <1>8, <1>9, <1>10, Zenon DEF PlanNext

\* What a message has been used for may only have grown when a proposal or a question
\* was recorded, and then the message is about to be marked delivered.
LEMMA StepUses ==
  ASSUME PlanTypeOK, UsesInv, FeedbackUsedOnce, [PlanNext]_planVars
  PROVE  UsesInv' /\ FeedbackUsedOnce'
<1> USE PlanningAssumption
<1>1. uses \in [Messages -> Nat] /\ crashes \in Nat /\ gotInbox \subseteq Messages
  BY DEF PlanTypeOK
\* The turn is not about to mark a message delivered, or it has none left.
<1>2. ASSUME UNCHANGED <<uses, crashes, delivered>>, gotInbox' \in {gotInbox, {}},
             stage = "applied" => (stage' = "applied" /\ gotInbox' = gotInbox) \/ gotInbox = {}
      PROVE  UsesInv' /\ FeedbackUsedOnce'
  BY <1>2 DEF UsesInv, FeedbackUsedOnce
\* A proposal or a question is recorded.
<1>3. ASSUME stage = "session", stage' = "applied", UNCHANGED <<crashes, delivered, gotInbox>>,
             uses' = [m \in Messages |-> IF m \in gotInbox THEN uses[m] + 1 ELSE uses[m]]
      PROVE  UsesInv' /\ FeedbackUsedOnce'
  <2>1. \A m \in Messages : uses[m] <= crashes \/ m \in delivered
    BY <1>3 DEF UsesInv
  <2>2. \A m \in Messages : uses'[m] = IF m \in gotInbox THEN uses[m] + 1 ELSE uses[m]
    BY <1>3
  <2>3. \A m \in Messages : uses'[m] <= crashes \/ m \in delivered \/ m \in gotInbox
    BY <1>1, <2>1, <2>2
  <2>4. FeedbackUsedOnce'
    BY <1>1, <1>3, <2>1, <2>2 DEF FeedbackUsedOnce, UsesInv
  <2> QED
    BY <1>3, <2>3, <2>4 DEF UsesInv
<1> USE DEF planVars, mail, plans, reviews, reading, history, Forget
<1>4. ASSUME NEW busy \in BOOLEAN, NEW crowded \in BOOLEAN, Pick(busy, crowded)
      PROVE  UsesInv' /\ FeedbackUsedOnce'
  BY <1>2, <1>4 DEF Pick, PickWith
<1>5. CASE Select \/ UNCHANGED planVars
  BY <1>2, <1>5 DEF Select, SelectReview, SelectPlanner, SelectNobody, NotProbed
<1>6. CASE CriticTurn
  BY <1>2, <1>6 DEF CriticTurn, ClaimReview, ClaimRefused, StartReviewRun, RecordAttempt,
     ReviewDeferred, ReviewFailed, NoAdvice, CloseAttempt, CompleteReview, EndReviewRun
<1>7. CASE PlannerTurn
  <2>1. CASE ReadRevision \/ StartPlannerRun \/ NoEffect \/ AllDelivered \/ EndPlannerRun \/ UpdatePlanner
    BY <1>2, <2>1 DEF ReadRevision, StartPlannerRun, NoEffect, AllDelivered, EndPlannerRun, UpdatePlanner
  <2>2. CASE ReadInbox
    <3>1. /\ stage = "revision" /\ UNCHANGED <<uses, crashes, delivered>>
          /\ gotInbox' \cap delivered' = {}
      BY <2>2 DEF ReadInbox, Undelivered
    <3> QED
      BY <3>1 DEF UsesInv, FeedbackUsedOnce
  <2>3. ASSUME NEW p \in Proposals, AddProposal(p) PROVE UsesInv' /\ FeedbackUsedOnce'
    BY <1>3, <2>3 DEF AddProposal
  <2>4. CASE AskOwner
    BY <1>3, <2>4 DEF AskOwner
  <2>5. ASSUME NEW m \in Messages, Deliver(m) PROVE UsesInv' /\ FeedbackUsedOnce'
    <3>1. /\ stage = "applied" /\ stage' = stage /\ UNCHANGED <<uses, crashes>>
          /\ delivered' = delivered \cup {m} /\ gotInbox' = gotInbox \ {m}
      BY <2>5 DEF Deliver
    <3> QED
      BY <3>1 DEF UsesInv, FeedbackUsedOnce
  <2> QED
    BY <1>7, <2>1, <2>2, <2>3, <2>4, <2>5 DEF PlannerTurn
<1>8. CASE Owner
  <2>1. CASE Feedback \/ Answer \/ RecoverPlannerRun
    BY <1>2, <2>1 DEF Feedback, Answer, RecoverPlannerRun
  <2>2. ASSUME NEW p \in Proposals, Revise(p) \/ Decide(p) \/ RecoverReviewRun(p)
        PROVE  UsesInv' /\ FeedbackUsedOnce'
    BY <1>2, <2>2 DEF Revise, Decide, RecoverReviewRun, RecoverReviewWith
  <2> QED
    BY <1>8, <2>1, <2>2 DEF Owner
<1>9. CASE Crash
  <2>1. crashes' = crashes + 1 /\ UNCHANGED <<uses, delivered>> /\ gotInbox' = {}
    BY <1>9 DEF Crash
  <2>2. \A m \in Messages : uses[m] <= 1 + crashes
    BY DEF FeedbackUsedOnce
  <2> QED
    BY <1>1, <2>1, <2>2 DEF UsesInv, FeedbackUsedOnce
<1> QED
  BY <1>4, <1>5, <1>6, <1>7, <1>8, <1>9, Zenon DEF PlanNext

(***************************************************************************)
(* The theorems.                                                           *)
(***************************************************************************)

LEMMA NextInv == PlanInv /\ [PlanNext]_planVars => PlanInv'
<1> SUFFICES ASSUME PlanInv, [PlanNext]_planVars PROVE PlanInv'
  OBVIOUS
<1>1. /\ PlanTypeOK /\ TurnInv /\ LineageInv /\ RoomInv /\ HeardInv /\ UsesInv
      /\ FeedbackIsHeard /\ RevisionLineage /\ PendingWithinCapacity /\ FeedbackUsedOnce
  BY DEF PlanInv
<1>2. PlanTypeOK' /\ TurnInv'
  BY <1>1, StepTyped, StepTurn
<1>3. LineageInv' /\ RevisionLineage'
  BY <1>1, StepLineage
<1>4. RoomInv' /\ PendingWithinCapacity'
  BY <1>1, StepRoom
<1>5. HeardInv' /\ FeedbackIsHeard' /\ UsesInv' /\ FeedbackUsedOnce'
  BY <1>1, StepHeard, StepUses
<1> QED
  BY <1>2, <1>3, <1>4, <1>5 DEF PlanInv

\* The inductive invariant holds: turns are whose they are and have claimed what they
\* review, and what a planner's turn has read is as fresh as touched says.
THEOREM PlanInvariant == PlanSpec => []PlanInv
  BY InitInv, NextInv, PTL DEF PlanSpec

\* No feedback is lost, whenever the owner gives it: a planner that has not been shown
\* all of it is due for a turn.
THEOREM NoLostFeedback == PlanSpec => []FeedbackIsHeard
<1>1. PlanInv => FeedbackIsHeard
  BY DEF PlanInv
<1> QED
  BY <1>1, PlanInvariant, PTL

\* Replacements follow the revisions they answer, one for each, and a planner that is
\* done has answered them all.
THEOREM LineageKept == PlanSpec => []RevisionLineage
<1>1. PlanInv => RevisionLineage
  BY DEF PlanInv
<1> QED
  BY <1>1, PlanInvariant, PTL

\* The limit on pending proposals holds at every moment, for every limit.
THEOREM CapacityKept == PlanSpec => []PendingWithinCapacity
<1>1. PlanInv => PendingWithinCapacity
  BY DEF PlanInv
<1> QED
  BY <1>1, PlanInvariant, PTL

\* A message is used once, and once more for each death of the process at most.
THEOREM UsedOnce == PlanSpec => []FeedbackUsedOnce
<1>1. PlanInv => FeedbackUsedOnce
  BY DEF PlanInv
<1> QED
  BY <1>1, PlanInvariant, PTL

\* Concluded advice stays: the turns that write a review have claimed it, and recovery
\* releases only a review that is still running.
THEOREM AdviceIsFinal == PlanSpec => ReviewFinal
<1> DEFINE Kept == \A p \in Proposals : review[p] \in {"done", "failed"} => review'[p] = review[p]
<1>1. PlanInv /\ [PlanNext]_planVars => [Kept]_planVars
  <2> SUFFICES ASSUME PlanInv, PlanNext, NEW p \in Proposals, review[p] \in {"done", "failed"}
               PROVE  review'[p] = review[p]
    OBVIOUS
  <2>1. PlanTypeOK /\ TurnInv
    BY DEF PlanInv
  <2> USE DEF planVars, mail, plans, reviews, reading, history, Forget
  <2>2. ASSUME NEW busy \in BOOLEAN, NEW crowded \in BOOLEAN, Pick(busy, crowded)
        PROVE  review' = review
    BY <2>2 DEF Pick, PickWith
  <2>3. CASE Select \/ Crash
    BY <2>3 DEF Select, SelectReview, SelectPlanner, SelectNobody, NotProbed, Crash
  <2>4. CASE CriticTurn
    <3>1. CASE ClaimReview
      BY <2>1, <3>1 DEF ClaimReview, Claimable, PlanTypeOK
    <3>2. CASE ReviewDeferred \/ ReviewFailed \/ CompleteReview
      BY <2>1, <3>2 DEF ReviewDeferred, ReviewFailed, NoAdvice, CompleteReview, TurnInv, PlanTypeOK
    <3>3. CASE ClaimRefused \/ StartReviewRun \/ RecordAttempt \/ CloseAttempt \/ EndReviewRun
      BY <3>3 DEF ClaimRefused, StartReviewRun, RecordAttempt, CloseAttempt, EndReviewRun
    <3> QED
      BY <2>4, <3>1, <3>2, <3>3 DEF CriticTurn
  <2>5. CASE PlannerTurn
    BY <2>5 DEF PlannerTurn, ReadRevision, ReadInbox, StartPlannerRun, AddProposal, AskOwner,
       NoEffect, Deliver, AllDelivered, EndPlannerRun, UpdatePlanner
  <2>6. CASE Owner
    <3>1. ASSUME NEW q \in Proposals, RecoverReviewRun(q) PROVE review'[p] = review[p]
      <4> DEFINE s == IF review[q] = "running" THEN "retryable" ELSE review[q]
      <4>1. RecoverReviewWith(q, s)
        BY <3>1 DEF RecoverReviewRun
      <4>2. p = q => s = review[p]
        OBVIOUS
      <4> HIDE DEF s
      <4> QED
        BY <2>1, <4>1, <4>2 DEF RecoverReviewWith, PlanTypeOK
    <3>2. CASE Feedback \/ Answer \/ RecoverPlannerRun
      BY <3>2 DEF Feedback, Answer, RecoverPlannerRun
    <3>3. ASSUME NEW q \in Proposals, Revise(q) \/ Decide(q) PROVE review' = review
      BY <3>3 DEF Revise, Decide
    <3> QED
      BY <2>6, <3>1, <3>2, <3>3 DEF Owner
  <2> QED
    BY <2>2, <2>3, <2>4, <2>5, <2>6, Zenon DEF PlanNext
<1> QED
  BY <1>1, PlanInvariant, PTL DEF PlanSpec, ReviewFinal
=============================================================================
