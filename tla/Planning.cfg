SPECIFICATION PlanFairSpec
CONSTANTS
  MaxMessages = 2
  MaxProposals = 3
  Capacity = 2
  MaxCrashes = 1
INVARIANTS FeedbackIsHeard RevisionLineage PendingWithinCapacity FeedbackUsedOnce
PROPERTIES ReviewFinal ReviewsConclude FeedbackGetsHeard
