CONSTANTS
  Tasks = {1, 2}
  Deps <- DepsChain
  MaxAttempts = 2
  Budget = 2
  MaxReviews = 2
  OwnerOps = {"add", "cancel", "requeue", "fresh", "rollback", "answer"}
  CrashPossible = FALSE
SPECIFICATION Spec
INVARIANTS OneActor ReviewedIsChecked AcceptedIsMerged InReviewIsReviewable NoStrandedTask IdleMeansNothingToDo AttemptsExhausted
CHECK_DEADLOCK FALSE
