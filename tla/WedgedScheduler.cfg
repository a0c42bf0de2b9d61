CONSTANTS
  Tasks = {1}
  Deps <- DepsChain
  MaxAttempts = 2
  Budget = 3
  MaxReviews = 2
  OwnerOps = {"add", "answer", "retry"}
  CrashPossible = FALSE
SPECIFICATION Spec
INVARIANTS IdleMeansNothingToDo
CHECK_DEADLOCK FALSE
