CONSTANTS
  Tasks = {1, 2}
  Deps <- DepsChain
  MaxAttempts = 2
  Budget = 1
  MaxReviews = 2
  OwnerOps = {"add", "cancel", "requeue", "fresh", "rollback", "answer", "retry", "recover"}
  CrashPossible = TRUE
SPECIFICATION Spec
INVARIANTS SessionsExclusive IdleTaskIsQuiet DependenciesBeforeWork CostIsBounded
PROPERTIES ImplementsBoard SessionOwnsBranch
CHECK_DEADLOCK FALSE
