CONSTANTS
  Tasks = {1, 2}
  Deps <- DepsChain
  MaxAttempts = 2
  Budget = 2
  MaxReviews = 2
  OwnerOps = {"add", "cancel", "requeue", "answer"}
  CrashPossible = FALSE
SPECIFICATION FairSpec
PROPERTIES ClaimSettles
CHECK_DEADLOCK FALSE
