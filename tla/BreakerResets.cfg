SPECIFICATION Spec
CONSTANTS
  MaxMessages = 1
  MaxProposals = 1
  Capacity = 1
  MaxCrashes = 1
  PairOf <- TwoPairs
  MaxFailures = 3
  TaskTurns = 3
INVARIANT FailuresTrip
