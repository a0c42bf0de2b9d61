SPECIFICATION Spec
CONSTANTS
  MaxMessages = 1
  MaxProposals = 1
  Capacity = 1
  MaxCrashes = 1
  PairOf <- TwoPairs
  MaxFailures = 2
  TaskTurns = 3
INVARIANTS DeferralHonoured BreakerTrips
PROPERTIES RunEnds
