CONSTANTS
  Setup = 1
  SessionStep = 1
  Budget = 2
  CancelWindow = 2
  CloseWindow = 1
  Grace = 1
  PipeSize = 2
  MaxFrames = 3
SPECIFICATION Spec
INVARIANTS SuccessIsEarned ExpiredIsTimeout CertainMeansGone TurnBounded
PROPERTIES ImplementsPromise TurnEnds
CHECK_DEADLOCK FALSE
