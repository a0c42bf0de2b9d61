SPECIFICATION Spec
CONSTANTS
  N = 3
  Ids = {a, b, c}
  NoId = noid
  Existing = {c}
INVARIANTS CycleFoundIffCyclic ApprovedCanFinish
PROPERTIES SearchEnds
CHECK_DEADLOCK FALSE
