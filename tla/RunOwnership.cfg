CONSTANTS
  Pids = {1, 2, 3}
  MaxRuns = 1
  MaxBirths = 4
  Versions = {0, 1, 2}
SPECIFICATION FairSpec
INVARIANTS SurvivorsAreLate
PROPERTIES RecordedGetsRecovered
CHECK_DEADLOCK FALSE
