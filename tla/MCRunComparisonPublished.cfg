SPECIFICATION ComparisonSpec
CONSTANTS
  Contestants = {1, 2}
  ContestTarget = 1
  ContestReports <- MCContestReports
  MaxComparisons = 1
PROPERTY EvaluatedRunsAreCompared
CHECK_DEADLOCK FALSE
