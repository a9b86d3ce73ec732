SPECIFICATION FairSpec
CONSTANTS
  Runs = {r1, r2}
  NoRun = NoRun
  Configs <- MCConfigs
  Overflows <- MCOverflows
  ScoreCurves <- MCScoreCurves
  SkipLimit = 2
  MaxPosition = 6
  MaxCommands = 2
INVARIANTS TypeOK ExactLineage MetricsIncrease FilesAreBacked CompletedIsComplete
PROPERTIES CheckpointsOnlyAdvance ForkIsNeverRefused EveryCommandEnds
CONSTRAINT FirstCommandInFirstRun
CHECK_DEADLOCK FALSE
