SPECIFICATION Spec
CONSTANTS
  Runs = {r1}
  NoRun = NoRun
  Configs <- MCConfigs
  Overflows <- MCOverflows
  ScoreCurves <- MCScoreCurves
  SkipLimit = 2
  MaxPosition = 6
  MaxCommands = 2
PROPERTY LegacyMigrationAccepted
CHECK_DEADLOCK FALSE
