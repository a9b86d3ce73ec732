SPECIFICATION PipelineSpec
CONSTANTS
  ValidationIndex = 2
  ShardSize = 2
  MaxAttempts = 2
  MaxDownloads = 2
  MaxPreparations = 3
  r1 = r1
  PrepRuns = {r1}
  bpe = bpe
  NoTokenizer = NoTokenizer
  PrepConfigs <- MCPrepConfigs
INVARIANTS PipelineTypeOK OneCoherentRecord
PROPERTIES DatasetNeverLost EveryPipelineCommandEnds
\* The bounds on the commands stop the behaviour.
CHECK_DEADLOCK FALSE
