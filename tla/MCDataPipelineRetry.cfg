SPECIFICATION PipelineSpec
CONSTANTS
  ValidationIndex = 2
  ShardSize = 1
  MaxAttempts = 1
  MaxDownloads = 1
  MaxPreparations = 3
  r1 = r1
  PrepRuns = {r1}
  bpe = bpe
  NoTokenizer = NoTokenizer
  PrepConfigs <- MCPrepConfigs

PROPERTY RetryIsAccepted
\* The bounds on the commands stop the behaviour.
CHECK_DEADLOCK FALSE
