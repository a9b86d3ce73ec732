CONSTANTS
  MaxLoads = 1
  MaxLeases = 1
  MaxTokens = 1
  MaxResets = 0
  Checkpoints = {c1}
  TrackerResults = {"logged", "refused", "partial"}
SPECIFICATION SafeSpec
INVARIANT FailedTurnsEmitNothing
CHECK_DEADLOCK FALSE
