CONSTANTS
  MaxLoads = 2
  MaxLeases = 1
  MaxTokens = 1
  MaxResets = 0
  Checkpoints = {c1}
  TrackerResults = {"logged", "refused"}
SPECIFICATION Spec
PROPERTIES OperationsSettle ShutdownReleases
CHECK_DEADLOCK FALSE
