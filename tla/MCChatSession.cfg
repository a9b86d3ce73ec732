CONSTANTS
  MaxLoads = 2
  MaxLeases = 2
  MaxTokens = 1
  MaxResets = 1
  Checkpoints = {c1}
  TrackerResults = {"logged", "refused"}
SPECIFICATION SafeSpec
INVARIANTS TypeOK EnginesAccounted StatusTruthful HistoryIsTruthful StreamWellFormed
PROPERTIES SwapIsAtomic ServiceIsTransactional
CHECK_DEADLOCK FALSE
