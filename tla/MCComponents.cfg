SPECIFICATION MCSpec
CONSTANTS
  ValidationIndex = 1
  ShardSize = 2
  MaxAttempts = 2
  MaxDownloads = 2
  SeqLen = 3
  BatchSize = 2
  FirstShard = 2
  MaxEpochs = 2
  MaxBatches = 2
  Corpora <- MCCorpora
  CacheLayers = {0, 1}
  CacheCapacity = 3
  CacheEntries = {}
  Junk = Junk
  a = a
  b = b
  stop = stop
  GenTokens = {a, stop}
  GenStops = {stop}
  MaxNewTokens = 3
  MaxPrompt = 2
  ByteCount = 2
  MaxMerges = 3
  BpeCorpora <- MCBpeCorpora
  BpeInputs <- MCBpeInputs
  RowCapacity = 3
  SftBatchSize = 2
  PackingBuffer = 2
  Repeats <- MCRepeats
  SourceLength = 2
  SftCorpora <- MCSftCorpora
  MixtureOrders <- MCMixtureOrders
  MaxSftEpochs = 2
  Systems <- MCSystems
  UserSizes = {0, 1, 3}
  AssistantParts <- MCAssistantParts
  MaxTurns = 2
  TokenLimits = {3, 4, 5, 6, 9, 12, 18, 40}
  p1 = p1
  p2 = p2
  Publishers = {p1, p2}
  Versions = {1, 2}
  DataFiles = 2
  MaxCalls = 3
  NoContent = NoContent
  SftConfigs <- MCSftConfigs
  SftBases = {1, 2}
  SftScores <- MCSftScores
  MaxSftCommands = 3
  BpbContext = 3
  BpbRows = 2
  BpbCorpora <- MCBpbCorpora
  BpbBuffer = 2
  BpbGroup = 2
  BpbSteps = 2
  SftValidation <- MCSftValidation
  SftBudgets = {0, 1, 3}
  CategoricalTasks <- MCCategoricalTasks
  ProgramCount = 2
  ProgramSamples = 2
  ProgramRuns <- MCProgramRuns
  ChatMaxSeqLen = 3
  ChatBatch = 2
  ChatSettings <- MCChatSettings
  MaxEvaluations = 2
  CoreTasks <- MCCoreTasks
  CoreMaxSeqLen = 4
  CoreLimits = {0, 2}
  Contestants = {1, 2}
  ContestTarget = 1
  ContestReports <- MCContestReports
  MaxComparisons = 1
  BaseRequests <- MCBaseRequests
  MaxBaseCommands = 3
INVARIANTS PublishedIsWhole LoaderIsExact
  GenerationIsExact TokenizerIsReference
  ConversationsAreExact PromptIsFaithful FinetuningIsExact BpbIsExact
  ChatEvaluationIsExact CoreIsExact ComparisonIsFair
  BaseReportIsWhole
PROPERTIES CacheIsLog PublishesOnce
\* Bounds on epochs, commands, merges and calls stop the behaviours.
CHECK_DEADLOCK FALSE
