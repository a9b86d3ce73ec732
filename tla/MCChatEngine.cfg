CONSTANTS
  Streams = {s1, s2, s3}
  MaxPrompt = 3
  CloseBeforeReuse = TRUE
SPECIFICATION Spec
INVARIANTS TypeOK ActiveOwnership RepliesAnswerTheirPrompt PendingIsLastUser
PROPERTY TranscriptIsTransactional
CHECK_DEADLOCK FALSE
