CONSTANTS
  Streams = {s1, s2, s3}
  MaxPrompt = 2
  CloseBeforeReuse = FALSE
SPECIFICATION Spec
INVARIANT OneRunningStream
CHECK_DEADLOCK FALSE
