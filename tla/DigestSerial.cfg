SPECIFICATION Spec

CONSTANTS
  auto = auto
  Meaningful = {1, 2, 4}
  AutoJob = auto
  Manual = {}
  BatchSize = 1
  FetchLimit = 3
  MaxAutoSummaryAttempts = 2
  Events <- AllEvents
  MaxId = 4
  MaxIssue = 3

PROPERTIES
  ProcessedNotRepublished

\* A bot without traffic is idle for ever.
CHECK_DEADLOCK FALSE
