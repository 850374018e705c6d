SPECIFICATION Spec

CONSTANTS
  m1 = m1
  auto = auto
  Meaningful = {1, 2}
  AutoJob = auto
  Manual = {m1}
  BatchSize = 1
  FetchLimit = 3
  MaxAutoSummaryAttempts = 2
  Events <- NoEvents
  MaxId = 2
  MaxIssue = 3

PROPERTIES
  ProcessedNotRepublished

\* A bot without traffic is idle for ever.
CHECK_DEADLOCK FALSE
