SPECIFICATION FairSpec

CONSTANTS
  m1 = m1
  auto = auto
  Meaningful = {1, 2, 4}
  AutoJob = auto
  Manual = {m1}
  BatchSize = 1
  FetchLimit = 3
  MaxAutoSummaryAttempts = 1
  Events <- Refusals
  MaxId = 4
  MaxIssue = 3

INVARIANTS
  TypeOK
  CheckedRangeStaysOpen
PROPERTIES
  PauseKept
  JobsFinish

\* A bot without traffic is idle for ever.
CHECK_DEADLOCK FALSE
