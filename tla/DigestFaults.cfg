SPECIFICATION Spec

CONSTANTS
  m1 = m1
  auto = auto
  Meaningful = {2, 3}
  AutoJob = auto
  Manual = {m1}
  BatchSize = 1
  FetchLimit = 3
  MaxAutoSummaryAttempts = 2
  Events <- Losses
  MaxId = 3
  MaxIssue = 3

INVARIANTS
  NoSurvivor
  EveryMessageAccounted
  PostedOnce
  CountedOnce
PROPERTIES
  ImplementsLedger

\* A bot without traffic is idle for ever.
CHECK_DEADLOCK FALSE
