SPECIFICATION FairSpec

CONSTANTS
  LLMTimeout = 3
  PromptTimeout = 2
  ImageTimeout = 2
  VKTimeout = 1
  DBTimeout = 1
  Margin = 3
  Extra = 1
  SetupTime = 1
  MaxRetries = 2
  RetryDelay <- MCRetryDelay
  Candidates = 2
  Providers = {"none", "single", "operation"}
  Stops = TRUE
  MaxRuns = 2

INVARIANTS
  TypeOK
  ShownOnce
  FlagMatchesPost
  TextHasTime

PROPERTIES
  ImplementsPublishing
  RunEnds

\* The last run may have ended.
CHECK_DEADLOCK FALSE
