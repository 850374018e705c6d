SPECIFICATION FairSpec

CONSTANTS
  MaxUpdates = 4
  Ignored = {2}
  Retries = 3
  Crashes = TRUE

INVARIANTS
  TypeOK
  SessionComplete
PROPERTIES
  HandledInOrderOnce
  UpdatesGetAFate
  SignalStopsConsumer

\* A consumer that has returned waits for a new process.
CHECK_DEADLOCK FALSE
