SPECIFICATION FairSpec

CONSTANTS
  old = old
  new = new
  j1 = j1
  j2 = j2
  h = h
  c1 = c1
  c2 = c2
  c3 = c3
  r = r
  migrations = migrations
  None = None
  Ghost = Ghost
  Instances = {old, new}
  Tasks = {j1, j2, h}
  Jobs = {j1, j2}
  Conns = {c1, c2, c3}
  Home <- MCHome
  Ranges = {r}
  Migrations = migrations
  Files <- MCFiles
  Calls = 1
  Timeouts = {TRUE, FALSE}

INVARIANTS
  MigrationsSerialised
  AppliedOnceInOrder
  ServesMigrated
  ConnsAccounted
  LocksFollowJobs
PROPERTIES
  StartEnds
  WaitsEnd
  CloseReturns

\* An instance may stay down for ever.
CHECK_DEADLOCK FALSE
