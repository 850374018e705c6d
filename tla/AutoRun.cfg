SPECIFICATION FairSpec

CONSTANTS
  p1 = p1
  p2 = p2
  g1 = g1
  g2 = g2
  None = None
  Peers = {p1, p2}
  Slots = {g1, g2}

INVARIANTS
  TypeOK
  EntryHasOneOwner
  ClosedMeansQuiet
PROPERTIES
  ShutdownCompletes
  SignalGetsAPass

\* App.Run has returned.
CHECK_DEADLOCK FALSE
