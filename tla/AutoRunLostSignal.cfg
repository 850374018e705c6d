SPECIFICATION Spec

CONSTANTS
  p1 = p1
  g1 = g1
  g2 = g2
  None = None
  Peers = {p1}
  Slots = {g1, g2}

PROPERTIES
  PendingNeverDropped

\* App.Run has returned.
CHECK_DEADLOCK FALSE
