SPECIFICATION Spec

CONSTANTS
  Jobs = {j1, j2}
  Overlap = TRUE
  Texts = {t1, t2}
  Window = 3
  MaxLen = 5
  Faults = {}

INVARIANTS
  ProgressRemoved

\* Jobs come to an end, and nobody has to write.
CHECK_DEADLOCK FALSE
