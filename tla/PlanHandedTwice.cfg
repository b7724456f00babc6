SPECIFICATION Spec
CONSTANTS
  Dirs = {root}
  NoDir = NoDir
  Pinned = FALSE
  MaxRuns = 3
  MaxCommit = 1
  MaxMishaps = 0
INVARIANTS
  PlanHandedOnce
CHECK_DEADLOCK FALSE
