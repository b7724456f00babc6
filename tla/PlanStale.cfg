SPECIFICATION Spec
CONSTANTS
  Dirs = {root}
  NoDir = NoDir
  Pinned = FALSE
  MaxRuns = 2
  MaxCommit = 2
  MaxMishaps = 0
PROPERTIES
  StalePlanRefused
CHECK_DEADLOCK FALSE
