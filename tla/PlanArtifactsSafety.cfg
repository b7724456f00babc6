SPECIFICATION Spec
CONSTANTS
  Dirs = {root, sub}
  NoDir = NoDir
  Pinned = TRUE
  MaxRuns = 3
  MaxCommit = 2
  MaxMishaps = 1
SYMMETRY Symmetry
PROPERTIES
  FreshWithoutPull
  ConsumedNotReused
  
CHECK_DEADLOCK FALSE
