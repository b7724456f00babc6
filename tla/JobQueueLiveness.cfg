SPECIFICATION FairSpec
CONSTANTS
  Runs = {r1, r2, r3}
  Repos = {g1}
  NoRepo = NoRepo
  NoRun = NoRun
  MaxParallel = 2
  MaxStops = 0
  MaxDiskFaults = 0
PROPERTIES
  EveryRunConcludes
  RepoNeverWedged
CHECK_DEADLOCK FALSE
