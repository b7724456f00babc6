SPECIFICATION Spec
CONSTANTS
  Runs = {r1, r2, r3}
  Repos = {g1, g2}
  NoRepo = NoRepo
  NoRun = NoRun
  MaxParallel = 2
  MaxStops = 1
  MaxDiskFaults = 1
SYMMETRY Symmetry
INVARIANTS
  TypeOK
  SlotsAccounted
  PendingAccounted
  MutexHasReleaser
  RepoExclusive
  ActiveHasWorker
  RunningExclusive
  DrainedIsQuiet
PROPERTIES
  KeepsPromises
CHECK_DEADLOCK FALSE
