SPECIFICATION Spec
CONSTANTS
  Requests = {q1, q2}
  Slugs = {s1, critical}
  Nonces = {n1}
  CriticalAddons = {critical}
  NoRequest = NoRequest
  NoNonce = NoNonce
  TTL = 1
  Grace = 1
  MaxClock = 3
  MaxRestarts = 1
SYMMETRY Symmetry
INVARIANTS
  SlugExclusive
  HeldOnlyInsideOrAfter423
  NoSequentialReuse
  AcceptedWhileAlive
  DestructionAuthorised
  SuccessIsFinished
CHECK_DEADLOCK FALSE
