SPECIFICATION Spec
CONSTANTS
  Requests = {q1, q2}
  Slugs = {s1}
  Nonces = {n1}
  CriticalAddons = {}
  NoRequest = NoRequest
  NoNonce = NoNonce
  TTL = 1
  Grace = 1
  MaxClock = 0
  MaxRestarts = 0
INVARIANTS
  NonceSingleUse
CHECK_DEADLOCK FALSE
