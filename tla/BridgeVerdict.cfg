SPECIFICATION Spec
CONSTANTS
  Requests = {q1}
  Slugs = {s1}
  Nonces = {n1}
  CriticalAddons = {}
  NoRequest = NoRequest
  NoNonce = NoNonce
  TTL = 1
  Grace = 1
  MaxClock = 0
  MaxRestarts = 0
PROPERTIES
  VerdictHeeded
CHECK_DEADLOCK FALSE
