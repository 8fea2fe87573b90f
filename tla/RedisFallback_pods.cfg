SPECIFICATION Spec
CONSTANTS
  Pods = {p1, p2}
  Requests = {r1, r2, r3}
  Redis = Redis
  NULL = NULL
  TokenExp = 3
  Limit = 1
  Ttl = 1
  MaxClock = 4
  MaxFaults = 1
SYMMETRY Symmetry
INVARIANTS TypeOK EndlessCounterRepaired WindowLimit
PROPERTIES RevocationHolds
