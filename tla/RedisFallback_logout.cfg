SPECIFICATION Spec
CONSTANTS
  Pods = {p1}
  Requests = {r1, r2}
  Redis = Redis
  NULL = NULL
  TokenExp = 1
  Limit = 1
  Ttl = 1
  MaxClock = 0
  MaxFaults = 1
SYMMETRY Symmetry
PROPERTIES PodRemembersLogout
