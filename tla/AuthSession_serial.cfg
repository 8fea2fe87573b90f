SPECIFICATION SerialSpec
CONSTANTS
  Requests = {r1, r2, r3, r4}
  Operations = {"login", "refresh", "api", "forceLogout", "changePassword"}
  NULL = NULL
  MaxAttempts = 2
  IdleWindow = 1
  TouchAge = 0
  RefreshTtl = 1
  MaxClock = 2
  MaxAborts = 0
SYMMETRY Symmetry
INVARIANTS SingleSession
PROPERTIES StaleAccessStaysStale
