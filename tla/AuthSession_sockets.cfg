SPECIFICATION Spec
CONSTANTS
  Requests = {r1, r2, r3}
  Operations = {"login", "forceLogout", "socket"}
  NULL = NULL
  MaxAttempts = 2
  IdleWindow = 1
  TouchAge = 0
  RefreshTtl = 1
  MaxClock = 0
  MaxAborts = 0
SYMMETRY Symmetry
INVARIANTS SocketsFollowSession
