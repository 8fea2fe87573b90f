SPECIFICATION Spec
CONSTANTS
  Requests = {r1, r2, r3}
  Operations = {"login", "refresh", "api", "logout", "changePassword", "resetPassword", "unlock", "forceLogout", "setActive", "socket"}
  NULL = NULL
  MaxAttempts = 2
  IdleWindow = 1
  TouchAge = 0
  RefreshTtl = 1
  MaxClock = 2
  MaxAborts = 1
SYMMETRY Symmetry
INVARIANTS TypeOK OneLivePerSession RotationKeepsSession ThresholdLocks
PROPERTIES ImplementsSessionLine
