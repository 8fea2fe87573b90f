SPECIFICATION Spec
CONSTANTS
  Requests = {r1, r2, r3}
  Operations = {"login", "unlock"}
  NULL = NULL
  MaxAttempts = 2
  IdleWindow = 1
  TouchAge = 0
  RefreshTtl = 1
  MaxClock = 0
  MaxAborts = 0
SYMMETRY Symmetry
PROPERTIES OnlyUnlockUnlocks
