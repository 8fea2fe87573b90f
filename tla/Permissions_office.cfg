SPECIFICATION Spec
CONSTANTS
  Users = {u1, u2}
  Roles = {ro1, ro2}
  Requests = {r1, r2}
  Names = {n1, n2}
  First = p1
  SeedName = n1
  SeedRoles = {ro1, ro2}
  SuperRole = ro1
  NULL = NULL
  MaxFaults = 1
SYMMETRY Symmetry
INVARIANTS ScreensFollowGrants LossExplained RestrictionExplained
PROPERTIES SeedComplete
