SPECIFICATION Spec
CONSTANTS
  Seeds = {n1}
  Requests = {r1, r2, r3}
  NULL = NULL
  MaxFaults = 2
SYMMETRY Symmetry
INVARIANTS ImagesAccounted ScreenFollows
