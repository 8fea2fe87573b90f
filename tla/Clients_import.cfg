SPECIFICATION ClientsSpec
CONSTANTS
  Lengths = {0, 4, 5, 10, 13, 20, 21}
  NULL = NULL
  Seed = c1
  Calls = {r1, r2}
  MaxRows = 2
  ABSENT = ABSENT
  MaxFaults = 1
SYMMETRY Symmetry
INVARIANTS StoredWellFormed ImportAccounted
