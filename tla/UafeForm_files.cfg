SPECIFICATION Spec
CONSTANTS
  Requests = {r1, r2, r3, r4}
  MaxComprobantes = 2
  MaxFiles = 2
  MaxFailures = 2
SYMMETRY Symmetry
INVARIANTS RowsHaveObjects OrphansAccounted CapWithoutOverlap
