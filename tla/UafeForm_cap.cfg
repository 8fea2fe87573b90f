SPECIFICATION Spec
CONSTANTS
  Requests = {r1, r2, r3}
  MaxComprobantes = 2
  MaxFiles = 2
  MaxFailures = 0
SYMMETRY Symmetry
INVARIANTS CapHolds
