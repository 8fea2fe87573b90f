SPECIFICATION Spec
CONSTANTS
  Seeds = {a1}
  Requests = {r1, r2, r3}
  Codes = {c1, c2}
  NULL = NULL
  MaxFaults = 1
SYMMETRY Symmetry
INVARIANTS CodeUnique PartiesOfOneUpdate NoCircularWait PdfAccounted
PROPERTIES RemovedArchiveRests
