SPECIFICATION Spec
CONSTANTS
  Users = {u, v}
  Sockets = {s1, s2}
  NULL = NULL
  Seeds = {i1}
  Requests = {r1, r2}
  Senders = {u}
  Admins = {u}
  ALL = ALL
  MaxFaults = 1
SYMMETRY Symmetry
INVARIANTS RegisterOfRoom ReadToldOnce StatusShown
PROPERTIES HeardByAll
