SPECIFICATION Spec
CONSTANTS
  Client = {c1, c2}
  Server = server
  MaxEvents = 4
SYMMETRY Symmetric
CHECK_DEADLOCK FALSE
INVARIANT ClientsConverge
