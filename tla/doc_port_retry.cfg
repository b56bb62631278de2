SPECIFICATION Spec
CONSTANTS
  p1 = p1
  p2 = p2
  Ports = {p1, p2}
  SocksBuilt = TRUE
  MaxSessions = 2
  MaxQueries = 1
SYMMETRY Symmetry
PROPERTIES BindRetried
CHECK_DEADLOCK FALSE
