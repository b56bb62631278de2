SPECIFICATION Spec
CONSTANTS
  c1 = c1
  c2 = c2
  s1 = s1
  s2 = s2
  Callers = {c1, c2}
  Sessions = {s1, s2}
  NoSession = NoSession
  FdVerdicts = {TRUE}
INVARIANT ConnectedMeansInstalled
