SPECIFICATION FairSpec
CONSTANTS
  c1 = c1
  s1 = s1
  s2 = s2
  Callers = {c1}
  Sessions = {s1, s2}
  NoSession = NoSession
  FdVerdicts = {TRUE, FALSE}
PROPERTY StopReturns
PROPERTY CancelledWindsDown
PROPERTY ImplementsLoneCaller
