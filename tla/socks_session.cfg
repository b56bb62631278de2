SPECIFICATION Spec
CONSTANTS
  Clients <- MCClients
  Creds <- Good
  MaxLen = 3
  MaxUnits = 2
INVARIANTS Agreement CopiesAgree VerdictHeard NothingCut
PROPERTIES CancelEnds
CHECK_DEADLOCK FALSE
