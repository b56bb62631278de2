SPECIFICATION Spec
CONSTANTS
  IdCount = 3
  MaxSessions = 2
INVARIANTS OwnRuntimeOnly
PROPERTIES StopEndsRuntimes
CHECK_DEADLOCK FALSE
