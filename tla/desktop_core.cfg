SPECIFICATION Spec
CONSTANTS
  Capacity = 2
  Writers = {"runtime", "leaf"}
  Lines <- MCLines
  MaxLines = 3
  Callers = {"dart", "platform"}
  Directories = 2
  MaxFds = 2
  Platforms = {"linux", "macos", "windows"}
INVARIANTS LogsAreNewest LayoutBeforeUse
PROPERTIES FailureIsFinal
CHECK_DEADLOCK FALSE
