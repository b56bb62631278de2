SPECIFICATION BridgeSpec
CONSTANTS
  MaxTunnels = 3
INVARIANTS WholeOrGone
CHECK_DEADLOCK FALSE
