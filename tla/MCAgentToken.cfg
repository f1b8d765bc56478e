\* A finding: a login that fails while reconnecting ends the process.
SPECIFICATION Spec
CONSTANTS
  MaxDrops = 1
  MaxRestarts = 0
  TokenMayFail = TRUE
PROPERTIES
  Reconnects
CHECK_DEADLOCK FALSE
