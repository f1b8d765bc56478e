\* A finding: two restarts at once leave two sets of servers.
SPECIFICATION Spec
CONSTANTS
  MaxDrops = 0
  MaxRestarts = 2
  TokenMayFail = FALSE
INVARIANTS
  RestartIdempotent
CHECK_DEADLOCK FALSE
