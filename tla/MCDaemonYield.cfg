\* A finding: a daemon that yielded deletes the PID file of the other.
SPECIFICATION Spec
CONSTANTS
  Sessions = {s1, s2, s3}
  NoOne = NoOne
  MaxFaults = 0
PROPERTIES
  YieldedLeavesFiles
CHECK_DEADLOCK FALSE
