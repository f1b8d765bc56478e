\* A finding: two daemons win.
SPECIFICATION Spec
CONSTANTS
  Sessions = {s1, s2}
  NoOne = NoOne
  MaxFaults = 0
INVARIANTS
  OneDaemonWins
CHECK_DEADLOCK FALSE
